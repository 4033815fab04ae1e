---------------------------- MODULE TraceJournal ----------------------------
(***************************************************************************)
(* What a research command records after its authoritative commit: a trace *)
(* with its spans and the artifacts it read and wrote (the _trace_*        *)
(* functions of backend/app/services/research_v2.py and                    *)
(* research_v2_shadow.py).  Every call of the recorder is a transaction of *)
(* its own and best-effort: an exception is swallowed, the trace is marked *)
(* degraded, if that succeeds, and the journal goes on.  A call that loses *)
(* a race for a unique index or meets a trigger is such an exception.      *)
(***************************************************************************)
EXTENDS Naturals, Sequences, FiniteSets

CONSTANTS Scribes,            \* commands that record on the subject
          MaxJournalFaults    \* bound: calls that raise

ASSUME JournalConfiguration == MaxJournalFaults \in Nat

VARIABLES
    journal,    \* which journal the subject has
    attempts,   \* attempts[n]: the trace of attempt n
    scribe,     \* scribe[w]: the command's position, results and verdict
    faults,     \* calls that raised
    unmarked    \* whether a mark_degraded raised

journalVars == <<journal, attempts, scribe, faults, unmarked>>

-----------------------------------------------------------------------------
(* The journals: calls in their order, each under a span of an earlier one *)

SpanCall(name, parent) == [op |-> "span", name |-> name, under |-> parent, relation |-> "none"]
LinkCall(name, relation, span) == [op |-> "link", name |-> name, under |-> span, relation |-> relation]

TwoSpans == <<SpanCall("validator", "none"), SpanCall("persistence", "validator")>>

ReviewJournal == TwoSpans \o
    <<LinkCall("signal1", "input", "validator"), LinkCall("signal2", "input", "validator"),
      LinkCall("review1", "output", "persistence"), LinkCall("review2", "output", "persistence")>>

OutcomeJournal == TwoSpans \o
    <<LinkCall("evaluation1", "output", "persistence"), LinkCall("evaluation2", "output", "persistence")>>

ReflectionJournal == TwoSpans \o
    <<LinkCall("forecast", "input", "validator"), LinkCall("evaluation", "input", "validator"),
      LinkCall("reflection", "output", "persistence")>>

ShadowJournal ==
    <<SpanCall("external", "none"), SpanCall("validator", "external"),
      SpanCall("persistence", "validator"), LinkCall("signal", "output", "persistence")>>

ShadowReviewJournal == TwoSpans \o
    <<LinkCall("signal", "input", "validator"), LinkCall("review", "output", "persistence")>>

Journals == {"review", "outcome", "reflection", "shadow", "shadow_review"}

\* A repeated admission or evaluation records again; the others record once, by the command that created the row.
Replayed == {"shadow", "outcome"}

\* The journals of research_v2.py end in _finish_artifact_trace.
Counted == {"review", "outcome", "reflection"}

Calls ==
    CASE journal = "review" -> ReviewJournal
      [] journal = "outcome" -> OutcomeJournal
      [] journal = "reflection" -> ReflectionJournal
      [] journal = "shadow" -> ShadowJournal
      [] journal = "shadow_review" -> ShadowReviewJournal

Named(relations) == {c.name : c \in {d \in {Calls[k] : k \in DOMAIN Calls} : d.relation \in relations}}
Outputs == Named({"output"})
SpansAndOutputs == Named({"none", "output"})

-----------------------------------------------------------------------------
NewTrace == [status |-> "running", complete |-> TRUE, spans |-> {}, links |-> {}]
Unstarted == [step |-> "idle", trace |-> 0, next |-> 1, got |-> {}, found |-> 0,
              then |-> "done", verdict |-> "completed"]

JournalInit ==
    /\ journal \in Journals /\ attempts = <<>> /\ faults = 0 /\ unmarked = FALSE
    /\ scribe = [w \in Scribes |-> Unstarted]

Open == {n \in DOMAIN attempts : attempts[n].status = "running"}
LatestOpen == IF Open = {} THEN 0 ELSE CHOOSE n \in Open : \A k \in Open : k <= n

\* An exception inside a call: nothing is written.
Raises == faults < MaxJournalFaults /\ faults' = faults + 1 /\ UNCHANGED <<journal, attempts>>

\* start_trace: the running attempt of the subject or a new one.
Start(w) ==
    /\ scribe[w].step = "idle"
    /\ journal \in Replayed \/ \A v \in Scribes : scribe[v].step = "idle"
    /\ attempts' = IF Open = {} THEN Append(attempts, NewTrace) ELSE attempts
    /\ scribe' = [scribe EXCEPT ![w].step = "call",
                                ![w].trace = IF Open = {} THEN Len(attempts) + 1 ELSE LatestOpen]
    /\ UNCHANGED <<journal, faults, unmarked>>

\* Without a trace nothing is recorded.
StartFails(w) ==
    /\ scribe[w].step = "idle" /\ Raises
    /\ scribe' = [scribe EXCEPT ![w].step = "done"]
    /\ UNCHANGED unmarked

\* A span that could not be recorded is no parent: what follows it hangs free.
Under(w, c) == IF c.under \in scribe[w].got THEN c.under ELSE "none"

\* What record_span_snapshot and link_artifact add to a running trace.
Recorded(w, c, t) ==
    IF c.op = "span" THEN [t EXCEPT !.spans = @ \cup {c.name}]
    ELSE [t EXCEPT !.links = @ \cup {[name |-> c.name, relation |-> c.relation, span |-> Under(w, c)]}]

\* The next call; on a sealed trace it returns None and changes nothing.
Call(w) ==
    LET n == scribe[w].trace
        c == Calls[scribe[w].next] IN
    /\ scribe[w].step = "call" /\ scribe[w].next <= Len(Calls)
    /\ IF n \in Open
       THEN /\ attempts' = [attempts EXCEPT ![n] = Recorded(w, c, @)]
            /\ scribe' = [scribe EXCEPT ![w].next = @ + 1, ![w].got = @ \cup {c.name}]
       ELSE /\ scribe' = [scribe EXCEPT ![w].next = @ + 1]
            /\ UNCHANGED attempts
    /\ UNCHANGED <<journal, faults, unmarked>>

\* A failed link marks its trace, a failed span whatever trace of the subject runs.
CallFails(w) ==
    LET c == Calls[scribe[w].next] IN
    /\ scribe[w].step = "call" /\ scribe[w].next <= Len(Calls) /\ Raises
    /\ scribe' = [scribe EXCEPT ![w].step = "mark", ![w].then = "call", ![w].next = @ + 1,
                                ![w].found = IF c.op = "span" THEN LatestOpen ELSE scribe[w].trace]
    /\ UNCHANGED unmarked

\* mark_degraded.
MarkDegraded(w) ==
    LET n == scribe[w].found IN
    /\ scribe[w].step = "mark"
    /\ attempts' = IF n \in Open THEN [attempts EXCEPT ![n].complete = FALSE] ELSE attempts
    /\ scribe' = [scribe EXCEPT ![w].step = scribe[w].then]
    /\ UNCHANGED <<journal, faults, unmarked>>

MarkFails(w) ==
    /\ scribe[w].step = "mark" /\ Raises /\ unmarked' = TRUE
    /\ scribe' = [scribe EXCEPT ![w].step = scribe[w].then]

\* Without the flag: a count of links that covers the number of outputs.
CompleteByCount(w) ==
    LET t == attempts[scribe[w].trace] IN
    IF journal \in Counted THEN Cardinality(t.links) >= Cardinality(Outputs)
    ELSE SpansAndOutputs \subseteq scribe[w].got

\* _finish_artifact_trace counts all links, inputs too, against the number of outputs and
\* relies on the mark; the shadow journals look at the results of their own calls.
Complete(w) ==
    LET t == attempts[scribe[w].trace] IN
    IF journal \in Counted THEN t.complete /\ Cardinality(t.links) >= Cardinality(Outputs)
    ELSE SpansAndOutputs \subseteq scribe[w].got

\* The verdict; all but the shadow review mark a trace they call degraded.
Decided(w, complete) ==
    scribe' = [scribe EXCEPT
        ![w].verdict = IF complete THEN "completed" ELSE "degraded",
        ![w].step = IF complete \/ journal = "shadow_review" THEN "finish" ELSE "mark",
        ![w].found = scribe[w].trace, ![w].then = "finish"]

AllCalled(w) == scribe[w].step = "call" /\ scribe[w].next > Len(Calls)

Judge(w) ==
    /\ AllCalled(w) /\ Decided(w, Complete(w))
    /\ UNCHANGED <<journal, attempts, faults, unmarked>>

JudgeFails(w) ==
    /\ AllCalled(w) /\ journal \in Counted /\ Raises /\ Decided(w, FALSE)
    /\ UNCHANGED unmarked

\* finish_trace, on a trace that still runs.
Finish(w) ==
    LET n == scribe[w].trace IN
    /\ scribe[w].step = "finish"
    /\ attempts' = IF n \in Open THEN [attempts EXCEPT ![n].status = scribe[w].verdict] ELSE attempts
    /\ scribe' = [scribe EXCEPT ![w].step = "done"]
    /\ UNCHANGED <<journal, faults, unmarked>>

FinishFails(w) ==
    /\ scribe[w].step = "finish" /\ Raises
    /\ scribe' = [scribe EXCEPT ![w].step = "done"]
    /\ UNCHANGED unmarked

\* The command is killed after its commit.
DieWriting(w) ==
    /\ scribe[w].step \notin {"idle", "done"}
    /\ scribe' = [scribe EXCEPT ![w].step = "done"]
    /\ UNCHANGED <<journal, attempts, faults, unmarked>>

JournalStep(w) ==
    \/ Start(w) \/ Call(w) \/ MarkDegraded(w) \/ Judge(w) \/ Finish(w) \/ DieWriting(w)
    \/ StartFails(w) \/ CallFails(w) \/ MarkFails(w) \/ JudgeFails(w) \/ FinishFails(w)

-----------------------------------------------------------------------------
(* What is promised.                                                       *)

\* A trace sealed as completed has every span and every output of its journal, unless a
\* mark of degradation was lost too; the shadow journals, which look at their own results,
\* hold it even then.  A trace sealed as degraded had a call that raised.
\* (_finish_artifact_trace, _trace_shadow_admission, mark_degraded.)
CompletedIsWhole ==
    \A n \in DOMAIN attempts :
        LET t == attempts[n] IN
        /\ t.status = "completed" /\ (unmarked => journal \notin Counted) =>
              SpansAndOutputs \subseteq t.spans \cup {l.name : l \in {k \in t.links : k.relation = "output"}}
        /\ t.status = "degraded" => faults > 0
=============================================================================
