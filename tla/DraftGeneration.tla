-------------------------- MODULE DraftGeneration --------------------------
(***************************************************************************)
(* draft_research_run: a model service is asked for drafts over a stream of *)
(* events; only a confirmed quota or availability failure lets the sealed   *)
(* fallback write them instead; the request is checked again after the      *)
(* call, and drafts.json is linked into place, never replaced.              *)
(***************************************************************************)
EXTENDS Naturals, Sequences, FiniteSets

CONSTANTS
  Drafters,    \* draft commands on one handoff
  Streams,     \* what the service may send: sequences of Events
  Routed,      \* the sealed request permits the fallback
  Cutoff,      \* the finalization deadline
  LastInstant, \* bound: the clock
  NoDraft

\* What the call may bring: stream events, a status other than 200, a lost connection.
Kinds == {"created", "delta", "completed", "error", "failed", "incomplete", "done", "status", "lost"}
Codes == {"quota_exhausted", "service_unavailable", "bad_output", "other"}
Event(kind, id, code) == [kind |-> kind, id |-> id, code |-> code]

ASSUME GenerationAssumption ==
  /\ Cutoff \in Nat /\ LastInstant \in Nat /\ Routed \in BOOLEAN
  /\ Streams \subseteq Seq([kind : Kinds, id : Nat, code : Codes])

VARIABLES
  instant,     \* the clock
  ended,       \* when the run stopped waiting for drafts of the request as it was read
  output,      \* drafts.json
  draw         \* draw[c]: where a draft command is

generationVars == <<instant, ended, output, draw>>

IdleDraw == [step |-> "idle", stream |-> <<>>, by |-> NoDraft, id |-> NoDraft,
             failed |-> NoDraft, at |-> 0]

GenerationInit ==
  /\ instant = 0 /\ ended = NoDraft /\ output = NoDraft
  /\ draw = [c \in Drafters |-> IdleDraw]

-----------------------------------------------------------------------------
(* _read_response and _generate: what becomes of a stream.                 *)

\* _availability_reason, for an error event and a failed response only; 402 and 429
\* with a quota code, 408 and 5xx; every timeout and connection error.
AvailabilityReason(e) ==
  \/ e.kind \in {"error", "failed", "status"} /\ e.code \in {"quota_exhausted", "service_unavailable"}
  \/ e.kind = "lost"

\* Created and delta events are read past.
Ends(s) == {i \in DOMAIN s : s[i].kind \notin {"created", "delta"}}
FirstEnd(s) == CHOOSE i \in Ends(s) : \A k \in Ends(s) : i <= k

\* Every announcement of an identity replaces the one before it.
Created(s, i) == {k \in 1..(i - 1) : s[k].kind = "created"}
\* A reader that accepts any completion.
SameResponseAny(s, i) == TRUE
SameResponse(s, i) ==
  Created(s, i) # {} => s[CHOOSE k \in Created(s, i) : \A m \in Created(s, i) : m <= k].id = s[i].id

\* One output of the sealed model that its schema accepts, not a refusal.
OutputValid(e) == e.code # "bad_output"

\* A response counts when it is complete; a stream that just ends never does.
ReadResponse(s) ==
  IF Ends(s) = {} THEN "error"
  ELSE LET e == s[FirstEnd(s)] IN
       CASE e.kind = "completed" -> IF SameResponse(s, FirstEnd(s)) /\ OutputValid(e) THEN "drafts" ELSE "error"
         [] e.kind # "completed" /\ AvailabilityReason(e) -> "unavailable"
         [] OTHER -> "error"

-----------------------------------------------------------------------------
(* The commands.                                                           *)

InTime == instant < Cutoff
\* _assert_prediction_seal: the run awaits drafts, and its hashes are the request's.
Sealed == ended = NoDraft

\* The seal, _assert_unused_output and the cutoff.
DraftStart(c) ==
  /\ draw[c].step = "idle" /\ Sealed /\ output = NoDraft /\ InTime
  /\ draw' = [draw EXCEPT ![c] = [IdleDraw EXCEPT !.step = "primary"]]
  /\ UNCHANGED <<instant, ended, output>>

DraftFails(c) == draw' = [draw EXCEPT ![c] = IdleDraw]

\* The fallback needs a routed request, time, and the seal a second time.
PrimaryEnds(c, s) ==
  LET r == ReadResponse(s) IN
  /\ draw[c].step = "primary"
  /\ \/ /\ r = "drafts"
        /\ draw' = [draw EXCEPT ![c].step = "bundle", ![c].by = "openai_responses",
                                ![c].id = s[FirstEnd(s)].id, ![c].stream = s]
     \/ /\ r = "unavailable" /\ Routed /\ InTime /\ Sealed
        /\ draw' = [draw EXCEPT ![c].step = "fallback", ![c].failed = instant, ![c].stream = s]
     \/ (r = "error" \/ (r = "unavailable" /\ ~(Routed /\ InTime /\ Sealed))) /\ DraftFails(c)
  /\ UNCHANGED <<instant, ended, output>>

\* CodexResponsesFallback: the installed client answers, or exits, or times out.
FallbackEnds(c, answers) ==
  /\ draw[c].step = "fallback"
  /\ IF answers THEN draw' = [draw EXCEPT ![c].step = "bundle", ![c].by = "codex"] ELSE DraftFails(c)
  /\ UNCHANGED <<instant, ended, output>>

\* The host's time and provenance; then seal, content and cutoff are checked again.
Bundle(c, valid) ==
  /\ draw[c].step = "bundle"
  /\ IF Sealed /\ valid /\ InTime
     THEN draw' = [draw EXCEPT ![c].step = "publish", ![c].at = instant]
     ELSE DraftFails(c)
  /\ UNCHANGED <<instant, ended, output>>

\* generated_by and generated_at: the surface, the response's identity, and the failure
\* that led to a fallback; the stream is kept for the properties.
Provenance(d) == [by |-> d.by, id |-> d.id, failed |-> d.failed, at |-> d.at, stream |-> d.stream]

\* _publish: a link, so another writer's drafts are kept.
PublishDrafts(c) ==
  /\ draw[c].step = "publish" /\ DraftFails(c)
  /\ output' = IF output = NoDraft THEN Provenance(draw[c]) ELSE output
  /\ UNCHANGED <<instant, ended>>

KillDrafter(c) == draw[c].step # "idle" /\ DraftFails(c) /\ UNCHANGED <<instant, ended, output>>

\* The run is rejected, or its input replaced, while the service is asked.
Unseal == Sealed /\ ended' = instant /\ UNCHANGED <<instant, output, draw>>
Pass == instant < LastInstant /\ instant' = instant + 1 /\ UNCHANGED <<ended, output, draw>>

GenerationStep ==
  \/ Pass \/ Unseal
  \/ \E c \in Drafters :
       \/ DraftStart(c) \/ PublishDrafts(c) \/ KillDrafter(c)
       \/ \E s \in Streams : PrimaryEnds(c, s)
       \/ \E b \in BOOLEAN : FallbackEnds(c, b) \/ Bundle(c, b)

GenerationSpec == GenerationInit /\ [][GenerationStep]_generationVars
-----------------------------------------------------------------------------
GenerationTypeOK ==
  /\ instant \in 0..LastInstant /\ (ended # NoDraft => ended <= instant)
  /\ \A c \in Drafters : draw[c].step \in {"idle", "primary", "fallback", "bundle", "publish"}

Confirmed(e) ==
  e.kind = "lost" \/ (e.code \in {"quota_exhausted", "service_unavailable"} /\ e.kind # "incomplete")

\* Position k announces an identity that no event before position n replaces.
Announced(s, k, n) ==
  k \in 1..(n - 1) /\ s[k].kind = "created" /\ \A m \in (k + 1)..(n - 1) : s[m].kind # "created"

\* What drafts.json says of its origin is true.  The API's drafts come from a completed
\* response, under the identity they name, which is the one announced last before it;
\* the fallback's from a routed request whose first terminal event was a confirmed quota
\* or availability failure, no later than the drafts.  Whoever wins the race for the
\* file, its drafts were composed before the cutoff and while the run still waited for
\* them, although the run may end while the service is asked (draft_research_run).
ProvenanceTrue ==
  output # NoDraft =>
    LET s == output.stream
        n == FirstEnd(s)
    IN
    /\ output.at < Cutoff /\ (ended # NoDraft => output.at <= ended)
    /\ Ends(s) # {}
    /\ CASE output.by = "openai_responses" ->
              /\ s[n].kind = "completed" /\ s[n].code # "bad_output" /\ s[n].id = output.id
              /\ \A k \in DOMAIN s : Announced(s, k, n) => s[k].id = output.id
              /\ output.failed = NoDraft
         [] OTHER ->
              /\ Routed /\ Confirmed(s[n]) /\ output.id = NoDraft
              /\ output.failed <= output.at
=============================================================================
