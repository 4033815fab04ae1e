--------------------------- MODULE ResearchProofs ---------------------------
(***************************************************************************)
(* Proofs about the submission of v1 runs and the v2 research programme,   *)
(* for every set of requests, keys, as_ofs, inputs and operators.          *)
(***************************************************************************)
EXTENDS MCResearch, FiniteSetTheorems, TLAPS

-----------------------------------------------------------------------------
(* The submission of v1 runs: RunSubmission.                               *)

Keyed == {"lookup", "active", "prepare", "enqueue", "insert", "wait"}

\* What request r knows and has written.
RequestOK(r) ==
    /\ req[r].step = "new" => req[r].key = NoRequest
    /\ req[r].step \in Keyed \cup {"undo"} => req[r].key \in Keys
    /\ req[r].step = "file" => req[r].key = NoRequest
    /\ req[r].step \in Keyed \cup {"undo", "file"} => req[r].asOf \in AsOfs
    /\ req[r].step \in Keyed \cup {"new", "file"} => v1[r].status = "none"
    /\ req[r].step # "done" => req[r].answer = NoRequest

\* Whoever is answered with a run is answered with a run that exists.
AnsweredOK(r) ==
    req[r].answer # NoRequest =>
        /\ v1[req[r].answer].status # "none"
        /\ v1[req[r].answer].asOf = req[r].asOf
        /\ req[r].key # NoRequest => bound[req[r].key] = req[r].answer

Live(r) == v1[r].status \in {"awaiting_draft", "queued", "completed"}

SubInv ==
    /\ SubmissionTypeOK
    /\ \A r \in Requests : RequestOK(r) /\ AnsweredOK(r)
    /\ \A k \in Keys : bound[k] # NoRequest => v1[bound[k]].status # "none"
    /\ \A a, b \in Requests : Live(a) /\ Live(b) /\ v1[a].asOf = v1[b].asOf => a = b

LEMMA SubmissionInitHolds == SubmissionInit => SubInv
  <1> SUFFICES ASSUME SubmissionInit PROVE SubInv
    OBVIOUS
  <1>1. /\ NewRequest \in Request /\ NewRequest.step = "new" /\ NewRequest.key = NoRequest
        /\ NewRequest.answer = NoRequest
    BY DEF NewRequest, Request
  <1>2. \A r \in Requests : req[r] = NewRequest /\ v1[r].status = "none"
    BY DEF SubmissionInit
  <1>3. SubmissionTypeOK
    BY <1>1 DEF SubmissionInit, SubmissionTypeOK, V1Run
  <1>4. \A k \in Keys : bound[k] = NoRequest
    BY DEF SubmissionInit
  <1> QED BY <1>1, <1>2, <1>3, <1>4 DEF SubInv, RequestOK, AnsweredOK, Live, Keyed

LEMMA SubFacts ==
    ASSUME SubInv, NEW r \in Requests
    PROVE  /\ SubmissionTypeOK /\ RequestOK(r) /\ AnsweredOK(r) /\ req[r] \in Request
           /\ req[r].step \in Keyed \cup {"new", "undo", "file", "done"}
           /\ req[r].key \in Keys \cup {NoRequest} /\ req[r].asOf \in AsOfs \cup {NoRequest}
           /\ req[r].answer \in Requests \cup {NoRequest} /\ req[r].active \in Requests \cup {NoRequest}
           /\ v1[r] \in V1Run /\ r # NoRequest
           /\ NoRequest \notin Keys /\ NoRequest \notin AsOfs /\ NoRequest \notin Requests
           /\ req \in [Requests -> Request] /\ v1 \in [Requests -> V1Run]
           /\ bound \in [Keys -> Requests \cup {NoRequest}]
  BY SubmissionConfiguration DEF SubInv, SubmissionTypeOK, Request, Keyed, SubmissionConfiguration

\* A request that moves while the rows stand.
LEMMA RequestMoves ==
    ASSUME SubInv, NEW r \in Requests, NEW x \in Request, req' = [req EXCEPT ![r] = x],
           UNCHANGED <<v1, bound>>,
           x.step = "new" => x.key = NoRequest,
           x.step \in Keyed \cup {"undo"} => x.key \in Keys,
           x.step = "file" => x.key = NoRequest,
           x.step \in Keyed \cup {"undo", "file"} => x.asOf \in AsOfs,
           x.step \in Keyed \cup {"new", "file"} => v1[r].status = "none",
           x.step # "done" => x.answer = NoRequest,
           x.answer # NoRequest =>
               /\ v1[x.answer].status # "none" /\ v1[x.answer].asOf = x.asOf
               /\ x.key # NoRequest => bound[x.key] = x.answer
    PROVE  SubInv'
  <1>1. req' \in [Requests -> Request] /\ req'[r] = x /\ \A s \in Requests \ {r} : req'[s] = req[s]
    BY SubFacts
  <1>2. SubmissionTypeOK'
    BY <1>1 DEF SubInv, SubmissionTypeOK
  <1>3. RequestOK(r)' /\ AnsweredOK(r)'
    BY <1>1 DEF RequestOK, AnsweredOK
  <1>4. \A s \in Requests \ {r} : RequestOK(s)' /\ AnsweredOK(s)'
    BY <1>1 DEF RequestOK, AnsweredOK, SubInv
  <1> QED BY <1>2, <1>3, <1>4 DEF SubInv, Live

\* A request under way with a key goes on.
LEMMA GotoKeeps ==
    ASSUME SubInv, NEW r \in Requests, req[r].step \in Keyed, NEW step \in Keyed,
           Goto(r, step), UNCHANGED <<v1, bound>>
    PROVE  SubInv'
  <1> DEFINE x == [req[r] EXCEPT !.step = step]
  <1>1. /\ x \in Request /\ x.step = step /\ x.key = req[r].key /\ x.asOf = req[r].asOf
        /\ x.answer = req[r].answer
    BY SubFacts DEF Request, Keyed
  <1>2. req' = [req EXCEPT ![r] = x]
    BY DEF Goto
  <1> HIDE DEF x
  <1>3. req[r].key \in Keys /\ req[r].asOf \in AsOfs /\ v1[r].status = "none" /\ req[r].answer = NoRequest
    BY SubFacts DEF RequestOK, Keyed
  <1> QED BY <1>1, <1>2, <1>3, RequestMoves DEF Keyed

\* An answer of a request ends it.
LEMMA AnswerIs ==
    ASSUME SubInv, NEW r \in Requests, NEW a \in Requests \cup {NoRequest}, Answer(r, a)
    PROVE  \E x \in Request :
              /\ req' = [req EXCEPT ![r] = x]
              /\ x.step = "done" /\ x.key = req[r].key /\ x.asOf = req[r].asOf /\ x.answer = a
  <1> DEFINE x == [req[r] EXCEPT !.step = "done", !.answer = a]
  <1>1. /\ x \in Request /\ x.step = "done" /\ x.key = req[r].key /\ x.asOf = req[r].asOf
        /\ x.answer = a
    BY SubFacts DEF Request
  <1>2. req' = [req EXCEPT ![r] = x]
    BY SubFacts DEF Answer
  <1> HIDE DEF x
  <1> QED BY <1>1, <1>2

LEMMA AnswerKeeps ==
    ASSUME SubInv, NEW r \in Requests, NEW a \in Requests \cup {NoRequest}, Answer(r, a),
           UNCHANGED <<v1, bound>>,
           a # NoRequest => /\ v1[a].status # "none" /\ v1[a].asOf = req[r].asOf
                            /\ req[r].key # NoRequest => bound[req[r].key] = a
    PROVE  SubInv'
  <1>1. PICK x \in Request :
              /\ req' = [req EXCEPT ![r] = x]
              /\ x.step = "done" /\ x.key = req[r].key /\ x.asOf = req[r].asOf /\ x.answer = a
    BY AnswerIs
  <1> QED BY <1>1, RequestMoves DEF Keyed

LEMMA IdempotentKeeps ==
    ASSUME SubInv, NEW r \in Requests, req[r].step \in Keyed, NEW q, q = bound[req[r].key],
           q # NoRequest, IdempotentAnswer(r, q), UNCHANGED <<v1, bound>>
    PROVE  SubInv'
  <1>1. req[r].key \in Keys
    BY SubFacts DEF RequestOK
  <1>2. q \in Requests /\ v1[q].status # "none"
    BY <1>1, SubFacts DEF SubInv
  <1> QED BY <1>1, <1>2, AnswerKeeps DEF IdempotentAnswer

LEMMA ReadingKeeps ==
    ASSUME SubInv, NEW r \in Requests,
           Lookup(r) \/ FindActive(r) \/ Prepare(r) \/ EnqueueRead(r) \/ WaitForTask(r)
    PROVE  SubInv'
  <1>1. req[r].step \in Keyed /\ UNCHANGED <<v1, bound>>
    BY DEF Lookup, FindActive, Prepare, EnqueueRead, WaitForTask, Keyed
  <1>2. ASSUME Answer(r, NoRequest) PROVE SubInv'
    BY <1>1, <1>2, AnswerKeeps
  <1>3. ASSUME NEW step \in Keyed, Goto(r, step) PROVE SubInv'
    BY <1>1, <1>3, GotoKeeps
  <1>4. CASE FindActive(r) /\ ActiveOn(req[r].asOf) # {}
    <2> DEFINE a == CHOOSE q \in ActiveOn(req[r].asOf) : TRUE
               x == [req[r] EXCEPT !.step = "wait", !.active = a]
    <2>1. a \in Requests /\ req' = [req EXCEPT ![r].step = "wait", ![r].active = a]
      BY <1>4 DEF FindActive, ActiveOn
    <2> HIDE DEF a
    <2>2. /\ x \in Request /\ x.step = "wait" /\ x.key = req[r].key /\ x.asOf = req[r].asOf
          /\ x.answer = req[r].answer
      BY ZenonT(40), <2>1, SubFacts DEF Request
    <2>3. req' = [req EXCEPT ![r] = x]
      BY <2>1, SubFacts
    <2> HIDE DEF x
    <2>4. req[r].key \in Keys /\ req[r].asOf \in AsOfs /\ v1[r].status = "none" /\ req[r].answer = NoRequest
      BY <1>1, SubFacts DEF RequestOK, Keyed
    <2> QED BY <1>1, <2>2, <2>3, <2>4, RequestMoves DEF Keyed
  <1>5. ASSUME Lookup(r) PROVE SubInv'
    BY <1>1, <1>3, <1>5, IdempotentKeeps DEF Lookup, Keyed
  <1>6. ASSUME WaitForTask(r) PROVE SubInv'
    BY <1>1, <1>2, <1>6, IdempotentKeeps DEF WaitForTask
  <1>7. ASSUME EnqueueRead(r) PROVE SubInv'
    <2>1. "wait" \in Keyed /\ "insert" \in Keyed
      BY DEF Keyed
    <2>2. Answer(r, NoRequest) \/ Goto(r, "wait") \/ Goto(r, "insert")
      BY <1>7 DEF EnqueueRead
    <2> QED BY <1>2, <1>3, <2>1, <2>2
  <1> QED BY <1>2, <1>3, <1>4, <1>5, <1>6, <1>7 DEF FindActive, Prepare, Keyed

LEMMA SubmitKeeps ==
    ASSUME SubInv, NEW r \in Requests, NEW k \in Keys, NEW t \in AsOfs, Submit(r, k, t)
    PROVE  SubInv'
  <1>1. /\ req[r].step = "new" /\ req[r].answer = NoRequest
        /\ v1[r].status = "none" /\ UNCHANGED <<v1, bound>>
    BY SubFacts DEF Submit, RequestOK
  <1> DEFINE x == [req[r] EXCEPT !.step = "lookup", !.key = k, !.asOf = t]
  <1>2. /\ x \in Request /\ x.step = "lookup" /\ x.key = k /\ x.asOf = t /\ x.answer = req[r].answer
    <2>1. req[r] \in Request
      BY SubFacts
    <2> QED BY <2>1 DEF Request
  <1>3. req' = [req EXCEPT ![r] = x]
    BY SubFacts DEF Submit
  <1> HIDE DEF x
  <1> QED BY <1>1, <1>2, <1>3, RequestMoves DEF Keyed

LEMMA FilePrepareKeeps ==
    ASSUME SubInv, NEW r \in Requests, NEW t \in AsOfs, FilePrepare(r, t)
    PROVE  SubInv'
  <1>1. /\ req[r].step = "new" /\ req[r].answer = NoRequest /\ req[r].key = NoRequest
        /\ v1[r].status = "none" /\ UNCHANGED <<v1, bound>>
    BY SubFacts DEF FilePrepare, RequestOK
  <1> DEFINE x == [req[r] EXCEPT !.step = "file", !.asOf = t]
  <1>2. /\ x \in Request /\ x.step = "file" /\ x.key = req[r].key /\ x.asOf = t /\ x.answer = req[r].answer
    BY SubFacts DEF Request
  <1>3. req' = [req EXCEPT ![r] = x]
    BY SubFacts DEF FilePrepare
  <1> HIDE DEF x
  <1> QED BY <1>1, <1>2, <1>3, RequestMoves DEF Keyed

\* A run is inserted for a request that has none, on an as_of that has no live run, with
\* the task of its key when it has a key.
LEMMA InsertKeeps ==
    ASSUME SubInv, NEW r \in Requests, v1[r].status = "none", req[r].answer = NoRequest,
           req[r].asOf \in AsOfs, ActiveOn(req[r].asOf) = {},
           NEW s \in {"awaiting_draft", "queued"},
           v1' = [v1 EXCEPT ![r] = [status |-> s, asOf |-> req[r].asOf]],
           \/ req[r].key = NoRequest /\ bound' = bound
           \/ req[r].key \in Keys /\ bound[req[r].key] = NoRequest /\ bound' = [bound EXCEPT ![req[r].key] = r],
           NEW x \in Request, req' = [req EXCEPT ![r] = x],
           x.key = req[r].key, x.asOf = req[r].asOf,
           \/ x.step = "done" /\ x.answer \in {r, NoRequest}
           \/ x.step = "undo" /\ x.answer = NoRequest /\ x.key \in Keys
    PROVE  SubInv'
  <1>1. /\ req' \in [Requests -> Request] /\ req'[r] = x
        /\ \A q \in Requests \ {r} : req'[q] = req[q]
    BY SubFacts
  <1>2. /\ v1' \in [Requests -> V1Run] /\ v1'[r].status = s /\ v1'[r].asOf = req[r].asOf
        /\ \A q \in Requests \ {r} : v1'[q] = v1[q]
    <2>1. [status |-> s, asOf |-> req[r].asOf] \in V1Run
      BY DEF V1Run
    <2> QED BY <2>1, SubFacts
  <1>3. /\ bound' \in [Keys -> Requests \cup {NoRequest}]
        /\ \A k \in Keys : bound[k] # NoRequest => bound'[k] = bound[k]
        /\ \A k \in Keys : bound'[k] # NoRequest => bound'[k] \in {r, bound[k]}
        /\ req[r].key \in Keys => bound'[req[r].key] = r
    BY SubFacts
  <1>4. SubmissionTypeOK'
    BY <1>1, <1>2, <1>3 DEF SubmissionTypeOK
  <1>5. RequestOK(r)'
    BY <1>1, <1>2 DEF RequestOK, Keyed
  <1>6. r # NoRequest /\ req[r].key \in Keys \cup {NoRequest}
    BY SubFacts
  <1>7. AnsweredOK(r)'
    BY <1>1, <1>2, <1>3, <1>6 DEF AnsweredOK
  <1>8. ASSUME NEW q \in Requests \ {r} PROVE RequestOK(q)' /\ AnsweredOK(q)'
    <2>1. RequestOK(q) /\ AnsweredOK(q) /\ req[q].answer \in Requests \cup {NoRequest} /\ req[q].key \in Keys \cup {NoRequest}
      BY SubFacts
    <2>2. RequestOK(q)'
      BY <1>1, <1>2, <2>1 DEF RequestOK
    <2>3. req[q].answer # NoRequest => req[q].answer \in Requests \ {r}
      BY <2>1 DEF AnsweredOK
    <2> QED BY <1>1, <1>2, <1>3, <2>1, <2>2, <2>3 DEF AnsweredOK
  <1>9. ASSUME NEW k \in Keys, bound'[k] # NoRequest PROVE v1'[bound'[k]].status # "none"
    <2>1. bound[k] \in Requests \cup {NoRequest} /\ (bound[k] # NoRequest => v1[bound[k]].status # "none")
      BY SubFacts DEF SubInv
    <2> QED BY <1>2, <1>3, <1>9, <2>1
  <1>10. ASSUME NEW a \in Requests, NEW b \in Requests, Live(a)', Live(b)', v1'[a].asOf = v1'[b].asOf
         PROVE  a = b
    <2>1. \A q \in Requests : Live(q) => v1[q].asOf # req[r].asOf
      BY DEF ActiveOn, Live
    <2> QED BY <1>2, <1>10, <2>1 DEF SubInv, Live
  <1> QED BY <1>4, <1>5, <1>7, <1>8, <1>9, <1>10 DEF SubInv

\* A run ends; it stays a run.
LEMMA EndKeeps ==
    ASSUME SubInv, NEW r \in Requests, v1[r].status # "none", NEW s \in {"completed", "failed"},
           s = "completed" => Live(r), v1' = [v1 EXCEPT ![r].status = s], bound' = bound,
           NEW x \in Request, req' = [req EXCEPT ![r] = x], x.key = req[r].key, x.asOf = req[r].asOf,
           x = req[r] \/ (x.step = "done" /\ x.answer = NoRequest)
    PROVE  SubInv'
  <1>1. /\ req' \in [Requests -> Request] /\ req'[r] = x
        /\ \A q \in Requests \ {r} : req'[q] = req[q]
    BY SubFacts
  <1>2. /\ v1' \in [Requests -> V1Run] /\ v1'[r].status = s /\ v1'[r].asOf = v1[r].asOf
        /\ \A q \in Requests \ {r} : v1'[q] = v1[q]
    <2> DEFINE y == [v1[r] EXCEPT !.status = s]
    <2>1. y \in V1Run /\ y.status = s /\ y.asOf = v1[r].asOf
      BY SubFacts DEF V1Run
    <2>2. v1' = [v1 EXCEPT ![r] = y]
      OBVIOUS
    <2> HIDE DEF y
    <2> QED BY <2>1, <2>2, SubFacts
  <1>3. SubmissionTypeOK'
    BY <1>1, <1>2, SubFacts DEF SubmissionTypeOK
  <1>4. \A q \in Requests : v1'[q].asOf = v1[q].asOf /\ (v1[q].status # "none" => v1'[q].status # "none")
    BY <1>2
  <1>5. \A q \in Requests : RequestOK(q)'
    BY <1>1, <1>2, SubFacts DEF RequestOK, Keyed
  <1>6. ASSUME NEW q \in Requests PROVE AnsweredOK(q)'
    <2>1. AnsweredOK(q) /\ req[q].answer \in Requests \cup {NoRequest}
      BY SubFacts
    <2>2. req'[q].answer # NoRequest => req'[q] = req[q]
      BY <1>1
    <2> QED BY <1>4, <2>1, <2>2 DEF AnsweredOK
  <1>7. \A k \in Keys : bound'[k] # NoRequest => v1'[bound'[k]].status # "none"
    BY <1>4, SubFacts DEF SubInv
  <1>8. \A q \in Requests : Live(q)' => Live(q)
    BY <1>2 DEF Live
  <1> QED BY <1>3, <1>4, <1>5, <1>6, <1>7, <1>8 DEF SubInv

LEMMA SubmissionStepKeeps == SubInv /\ [SubmissionStep]_subVars => SubInv'
  <1> SUFFICES ASSUME SubInv, [SubmissionStep]_subVars PROVE SubInv'
    OBVIOUS
  <1>1. CASE UNCHANGED subVars
    BY <1>1 DEF subVars, SubInv, SubmissionTypeOK, RequestOK, AnsweredOK, Live
  <1>2. ASSUME NEW r \in Requests, EnqueueCommit(r) PROVE SubInv'
    <2>1. /\ req[r].step = "insert" /\ req[r].key \in Keys /\ req[r].asOf \in AsOfs
          /\ v1[r].status = "none" /\ req[r].answer = NoRequest
      BY <1>2, SubFacts DEF EnqueueCommit, RequestOK, Keyed
    <2>2. CASE InsertFits(r)
      <3>1. PICK x \in Request :
              /\ req' = [req EXCEPT ![r] = x]
              /\ x.step = "done" /\ x.key = req[r].key /\ x.asOf = req[r].asOf /\ x.answer = r
        BY <1>2, <2>2, AnswerIs DEF EnqueueCommit
      <3> QED BY <1>2, <2>1, <2>2, <3>1, InsertKeeps DEF EnqueueCommit, InsertFits
    <2>3. CASE ~InsertFits(r)
      BY <1>2, <2>1, <2>3, GotoKeeps DEF EnqueueCommit, Keyed
    <2> QED BY <2>2, <2>3
  <1>3. ASSUME NEW r \in Requests, EnqueueRaises(r) PROVE SubInv'
    <2>1. /\ req[r].step = "insert" /\ req[r].key \in Keys /\ req[r].asOf \in AsOfs
          /\ v1[r].status = "none" /\ req[r].answer = NoRequest
      BY <1>3, SubFacts DEF EnqueueRaises, RequestOK, Keyed
    <2> DEFINE x == [req[r] EXCEPT !.step = "undo"]
    <2>2. /\ x \in Request /\ x.step = "undo" /\ x.key = req[r].key /\ x.asOf = req[r].asOf
          /\ x.answer = req[r].answer
      BY SubFacts DEF Request
    <2>3. req' = [req EXCEPT ![r] = x]
      BY <1>3 DEF EnqueueRaises, Goto
    <2> HIDE DEF x
    <2> QED BY <1>3, <2>1, <2>2, <2>3, InsertKeeps DEF EnqueueRaises, InsertFits
  <1>4. ASSUME NEW r \in Requests, FailUnqueued(r) PROVE SubInv'
    <2>1. PICK x \in Request :
              /\ req' = [req EXCEPT ![r] = x]
              /\ x.step = "done" /\ x.key = req[r].key /\ x.asOf = req[r].asOf /\ x.answer = NoRequest
      BY <1>4, AnswerIs DEF FailUnqueued
    <2>2. CASE v1[r].status = "queued"
      BY <1>4, <2>1, <2>2, EndKeeps DEF FailUnqueued
    <2>3. CASE v1[r].status # "queued"
      BY <1>4, <2>3, AnswerKeeps DEF FailUnqueued
    <2> QED BY <2>2, <2>3
  <1>5. ASSUME NEW r \in Requests, FileInsert(r) PROVE SubInv'
    <2>1. /\ req[r].step = "file" /\ req[r].key = NoRequest /\ req[r].asOf \in AsOfs
          /\ v1[r].status = "none" /\ req[r].answer = NoRequest
      BY <1>5, SubFacts DEF FileInsert, RequestOK
    <2>2. CASE ActiveOn(req[r].asOf) = {}
      <3>1. PICK x \in Request :
              /\ req' = [req EXCEPT ![r] = x]
              /\ x.step = "done" /\ x.key = req[r].key /\ x.asOf = req[r].asOf /\ x.answer = r
        BY <1>5, <2>2, AnswerIs DEF FileInsert
      <3> QED BY <1>5, <2>1, <2>2, <3>1, InsertKeeps DEF FileInsert
    <2>3. CASE ActiveOn(req[r].asOf) # {}
      BY <1>5, <2>3, AnswerKeeps DEF FileInsert
    <2> QED BY <2>2, <2>3
  <1>6. ASSUME NEW r \in Requests, NEW s \in {"completed", "failed"}, EndRun(r, s) PROVE SubInv'
    <2>1. req' = [req EXCEPT ![r] = req[r]] /\ req[r] \in Request
      BY <1>6, SubFacts DEF EndRun
    <2>2. v1[r].status # "none" /\ Live(r)
      BY <1>6 DEF EndRun, Live
    <2> QED BY <1>6, <2>1, <2>2, EndKeeps DEF EndRun
  <1> QED BY <1>1, <1>2, <1>3, <1>4, <1>5, <1>6, ReadingKeeps, SubmitKeeps, FilePrepareKeeps
      DEF SubmissionStep

\* However requests, file prepares, repeats after errors and the ends of runs interleave,
\* a key stands for one run, who is answered gets the run asked for, and an as_of has one
\* live run (create_run, task_queue.enqueue, uq_active_live_run_as_of).
THEOREM RequestsAgree == SubmissionSpec => []AnswersAgree
  <1>1. SubInv => AnswersAgree
    <2> SUFFICES ASSUME SubInv PROVE AnswersAgree
      OBVIOUS
    <2>1. ASSUME NEW t \in AsOfs PROVE Cardinality(ActiveOn(t)) <= 1
      <3>1. ActiveOn(t) = {} \/ \E r \in Requests : ActiveOn(t) = {r}
        BY DEF ActiveOn, SubInv, Live
      <3>2. Cardinality({}) = 0 /\ \A r \in Requests : Cardinality({r}) = 1
        BY FS_EmptySet, FS_Singleton
      <3> QED BY <3>1, <3>2
    <2> QED BY <2>1 DEF AnswersAgree, SubInv, AnsweredOK
  <1> QED BY <1>1, SubmissionInitHolds, SubmissionStepKeeps, PTL DEF SubmissionSpec

-----------------------------------------------------------------------------
(* The runs of the research programme: ResearchRuns and ResearchLedger.    *)

\* What a command c relies on: a prepare works on the run it inserted until it seals it,
\* a commit was opened before the deadline, a receipt is that of the row.
CommandOK(c) ==
    /\ c.step # "idle" => c.input \in Inputs
    /\ c.step \in {"open", "commit", "receipt", "recover", "reject", "rejectCommit", "rejectReceipt"} =>
            c.draft \in Drafts
    /\ c.step \in {"write", "seal"} => run[c.input].status = "awaiting_draft" /\ ~run[c.input].sealed
    /\ c.step = "commit" => run[c.input].sealed /\ BeforeDeadline(c.input)
    /\ c.step = "receipt" => run[c.input].status = "completed" /\ run[c.input].receipt = c.draft
    /\ c.step = "recover" => run[c.input].status = "completed"
    /\ c.step = "rejectCommit" => run[c.input].sealed
    /\ c.step = "rejectReceipt" => run[c.input].status = "failed" /\ run[c.input].receipt = c.draft

Preparing(c) == c.step \in {"write", "seal"}

\* A row before its end has no receipt, one without a request no seal.
RowOK(i) ==
    /\ run[i].status \in {"absent", "awaiting_draft"} => run[i].receipt = Nothing
    /\ run[i].status = "absent" => ~run[i].sealed
    /\ run[i].status = "completed" => run[i].sealed

\* The signals of run i and its receipts.
OutcomeOK(i) ==
    /\ run[i].status = "completed" =>
            /\ {s.track : s \in SignalsOf(i)} = dir[i].assigned
            /\ Cardinality(SignalsOf(i)) = Cardinality(dir[i].assigned)
            /\ \A s \in SignalsOf(i) : s.from = run[i].receipt
    /\ run[i].status # "completed" => SignalsOf(i) = {}
    /\ dir[i].receipt # Nothing => dir[i].receipt = run[i].receipt

RunInv ==
    /\ RunTypeOK
    /\ \A o \in Operators : CommandOK(op[o])
    /\ \A o, p \in Operators :
            Preparing(op[o]) /\ Preparing(op[p]) /\ op[o].input = op[p].input => o = p
    /\ \A i \in Inputs : RowOK(i) /\ OutcomeOK(i)

\* The outcome of an observed episode is known on its target session.
ObservedOK == \A e \in observed : day >= e.anchor + Horizon[e.track]

LedgerInv == LedgerTypeOK /\ ObservedOK /\ NoSignalAfterOutcome

LEMMA RunFacts ==
    ASSUME RunInv
    PROVE  /\ RunTypeOK /\ day \in Nat /\ day \in 1..LastDay /\ LastDay \in Nat
           /\ \A i \in Inputs :
                /\ run[i] \in Run /\ dir[i] \in Directory /\ Anchor[i] \in Nat
                /\ run[i].status \in {"absent", "awaiting_draft", "completed", "failed"}
                /\ run[i].sealed \in BOOLEAN /\ run[i].receipt \in Drafts \cup {Nothing}
                /\ dir[i].assigned \subseteq Tracks /\ dir[i].receipt \in Drafts \cup {Nothing}
                /\ dir[i].drafts \in Drafts \cup {Nothing}
                /\ dir[i].reviews \subseteq Tracks \cup ShadowAgents
                /\ RowOK(i) /\ OutcomeOK(i)
           /\ \A o \in Operators : /\ op[o] \in Command /\ CommandOK(op[o]) /\ op[o].step \in Steps
                                   /\ op[o].assigned \subseteq Tracks
           /\ run \in [Inputs -> Run] /\ dir \in [Inputs -> Directory] /\ op \in [Operators -> Command]
           /\ \A t \in Tracks : Horizon[t] \in Nat
           /\ Idle \in Command /\ Idle.step = "idle"
           /\ Nothing \notin Drafts
  BY ResearchConfiguration
  DEF RunInv, RunTypeOK, Run, Directory, Command, Idle, Steps, ResearchConfiguration

LEMMA RunInitHolds == RunInit => RunInv
  <1> SUFFICES ASSUME RunInit PROVE RunInv
    OBVIOUS
  <1>1. /\ NoRun \in Run /\ NoRun.status = "absent" /\ NoRun.receipt = Nothing /\ NoRun.sealed = FALSE
        /\ NoDirectory \in Directory /\ NoDirectory.receipt = Nothing
        /\ Idle \in Command /\ Idle.step = "idle"
    BY DEF NoRun, Run, NoDirectory, Directory, Idle, Command, Steps
  <1>2. RunTypeOK
    BY <1>1, ResearchConfiguration DEF RunInit, RunTypeOK, ResearchConfiguration
  <1>3. \A i \in Inputs : run[i] = NoRun /\ dir[i] = NoDirectory /\ SignalsOf(i) = {}
    BY DEF RunInit, SignalsOf
  <1>4. \A o \in Operators : op[o] = Idle
    BY DEF RunInit
  <1>5. \A i \in Inputs : RowOK(i) /\ OutcomeOK(i)
    BY <1>1, <1>3 DEF RowOK, OutcomeOK
  <1>6. \A o \in Operators : CommandOK(op[o]) /\ ~Preparing(op[o])
    BY <1>1, <1>4 DEF CommandOK, Preparing
  <1> QED BY <1>2, <1>5, <1>6 DEF RunInv

\* A command that moves while rows, files and signals stand.
LEMMA CommandMoves ==
    ASSUME RunInv, NEW o \in Operators, NEW c \in Command, op' = [op EXCEPT ![o] = c],
           CommandOK(c), ~Preparing(c), UNCHANGED <<day, run, dir, issued, shadows, filed>>
    PROVE  RunInv'
  <1>1. op' \in [Operators -> Command] /\ op'[o] = c /\ \A p \in Operators \ {o} : op'[p] = op[p]
    BY RunFacts
  <1>2. RunTypeOK'
    BY <1>1 DEF RunInv, RunTypeOK
  <1>3. \A p \in Operators : CommandOK(op[p])'
    BY <1>1 DEF RunInv, CommandOK, BeforeDeadline
  <1>4. \A i \in Inputs : RowOK(i)' /\ OutcomeOK(i)'
    BY DEF RunInv, RowOK, OutcomeOK, SignalsOf
  <1>5. \A p, q \in Operators :
            Preparing(op'[p]) /\ Preparing(op'[q]) /\ op'[p].input = op'[q].input => p = q
    BY <1>1 DEF RunInv, Preparing
  <1> QED BY <1>2, <1>3, <1>4, <1>5 DEF RunInv, Preparing

LEMMA StandsDown ==
    ASSUME RunInv, NEW o \in Operators, op' = [op EXCEPT ![o] = Idle],
           UNCHANGED <<day, run, dir, issued, shadows, filed>>
    PROVE  RunInv'
  <1>1. Idle \in Command /\ CommandOK(Idle) /\ ~Preparing(Idle)
    BY RunFacts DEF CommandOK, Preparing
  <1> QED BY <1>1, CommandMoves

\* A step of command o that writes the row, the files or the signals of run i.
LEMMA RowStepKeeps ==
    ASSUME RunInv, NEW o \in Operators, NEW c \in Command, op' = [op EXCEPT ![o] = c],
           NEW i \in Inputs, NEW x \in Run, NEW y \in Directory,
           run' = [run EXCEPT ![i] = x], dir' = [dir EXCEPT ![i] = y],
           issued' \subseteq Issued, \A s \in Issued : s.run # i => (s \in issued' <=> s \in issued),
           UNCHANGED <<day, shadows, filed>>,
           CommandOK(op[o])', Preparing(c) => \A p \in Operators \ {o} : ~(Preparing(op[p]) /\ op[p].input = c.input),
           \A p \in Operators \ {o} : op[p].input = i => CommandOK(op[p])',
           RowOK(i)', OutcomeOK(i)'
    PROVE  RunInv'
  <1>1. op' \in [Operators -> Command] /\ op'[o] = c /\ \A p \in Operators \ {o} : op'[p] = op[p]
    BY RunFacts
  <1>2. /\ run' \in [Inputs -> Run] /\ \A j \in Inputs \ {i} : run'[j] = run[j]
        /\ dir' \in [Inputs -> Directory] /\ \A j \in Inputs \ {i} : dir'[j] = dir[j]
    BY RunFacts
  <1>3. RunTypeOK'
    BY <1>1, <1>2 DEF RunInv, RunTypeOK
  <1>4. ASSUME NEW p \in Operators \ {o} PROVE CommandOK(op[p])'
    <2>1. CASE op[p].input = i
      BY <2>1
    <2>2. CASE op[p].input # i
      <3>1. CommandOK(op[p]) /\ op'[p] = op[p]
        BY <1>1, RunFacts
      <3>2. op[p].step # "idle" => /\ run'[op[p].input] = run[op[p].input]
                                   /\ dir'[op[p].input] = dir[op[p].input]
        BY <1>2, <2>2, <3>1 DEF CommandOK
      <3> QED BY <3>1, <3>2 DEF CommandOK, BeforeDeadline
    <2> QED BY <2>1, <2>2
  <1>5. ASSUME NEW j \in Inputs \ {i} PROVE RowOK(j)' /\ OutcomeOK(j)'
    <2>1. SignalsOf(j)' = SignalsOf(j)
      BY DEF SignalsOf, RunInv, RunTypeOK
    <2> QED BY <1>2, <2>1, RunFacts DEF RowOK, OutcomeOK
  <1>6. \A p, q \in Operators :
            Preparing(op'[p]) /\ Preparing(op'[q]) /\ op'[p].input = op'[q].input => p = q
    BY <1>1 DEF RunInv
  <1> QED BY <1>1, <1>3, <1>4, <1>5, <1>6 DEF RunInv, Preparing

LEMMA StepEdit ==
    ASSUME NEW c \in Command, NEW step \in Steps
    PROVE  /\ [c EXCEPT !.step = step] \in Command
           /\ [c EXCEPT !.step = step].step = step
           /\ [c EXCEPT !.step = step].input = c.input
           /\ [c EXCEPT !.step = step].draft = c.draft
           /\ [c EXCEPT !.step = step].assigned = c.assigned
  BY DEF Command

LEMMA ReadStepsKeep ==
    ASSUME RunInv, NEW o \in Operators,
           \/ PrepareAssign(o) \/ FinalizeOpen(o) \/ RejectOpen(o) \/ Kill(o)
           \/ \E i \in Inputs : PrepareScan(o, i) \/ FinalizeRead(o, i)
    PROVE  RunInv'
  <1> USE DEF external
  <1>1. UNCHANGED <<day, run, dir, issued, shadows, filed>>
    BY DEF PrepareAssign, FinalizeOpen, RejectOpen, Kill, PrepareScan, FinalizeRead
  <1>2. CASE op' = [op EXCEPT ![o] = Idle]
    BY <1>1, <1>2, StandsDown
  <1>3. ASSUME NEW i \in Inputs, PrepareScan(o, i) PROVE RunInv'
    <2> DEFINE c == [Idle EXCEPT !.step = "assign", !.input = i]
    <2>1. c \in Command /\ c.step = "assign" /\ c.input = i /\ op' = [op EXCEPT ![o] = c]
      BY <1>3, RunFacts DEF PrepareScan, Command, Steps, Idle
    <2> HIDE DEF c
    <2>2. CommandOK(c) /\ ~Preparing(c)
      BY <2>1 DEF CommandOK, Preparing
    <2> QED BY <1>1, <2>1, <2>2, CommandMoves
  <1>4. ASSUME NEW i \in Inputs, FinalizeRead(o, i) PROVE RunInv'
    <2> DEFINE d == dir[i].drafts
               step == IF d \in NotReady THEN "reject" ELSE "open"
               c == [Idle EXCEPT !.input = i, !.draft = d, !.step = step]
    <2>1. d \in Drafts /\ step \in {"reject", "open"}
      BY <1>4 DEF FinalizeRead, ValidBundle
    <2>2. op' = [op EXCEPT ![o] = c]
      BY <1>4 DEF FinalizeRead
    <2> HIDE DEF step, d
    <2>3. c \in Command /\ c.step = step /\ c.input = i /\ c.draft = d
      BY <2>1, RunFacts DEF Command, Steps, Idle
    <2> HIDE DEF c
    <2>4. CommandOK(c) /\ ~Preparing(c)
      BY <2>1, <2>3 DEF CommandOK, Preparing
    <2> QED BY <1>1, <2>2, <2>3, <2>4, CommandMoves
  <1>5. ASSUME PrepareAssign(o) PROVE RunInv'
    <2>1. CASE ~Ready(op[o].input)
      BY <1>2, <1>5, <2>1 DEF PrepareAssign
    <2>2. CASE Ready(op[o].input)
      <3> DEFINE a == BuildAssignments(op[o].input)
                 c == [op[o] EXCEPT !.step = "insert", !.assigned = a]
      <3>1. a \subseteq Tracks /\ op[o].step = "assign" /\ op[o].input \in Inputs
        BY <1>5, RunFacts DEF BuildAssignments, PrepareAssign, CommandOK
      <3>2. op' = [op EXCEPT ![o] = c]
        BY <1>5, <2>2 DEF PrepareAssign
      <3> HIDE DEF a
      <3>3. c \in Command /\ c.step = "insert" /\ c.input = op[o].input
        BY <3>1, RunFacts DEF Command, Steps
      <3> HIDE DEF c
      <3>4. CommandOK(c) /\ ~Preparing(c)
        BY <3>1, <3>3 DEF CommandOK, Preparing
      <3> QED BY <1>1, <3>2, <3>3, <3>4, CommandMoves
    <2> QED BY <2>1, <2>2
  <1>6. ASSUME NEW step \in {"recover", "commit", "rejectReceipt", "rejectCommit"},
               op' = [op EXCEPT ![o] = [op[o] EXCEPT !.step = step]],
               op[o].step \in {"open", "reject"},
               step = "recover" => run[op[o].input].status = "completed",
               step = "commit" => run[op[o].input].sealed /\ BeforeDeadline(op[o].input),
               step = "rejectCommit" => run[op[o].input].sealed,
               step = "rejectReceipt" => run[op[o].input].status = "failed" /\ run[op[o].input].receipt = op[o].draft
        PROVE  RunInv'
    <2> DEFINE c == [op[o] EXCEPT !.step = step]
    <2>1. c \in Command /\ c.step = step /\ c.input = op[o].input /\ c.draft = op[o].draft
      BY RunFacts DEF Command, Steps
    <2>2. op[o].input \in Inputs /\ op[o].draft \in Drafts
      BY <1>6, RunFacts DEF CommandOK
    <2> HIDE DEF c
    <2>3. CommandOK(c) /\ ~Preparing(c)
      BY <1>6, <2>1, <2>2 DEF CommandOK, Preparing
    <2>4. op' = [op EXCEPT ![o] = c]
      BY <1>6 DEF c
    <2> QED BY <1>1, <2>1, <2>3, <2>4, CommandMoves
  <1>7. ASSUME FinalizeOpen(o) PROVE RunInv'
    <2> DEFINE i == op[o].input
    <2>1. CASE run[i].status = "completed"
      <3>1. op' = [op EXCEPT ![o] = [op[o] EXCEPT !.step = "recover"]] /\ op[o].step = "open"
        BY <1>7, <2>1 DEF FinalizeOpen, RowWritable
      <3> QED BY <1>6, <2>1, <3>1
    <2>2. CASE RowWritable(i) /\ run[i].sealed /\ BeforeDeadline(i)
      <3>1. op' = [op EXCEPT ![o] = [op[o] EXCEPT !.step = "commit"]] /\ op[o].step = "open"
        BY <1>7, <2>2 DEF FinalizeOpen, RowWritable
      <3> QED BY <1>6, <2>2, <3>1
    <2>3. CASE ~(run[i].status = "completed") /\ ~(RowWritable(i) /\ run[i].sealed /\ BeforeDeadline(i))
      <3>1. op' = [op EXCEPT ![o] = Idle]
        BY <1>7, <2>3 DEF FinalizeOpen
      <3> QED BY <1>2, <3>1
    <2> QED BY <2>1, <2>2, <2>3
  <1>8. ASSUME RejectOpen(o) PROVE RunInv'
    <2> DEFINE i == op[o].input
    <2>1. CASE run[i].sealed /\ run[i].status = "failed" /\ run[i].receipt = op[o].draft
      <3>1. op' = [op EXCEPT ![o] = [op[o] EXCEPT !.step = "rejectReceipt"]] /\ op[o].step = "reject"
        BY <1>8, <2>1 DEF RejectOpen
      <3> QED BY <1>6, <2>1, <3>1
    <2>2. CASE run[i].sealed /\ run[i].status = "awaiting_draft" /\ BeforeDeadline(i)
      <3>1. op' = [op EXCEPT ![o] = [op[o] EXCEPT !.step = "rejectCommit"]] /\ op[o].step = "reject"
        BY <1>8, <2>2 DEF RejectOpen
      <3> QED BY <1>6, <2>2, <3>1
    <2>3. CASE /\ ~(run[i].sealed /\ run[i].status = "failed" /\ run[i].receipt = op[o].draft)
               /\ ~(run[i].sealed /\ run[i].status = "awaiting_draft" /\ BeforeDeadline(i))
      <3>1. op' = [op EXCEPT ![o] = Idle]
        BY <1>8, <2>3 DEF RejectOpen
      <3> QED BY <1>2, <3>1
    <2> QED BY <2>1, <2>2, <2>3
  <1> QED BY <1>2, <1>3, <1>4, <1>5, <1>7, <1>8 DEF Kill

LEMMA PrepareStepsKeep ==
    ASSUME RunInv, NEW o \in Operators, PrepareInsert(o) \/ PrepareWrite(o) \/ PrepareSeal(o)
    PROVE  RunInv'
  <1> USE DEF external
  <1>0. PICK i \in Inputs : i = op[o].input
    BY RunFacts DEF CommandOK, PrepareInsert, PrepareWrite, PrepareSeal
  <1>1. op[o].input = i /\ op[o] \in Command /\ UNCHANGED <<day, issued, shadows, filed>>
    BY <1>0, RunFacts DEF PrepareInsert, PrepareWrite, PrepareSeal
  <1>2. issued' \subseteq Issued /\ \A s \in Issued : s.run # i => (s \in issued' <=> s \in issued)
    BY <1>1 DEF RunInv, RunTypeOK
  <1>3. SignalsOf(i)' = SignalsOf(i)
    BY <1>1 DEF SignalsOf
  <1>4. \A p \in Operators : CommandOK(op[p]) /\ (p # o => op'[p] = op[p])
    BY RunFacts DEF PrepareInsert, PrepareWrite, PrepareSeal
  <1>5. CASE PrepareInsert(o) /\ run[i].status # "absent"
    BY <1>1, <1>5, StandsDown DEF PrepareInsert
  <1>6. CASE PrepareInsert(o) /\ run[i].status = "absent"
    <2> DEFINE c == [op[o] EXCEPT !.step = "write"]
               x == [run[i] EXCEPT !.status = "awaiting_draft"]
    <2>1. op' = [op EXCEPT ![o] = c] /\ run' = [run EXCEPT ![i] = x] /\ dir' = [dir EXCEPT ![i] = dir[i]]
      BY <1>6, <1>1, RunFacts DEF PrepareInsert
    <2>2. /\ x \in Run /\ x.status = "awaiting_draft" /\ x.sealed = run[i].sealed /\ x.receipt = run[i].receipt
          /\ dir[i] \in Directory
      BY <1>1, RunFacts DEF Run
    <2>3. c \in Command /\ c.step = "write" /\ c.input = i
      BY <1>1, StepEdit DEF Steps
    <2> HIDE DEF c, x
    <2>4. /\ run'[i] = x /\ dir'[i] = dir[i] /\ op'[o] = c
          /\ ~run[i].sealed /\ run[i].receipt = Nothing
      BY <1>1, <1>6, <2>1, RunFacts DEF RowOK
    <2>5. CommandOK(op[o])'
      BY <1>1, <2>2, <2>3, <2>4 DEF CommandOK
    <2>6. \A p \in Operators \ {o} : op[p].input = i => ~Preparing(op[p]) /\ CommandOK(op[p])'
      BY <1>4, <1>6, <2>2, <2>4 DEF CommandOK, Preparing
    <2>7. RowOK(i)' /\ OutcomeOK(i)'
      BY <1>1, <1>3, <1>6, <2>2, <2>4, RunFacts DEF RowOK, OutcomeOK
    <2>8. \A p \in Operators \ {o} : ~(Preparing(op[p]) /\ op[p].input = c.input)
      BY <2>3, <2>6
    <2>9. \A p \in Operators \ {o} : op[p].input = i => CommandOK(op[p])'
      BY <2>6
    <2> QED BY <1>1, <1>2, <2>1, <2>2, <2>3, <2>5, <2>7, <2>8, <2>9, RowStepKeeps
  <1>7. CASE PrepareWrite(o)
    <2> DEFINE c == [op[o] EXCEPT !.step = "seal"]
               y == [dir[i] EXCEPT !.request = TRUE, !.assigned = op[o].assigned]
    <2>1. op' = [op EXCEPT ![o] = c] /\ run' = [run EXCEPT ![i] = run[i]] /\ dir' = [dir EXCEPT ![i] = y]
      BY <1>7, <1>1, RunFacts DEF PrepareWrite
    <2>2. y \in Directory /\ y.receipt = dir[i].receipt /\ run[i] \in Run
      <3>1. dir[i] \in Directory /\ op[o].assigned \in SUBSET Tracks /\ run[i] \in Run
        BY RunFacts
      <3> QED BY <3>1 DEF Directory
    <2>3. c \in Command /\ c.step = "seal" /\ c.input = i
      BY <1>1, StepEdit DEF Steps
    <2> HIDE DEF c, y
    <2>4. /\ run'[i] = run[i] /\ dir'[i] = y /\ op'[o] = c
          /\ ~run[i].sealed /\ run[i].status = "awaiting_draft" /\ Preparing(op[o])
      BY <1>1, <1>4, <1>7, <2>1, RunFacts DEF CommandOK, PrepareWrite, Preparing
    <2>5. CommandOK(op[o])'
      BY <1>1, <2>3, <2>4 DEF CommandOK
    <2>6. \A p \in Operators \ {o} : op[p].input = i => ~Preparing(op[p]) /\ CommandOK(op[p])'
      <3>1. ASSUME NEW p \in Operators \ {o}, op[p].input = i PROVE ~Preparing(op[p])
        BY <1>1, <2>4, <3>1 DEF RunInv
      <3> QED BY <1>4, <2>4, <3>1 DEF CommandOK, Preparing
    <2>7. RowOK(i)' /\ OutcomeOK(i)'
      BY <1>1, <1>3, <2>2, <2>4, RunFacts DEF RowOK, OutcomeOK
    <2>8. \A p \in Operators \ {o} : ~(Preparing(op[p]) /\ op[p].input = c.input)
      BY <2>3, <2>6
    <2>9. \A p \in Operators \ {o} : op[p].input = i => CommandOK(op[p])'
      BY <2>6
    <2> QED BY <1>1, <1>2, <2>1, <2>2, <2>3, <2>5, <2>7, <2>8, <2>9, RowStepKeeps
  <1>8. CASE PrepareSeal(o)
    <2> DEFINE x == [run[i] EXCEPT !.sealed = TRUE]
    <2>1. op' = [op EXCEPT ![o] = Idle] /\ run' = [run EXCEPT ![i] = x] /\ dir' = [dir EXCEPT ![i] = dir[i]]
      BY <1>8, <1>1, RunFacts DEF PrepareSeal
    <2>2. /\ x \in Run /\ x.status = run[i].status /\ x.sealed = TRUE /\ x.receipt = run[i].receipt
          /\ dir[i] \in Directory /\ Idle \in Command /\ Idle.step = "idle"
      BY <1>1, RunFacts DEF Run
    <2> HIDE DEF x
    <2>3. /\ run'[i] = x /\ dir'[i] = dir[i] /\ op'[o] = Idle
          /\ run[i].status = "awaiting_draft" /\ Preparing(op[o])
      BY <1>1, <1>8, <2>1, RunFacts DEF PrepareSeal, RowWritable, Preparing
    <2>4. CommandOK(op[o])' /\ ~Preparing(Idle)
      BY <2>2, <2>3 DEF CommandOK, Preparing
    <2>5. \A p \in Operators \ {o} : op[p].input = i => CommandOK(op[p])'
      <3>1. ASSUME NEW p \in Operators \ {o}, op[p].input = i PROVE ~Preparing(op[p])
        BY <1>1, <2>3, <3>1 DEF RunInv
      <3>2. BeforeDeadline(i)' <=> BeforeDeadline(i)
        BY <1>1, <2>3 DEF BeforeDeadline
      <3> QED BY <1>1, <1>4, <2>2, <2>3, <3>1, <3>2 DEF CommandOK, Preparing
    <2>6. RowOK(i)' /\ OutcomeOK(i)'
      BY <1>1, <1>3, <2>2, <2>3, RunFacts DEF RowOK, OutcomeOK
    <2> QED BY <1>1, <1>2, <2>1, <2>2, <2>4, <2>5, <2>6, RowStepKeeps
  <1> QED BY <1>5, <1>6, <1>7, <1>8

\* A bundle seals one signal for each assigned track.
LEMMA SealedIsOnePerTrack ==
    ASSUME RunInv, NEW i \in Inputs, NEW d \in Drafts
    PROVE  /\ Sealed(i, d) \subseteq Issued
           /\ \A s \in Sealed(i, d) : s.run = i /\ s.from = d /\ s.track \in dir[i].assigned
           /\ {s.track : s \in Sealed(i, d)} = dir[i].assigned
           /\ Cardinality(Sealed(i, d)) = Cardinality(dir[i].assigned)
  <1> DEFINE f == [t \in dir[i].assigned |-> SealSignal(i, t, d)]
  <1>1. dir[i].assigned \subseteq Tracks
    BY RunFacts
  <1>2. \A t \in Tracks : /\ SealSignal(i, t, d) \in Issued
                          /\ SealSignal(i, t, d).run = i /\ SealSignal(i, t, d).from = d
                          /\ SealSignal(i, t, d).track = t
    BY DEF SealSignal, Issued, EffectiveLane
  <1>3. /\ Sealed(i, d) \subseteq Issued
        /\ \A s \in Sealed(i, d) : s.run = i /\ s.from = d /\ s.track \in dir[i].assigned
    BY <1>1, <1>2 DEF Sealed
  <1>4. {s.track : s \in Sealed(i, d)} = dir[i].assigned
    BY <1>1, <1>2 DEF Sealed
  <1>5. f \in Bijection(dir[i].assigned, Sealed(i, d))
    <2>1. f \in [dir[i].assigned -> Sealed(i, d)]
      BY DEF Sealed
    <2>2. \A s, t \in dir[i].assigned : f[s] = f[t] => s = t
      BY <1>1, <1>2
    <2>3. \A s \in Sealed(i, d) : \E t \in dir[i].assigned : f[t] = s
      BY DEF Sealed
    <2> QED BY <2>1, <2>2, <2>3 DEF Bijection, Injection, Surjection, IsInjective
  <1>6. IsFiniteSet(dir[i].assigned)
    BY <1>1, ResearchConfiguration, FS_Subset DEF ResearchConfiguration
  <1>7. Cardinality(Sealed(i, d)) = Cardinality(dir[i].assigned)
    BY <1>5, <1>6, FS_Bijection DEF ExistsBijection
  <1> QED BY <1>3, <1>4, <1>7

LEMMA FinalizeCommitKeeps ==
    ASSUME RunInv, NEW o \in Operators, FinalizeCommit(o)
    PROVE  RunInv'
  <1> USE DEF external
  <1>0. PICK i \in Inputs, d \in Drafts : op[o].input = i /\ op[o].draft = d
    BY RunFacts DEF CommandOK, FinalizeCommit
  <1>1. op[o].step = "commit" /\ op[o] \in Command /\ UNCHANGED <<day, dir, shadows, filed>> /\ run[i].sealed
    BY <1>0, RunFacts DEF FinalizeCommit, CommandOK
  <1>2. CASE ~(SignalIdentityFree(i) /\ RowWritable(i))
    BY <1>0, <1>1, <1>2, StandsDown DEF FinalizeCommit
  <1>3. CASE SignalIdentityFree(i) /\ RowWritable(i)
    <2> DEFINE c == [op[o] EXCEPT !.step = "receipt"]
               x == [run[i] EXCEPT !.status = "completed", !.receipt = d]
    <2>1. /\ op' = [op EXCEPT ![o] = c] /\ run' = [run EXCEPT ![i] = x] /\ dir' = [dir EXCEPT ![i] = dir[i]]
          /\ issued' = issued \cup Sealed(i, d)
      BY <1>0, <1>1, <1>3, RunFacts DEF FinalizeCommit
    <2>2. /\ x \in Run /\ x.status = "completed" /\ x.sealed = run[i].sealed /\ x.receipt = d
          /\ dir[i] \in Directory
      BY RunFacts DEF Run
    <2>3. c \in Command /\ c.step = "receipt" /\ c.input = i /\ c.draft = d
      BY <1>0, <1>1, StepEdit DEF Steps
    <2> HIDE DEF c, x
    <2>4. /\ run'[i] = x /\ dir'[i] = dir[i] /\ op'[o] = c
          /\ run[i].status = "awaiting_draft" /\ run[i].receipt = Nothing
      BY <1>3, <2>1, RunFacts DEF RowWritable, RowOK
    <2>5. CommandOK(op[o])' /\ ~Preparing(c)
      BY <2>2, <2>3, <2>4 DEF CommandOK, Preparing
    <2>6. \A p \in Operators \ {o} : op[p].input = i => CommandOK(op[p])'
      <3>1. BeforeDeadline(i)' <=> BeforeDeadline(i)
        BY <1>1, <2>4 DEF BeforeDeadline
      <3>2. \A p \in Operators \ {o} : CommandOK(op[p]) /\ op'[p] = op[p]
        BY <2>1, RunFacts
      <3> QED BY ZenonT(40), <1>1, <2>2, <2>4, <3>1, <3>2 DEF CommandOK
    <2>7. SignalsOf(i) = {} /\ SignalsOf(i)' = Sealed(i, d)
      BY <1>3, <2>1, SealedIsOnePerTrack DEF SignalIdentityFree, SignalsOf
    <2>8. RowOK(i)'
      BY <1>1, <2>2, <2>4 DEF RowOK
    <2>9. dir[i].receipt = Nothing
      BY <2>4, RunFacts DEF OutcomeOK
    <2>10. OutcomeOK(i)'
      BY <2>2, <2>4, <2>7, <2>9, SealedIsOnePerTrack DEF OutcomeOK
    <2>11. issued' \subseteq Issued /\ \A s \in Issued : s.run # i => (s \in issued' <=> s \in issued)
      BY <2>1, SealedIsOnePerTrack DEF RunInv, RunTypeOK
    <2> QED BY <1>1, <2>1, <2>2, <2>3, <2>5, <2>6, <2>8, <2>10, <2>11, RowStepKeeps
  <1> QED BY <1>2, <1>3

LEMMA RejectCommitKeeps ==
    ASSUME RunInv, NEW o \in Operators, RejectCommit(o)
    PROVE  RunInv'
  <1> USE DEF external
  <1>0. PICK i \in Inputs, d \in Drafts : op[o].input = i /\ op[o].draft = d
    BY RunFacts DEF CommandOK, RejectCommit
  <1>1. /\ op[o].step = "rejectCommit" /\ op[o] \in Command /\ UNCHANGED <<day, dir, issued, shadows, filed>>
        /\ run[i].sealed
    BY <1>0, RunFacts DEF RejectCommit, CommandOK
  <1>2. CASE ~RowWritable(i)
    BY <1>0, <1>1, <1>2, StandsDown DEF RejectCommit
  <1>3. CASE RowWritable(i)
    <2> DEFINE c == [op[o] EXCEPT !.step = "rejectReceipt"]
               x == [run[i] EXCEPT !.status = "failed", !.receipt = d]
    <2>1. op' = [op EXCEPT ![o] = c] /\ run' = [run EXCEPT ![i] = x] /\ dir' = [dir EXCEPT ![i] = dir[i]]
      BY <1>0, <1>1, <1>3, RunFacts DEF RejectCommit
    <2>2. /\ x \in Run /\ x.status = "failed" /\ x.sealed = run[i].sealed /\ x.receipt = d
          /\ dir[i] \in Directory
      BY RunFacts DEF Run
    <2>3. c \in Command /\ c.step = "rejectReceipt" /\ c.input = i /\ c.draft = d
      BY <1>0, <1>1, StepEdit DEF Steps
    <2> HIDE DEF c, x
    <2>4. /\ run'[i] = x /\ dir'[i] = dir[i] /\ op'[o] = c
          /\ run[i].status = "awaiting_draft" /\ run[i].receipt = Nothing
      BY <1>3, <2>1, RunFacts DEF RowWritable, RowOK
    <2>5. CommandOK(op[o])' /\ ~Preparing(c)
      BY <2>2, <2>3, <2>4 DEF CommandOK, Preparing
    <2>6. \A p \in Operators \ {o} : op[p].input = i => CommandOK(op[p])'
      <3>1. BeforeDeadline(i)' <=> BeforeDeadline(i)
        BY <1>1, <2>4 DEF BeforeDeadline
      <3>2. \A p \in Operators \ {o} : CommandOK(op[p]) /\ op'[p] = op[p]
        BY <2>1, RunFacts
      <3> QED BY ZenonT(40), <1>1, <2>2, <2>4, <3>1, <3>2 DEF CommandOK
    <2>7. SignalsOf(i)' = SignalsOf(i)
      BY <1>1 DEF SignalsOf
    <2>8. RowOK(i)' /\ OutcomeOK(i)'
      BY <2>2, <2>4, <2>7, RunFacts DEF RowOK, OutcomeOK
    <2>9. issued' \subseteq Issued /\ \A s \in Issued : s.run # i => (s \in issued' <=> s \in issued)
      BY <1>1 DEF RunInv, RunTypeOK
    <2> QED BY <1>1, <2>1, <2>2, <2>3, <2>5, <2>6, <2>8, <2>9, RowStepKeeps
  <1> QED BY <1>2, <1>3

\* A command that writes receipt.json or the review task of run i.
LEMMA FileStepKeeps ==
    ASSUME RunInv, NEW o \in Operators, NEW c \in Command, op' = [op EXCEPT ![o] = c],
           c.step \in {"idle", "task"}, NEW i \in Inputs, c.step = "task" => c.input = i,
           NEW y \in Directory, dir' = [dir EXCEPT ![i] = y], y.assigned = dir[i].assigned,
           y.receipt # Nothing => y.receipt = run[i].receipt,
           UNCHANGED <<day, run, issued, shadows, filed>>
    PROVE  RunInv'
  <1>1. run' = [run EXCEPT ![i] = run[i]] /\ run[i] \in Run /\ dir'[i] = y /\ op'[o] = c
    BY RunFacts
  <1>2. CommandOK(op[o])' /\ ~Preparing(c)
    BY <1>1 DEF CommandOK, Preparing
  <1>3. \A p \in Operators \ {o} : op[p].input = i => CommandOK(op[p])'
    <2>1. BeforeDeadline(i)' <=> BeforeDeadline(i)
      BY <1>1 DEF BeforeDeadline
    <2>2. \A p \in Operators \ {o} : CommandOK(op[p]) /\ op'[p] = op[p]
      BY RunFacts
    <2> QED BY <2>1, <2>2 DEF CommandOK
  <1>4. SignalsOf(i)' = SignalsOf(i)
    BY DEF SignalsOf
  <1>5. RowOK(i)' /\ OutcomeOK(i)'
    BY <1>1, <1>4, RunFacts DEF RowOK, OutcomeOK
  <1>6. issued' \subseteq Issued /\ \A s \in Issued : s.run # i => (s \in issued' <=> s \in issued)
    BY DEF RunInv, RunTypeOK
  <1> QED BY <1>1, <1>2, <1>3, <1>5, <1>6, RowStepKeeps

LEMMA FileStepsKeep ==
    ASSUME RunInv, NEW o \in Operators,
           FinalizeReceipt(o) \/ Recover(o) \/ RejectReceipt(o) \/ PrepareReasoning(o)
    PROVE  RunInv'
  <1> USE DEF external
  <1>0. PICK i \in Inputs : i = op[o].input
    BY RunFacts DEF CommandOK, FinalizeReceipt, Recover, RejectReceipt, PrepareReasoning
  <1>1. op[o].input = i /\ op[o] \in Command /\ UNCHANGED <<day, run, issued, shadows, filed>>
    BY <1>0, RunFacts DEF FinalizeReceipt, Recover, RejectReceipt, PrepareReasoning
  <1> DEFINE task == [op[o] EXCEPT !.step = "task"]
  <1>2. task \in Command /\ task.step = "task" /\ task.input = i
    BY <1>1, StepEdit DEF Steps
  <1>3. ASSUME NEW r \in Drafts \cup {Nothing}, r # Nothing => r = run[i].receipt,
               dir' = [dir EXCEPT ![i].receipt = r],
               op' = [op EXCEPT ![o] = task] \/ op' = [op EXCEPT ![o] = Idle]
        PROVE  RunInv'
    <2> DEFINE y == [dir[i] EXCEPT !.receipt = r]
    <2>1. y \in Directory /\ y.assigned = dir[i].assigned /\ y.receipt = r
      BY RunFacts DEF Directory
    <2>2. dir' = [dir EXCEPT ![i] = y]
      BY <1>3, RunFacts
    <2> HIDE DEF y, task
    <2>3. Idle \in Command /\ Idle.step = "idle"
      BY RunFacts
    <2>4. PICK x \in Command : /\ op' = [op EXCEPT ![o] = x] /\ x.step \in {"idle", "task"}
                              /\ (x.step = "task" => x.input = i)
      BY <1>2, <1>3, <2>3
    <2>5. y.receipt # Nothing => y.receipt = run[i].receipt
      BY <1>3, <2>1
    <2> QED BY <1>1, <2>1, <2>2, <2>4, <2>5, FileStepKeeps
  <1>4. ASSUME FinalizeReceipt(o) PROVE RunInv'
    <2>1. op[o].draft \in Drafts /\ op[o].draft = run[i].receipt
      BY <1>1, <1>4, RunFacts DEF FinalizeReceipt, CommandOK
    <2> QED BY <1>1, <1>3, <1>4, <2>1 DEF FinalizeReceipt
  <1>5. ASSUME Recover(o) PROVE RunInv'
    <2>1. CASE run[i].receipt = op[o].draft /\ dir[i].receipt \in {Nothing, run[i].receipt}
      <3>1. run[i].receipt \in Drafts \cup {Nothing}
        BY RunFacts
      <3> QED BY <1>1, <1>3, <1>5, <2>1, <3>1 DEF Recover
    <2>2. CASE ~(run[i].receipt = op[o].draft /\ dir[i].receipt \in {Nothing, run[i].receipt})
      BY <1>1, <1>5, <2>2, StandsDown DEF Recover
    <2> QED BY <2>1, <2>2
  <1>6. ASSUME RejectReceipt(o) PROVE RunInv'
    <2> DEFINE r == IF dir[i].receipt = Nothing THEN op[o].draft ELSE dir[i].receipt
    <2>1. r \in Drafts \cup {Nothing} /\ (r # Nothing => r = run[i].receipt)
      BY <1>1, <1>6, RunFacts DEF RejectReceipt, CommandOK, OutcomeOK
    <2>2. dir' = [dir EXCEPT ![i].receipt = r] /\ op' = [op EXCEPT ![o] = Idle]
      BY <1>1, <1>6, RunFacts DEF RejectReceipt
    <2> HIDE DEF r
    <2> QED BY <1>3, <2>1, <2>2
  <1>7. ASSUME PrepareReasoning(o) PROVE RunInv'
    <2> DEFINE committee == {s.track : s \in {r \in issued : r.run = i}}
               late == {s.agent : s \in {r \in shadows : r.run = i}}
               v == CASE i \notin Responses -> committee \cup late
                      [] i \in Responses /\ dir[i].reviews = {} -> committee
                      [] OTHER -> dir[i].reviews
               y == [dir[i] EXCEPT !.reviews = v]
    <2>1. committee \subseteq Tracks /\ late \subseteq ShadowAgents
      BY DEF RunInv, RunTypeOK, Issued, Shadow
    <2>2. v \subseteq Tracks \cup ShadowAgents
      <3> HIDE DEF committee, late
      <3>1. dir[i].reviews \subseteq Tracks \cup ShadowAgents
        BY RunFacts
      <3> QED BY <2>1, <3>1
    <2>3. dir' = [dir EXCEPT ![i] = y] /\ op' = [op EXCEPT ![o] = Idle]
      BY <1>1, <1>7, RunFacts DEF PrepareReasoning
    <2> HIDE DEF v
    <2>4. y \in Directory /\ y.assigned = dir[i].assigned /\ y.receipt = dir[i].receipt
      BY <2>2, RunFacts DEF Directory
    <2> HIDE DEF y
    <2>5. Idle \in Command /\ Idle.step = "idle" /\ (y.receipt # Nothing => y.receipt = run[i].receipt)
      BY <2>4, RunFacts DEF OutcomeOK
    <2> QED BY <1>1, <2>3, <2>4, <2>5, FileStepKeeps
  <1> QED BY <1>4, <1>5, <1>6, <1>7

LEMMA WriteDraftsKeeps ==
    ASSUME RunInv, NEW i \in Inputs, NEW d \in Drafts, WriteDrafts(i, d)
    PROVE  RunInv'
  <1> USE DEF external
  <1> DEFINE y == [dir[i] EXCEPT !.drafts = d]
  <1>1. y \in Directory /\ y.assigned = dir[i].assigned /\ y.receipt = dir[i].receipt
    BY RunFacts DEF Directory
  <1>2. dir' = [dir EXCEPT ![i] = y] /\ UNCHANGED <<day, run, issued, op, shadows, filed>>
    BY RunFacts DEF WriteDrafts
  <1> HIDE DEF y
  <1>3. /\ dir' \in [Inputs -> Directory]
        /\ \A j \in Inputs : dir'[j].assigned = dir[j].assigned /\ dir'[j].receipt = dir[j].receipt
    BY <1>1, <1>2, RunFacts
  <1>4. RunTypeOK'
    BY <1>2, <1>3 DEF RunInv, RunTypeOK
  <1>5. \A j \in Inputs : BeforeDeadline(j)' <=> BeforeDeadline(j)
    BY <1>2, <1>3 DEF BeforeDeadline
  <1>6. \A o \in Operators : CommandOK(op[o])'
    BY <1>2, <1>5, RunFacts DEF CommandOK
  <1>7. \A j \in Inputs : RowOK(j)' /\ OutcomeOK(j)'
    BY ZenonT(40), <1>2, <1>3, RunFacts DEF RowOK, OutcomeOK, SignalsOf
  <1> QED BY <1>2, <1>4, <1>6, <1>7 DEF RunInv, Preparing

LEMMA AdmitShadowKeeps ==
    ASSUME RunInv, NEW i \in Inputs, NEW a \in ShadowAgents, NEW onDisk \in BOOLEAN,
           AdmitShadow(i, a, onDisk)
    PROVE  RunInv'
  <1>1. UNCHANGED <<day, run, dir, issued, op>>
    BY DEF AdmitShadow
  <1>2. shadows' \subseteq Shadow /\ filed' \subseteq shadows'
    BY DEF AdmitShadow, PersistShadow, FileReview, RunInv, RunTypeOK, Shadow
  <1>3. RunTypeOK'
    BY <1>1, <1>2 DEF RunInv, RunTypeOK
  <1> QED BY <1>1, <1>3 DEF RunInv, Preparing, CommandOK, BeforeDeadline, RowOK, OutcomeOK, SignalsOf

LEMMA NextDayKeeps == RunInv /\ NextDay => RunInv'
  <1> SUFFICES ASSUME RunInv, NextDay PROVE RunInv'
    OBVIOUS
  <1>1. UNCHANGED <<run, dir, issued, shadows, filed, op>> /\ day' \in 1..LastDay
    BY RunFacts DEF NextDay, external
  <1>2. RunTypeOK'
    BY <1>1 DEF RunInv, RunTypeOK
  <1>3. \A o \in Operators : CommandOK(op[o])'
    BY <1>1 DEF NextDay, CommandOK
  <1> QED BY <1>1, <1>2, <1>3 DEF RunInv, Preparing, RowOK, OutcomeOK, SignalsOf

LEMMA RunStepKeeps ==
    ASSUME RunInv, RunStep \/ UNCHANGED runVars
    PROVE  RunInv'
  <1>1. CASE UNCHANGED runVars
    BY <1>1 DEF runVars, RunInv, RunTypeOK, CommandOK, Preparing, BeforeDeadline, RowOK, OutcomeOK, SignalsOf
  <1>2. ASSUME NEW o \in Operators, CommandStep(o) PROVE RunInv'
    BY <1>2, ReadStepsKeep, PrepareStepsKeep, FinalizeCommitKeeps, RejectCommitKeeps, FileStepsKeep
    DEF CommandStep
  <1>3. ASSUME NEW o \in Operators, NEW i \in Inputs, PrepareScan(o, i) \/ FinalizeRead(o, i)
        PROVE  RunInv'
    BY <1>3, ReadStepsKeep
  <1> QED BY <1>1, <1>2, <1>3, WriteDraftsKeeps, AdmitShadowKeeps, NextDayKeeps DEF RunStep

\* What a step on runs may add: a signal before its target session, a shadow before the
\* target sessions of D1; and days go on.
LEMMA SignalsComeInTime ==
    ASSUME RunInv, RunStep
    PROVE  /\ day' \in Nat /\ day' >= day
           /\ \A s \in issued' \ issued : s.track \in Tracks /\ s.run \in Inputs /\ day < Target(s.run, s.track)
           /\ \A s \in shadows' \ shadows : s.run \in Inputs /\ \A t \in D1 : day < Target(s.run, t)
  <1> USE DEF external
  <1>1. day \in Nat /\ (\A i \in Inputs : Anchor[i] \in Nat) /\ (\A t \in Tracks : Horizon[t] \in Nat)
    BY RunFacts
  <1>2. CASE UNCHANGED <<day, issued, shadows>>
    BY <1>1, <1>2
  <1>3. ASSUME NEW o \in Operators, FinalizeCommit(o)
        PROVE  UNCHANGED <<day, shadows>> /\ \A s \in issued' \ issued : 
                   s.track \in Tracks /\ s.run \in Inputs /\ day < Target(s.run, s.track)
    <2>0. PICK i \in Inputs, d \in Drafts : op[o].input = i /\ op[o].draft = d
      BY <1>3, RunFacts DEF CommandOK, FinalizeCommit
    <2>1. BeforeDeadline(i) /\ dir[i].assigned \subseteq Tracks
      BY <1>3, <2>0, RunFacts DEF CommandOK, FinalizeCommit
    <2>2. issued' \ issued \subseteq Sealed(i, d) /\ UNCHANGED <<day, shadows>>
      BY <1>3, <2>0 DEF FinalizeCommit
    <2>3. \A s \in Sealed(i, d) : s.run = i /\ s.track \in dir[i].assigned
      BY SealedIsOnePerTrack
    <2> QED BY <2>1, <2>2, <2>3 DEF BeforeDeadline
  <1>4. ASSUME NEW i \in Inputs, NEW a \in ShadowAgents, NEW onDisk \in BOOLEAN, AdmitShadow(i, a, onDisk)
        PROVE  UNCHANGED <<day, issued>> /\ \A s \in shadows' \ shadows :
                   s.run \in Inputs /\ \A t \in D1 : day < Target(s.run, t)
    BY <1>4 DEF AdmitShadow, PersistShadow, ShadowInTime, D1
  <1>5. ASSUME NEW o \in Operators, CommandStep(o), ~FinalizeCommit(o)
        PROVE  UNCHANGED <<day, issued, shadows>>
    BY <1>5 DEF CommandStep, PrepareAssign, PrepareInsert, PrepareWrite, PrepareSeal, FinalizeOpen,
       FinalizeReceipt, Recover, PrepareReasoning, RejectOpen, RejectCommit, RejectReceipt, Kill
  <1>6. ASSUME NEW o \in Operators, NEW i \in Inputs, PrepareScan(o, i) \/ FinalizeRead(o, i)
        PROVE  UNCHANGED <<day, issued, shadows>>
    BY <1>6 DEF PrepareScan, FinalizeRead
  <1>7. ASSUME NEW i \in Inputs, NEW d \in Drafts, WriteDrafts(i, d)
        PROVE  UNCHANGED <<day, issued, shadows>>
    BY <1>7 DEF WriteDrafts
  <1>8. CASE NextDay
    BY <1>1, <1>8 DEF NextDay
  <1> QED BY <1>1, <1>2, <1>3, <1>4, <1>5, <1>6, <1>7, <1>8 DEF RunStep

\* No new signal falls into an episode whose outcome may be known.
LEMMA RunStepKeepsLedger ==
    ASSUME RunInv, LedgerInv, RunStep \/ UNCHANGED runVars, UNCHANGED ledgerVars,
           activations' \in Seq(ActivationEvents(Inputs))
    PROVE  LedgerInv'
  <1>1. UNCHANGED <<reviewed, judged, observed, scored, reflected, verdict, gate>>
    BY DEF ledgerVars
  <1>2. LedgerTypeOK'
    BY <1>1 DEF LedgerInv, LedgerTypeOK
  <1>3. CASE UNCHANGED runVars
    <2>1. UNCHANGED <<day, issued, shadows>>
      BY <1>3 DEF runVars
    <2> QED BY <1>1, <1>2, <2>1 DEF LedgerInv, ObservedOK, NoSignalAfterOutcome, Scoreable
  <1>4. CASE RunStep
    <2>1. \A e \in observed : e.anchor \in Nat /\ e.track \in Tracks /\ Horizon[e.track] \in Nat
      BY RunFacts DEF LedgerInv, LedgerTypeOK, Episode
    <2>2. ObservedOK'
      BY <1>1, <1>4, <2>1, RunFacts, SignalsComeInTime DEF LedgerInv, ObservedOK
    <2>3. ASSUME NEW e \in observed PROVE Scoreable(e)' \subseteq Scoreable(e)
      <3>1. day \in Nat /\ day >= e.anchor + Horizon[e.track] /\ e.anchor + Horizon[e.track] \in Nat
        BY <2>1, RunFacts DEF LedgerInv, ObservedOK
      <3>2. ASSUME NEW s \in issued', s.track = e.track, Anchor[s.run] = e.anchor PROVE s \in issued
        BY <1>4, <3>1, <3>2, SignalsComeInTime DEF Target
      <3>3. ASSUME NEW s \in shadows', e.track \in D1, Anchor[s.run] = e.anchor PROVE s \in shadows
        BY <1>4, <3>1, <3>3, SignalsComeInTime DEF Target
      <3> QED BY <3>2, <3>3 DEF Scoreable
    <2>4. NoSignalAfterOutcome'
      BY <1>1, <2>3 DEF LedgerInv, NoSignalAfterOutcome
    <2> QED BY <1>2, <2>2, <2>4 DEF LedgerInv
  <1> QED BY <1>3, <1>4

LEMMA ScoreableAreSignals ==
    ASSUME RunInv, NEW e PROVE Scoreable(e) \subseteq SignalIds
  BY DEF Scoreable, SignalIds, RunInv, RunTypeOK, Issued, Shadow

\* The evidence of an activation is a set of runs.
LEMMA EvidenceIsRuns ==
    ASSUME NEW S, S \subseteq Inputs PROVE FirstByDate(S) \subseteq S /\ Earliest(S) \subseteq S
  <1>1. \A i \in S : (CHOOSE j \in S : Anchor[j] = Anchor[i]) \in S
    OBVIOUS
  <1> QED BY <1>1 DEF FirstByDate, Earliest

LEMMA LedgerStepKeeps ==
    ASSUME RunInv, LedgerInv, LedgerStep
    PROVE  LedgerInv' /\ UNCHANGED runVars
  <1>1. UNCHANGED runVars
    BY DEF LedgerStep, FinalizeReasoning, FinalizeShadowReasoning, ReviewReasoning, Evaluate,
       CreateReflection, ReviewReflection, ActivateRead, ActivateCommit, Retire
  <1>2. UNCHANGED <<day, issued, shadows, dir>>
    BY <1>1 DEF runVars
  <1>3. \A e : Scoreable(e)' = Scoreable(e)
    BY <1>2 DEF Scoreable
  <1>4. ASSUME UNCHANGED <<observed, scored>>, LedgerTypeOK' PROVE LedgerInv'
    BY <1>2, <1>3, <1>4 DEF LedgerInv, ObservedOK, NoSignalAfterOutcome
  <1>5. ASSUME NEW i \in Inputs, FinalizeReasoning(i) PROVE LedgerInv'
    <2>1. dir[i].reviews \subseteq Tracks \cup ShadowAgents
      BY RunFacts
    <2> QED BY <1>4, <1>5, <2>1 DEF FinalizeReasoning, LedgerInv, LedgerTypeOK, SignalIds
  <1>6. ASSUME NEW i \in Inputs, NEW a \in ShadowAgents, FinalizeShadowReasoning(i, a) PROVE LedgerInv'
    BY <1>4, <1>6 DEF FinalizeShadowReasoning, LedgerInv, LedgerTypeOK, SignalIds
  <1>7. ASSUME NEW x, ReviewReasoning(x) PROVE LedgerInv'
    BY <1>4, <1>7 DEF ReviewReasoning, LedgerInv, LedgerTypeOK
  <1>8. ASSUME NEW i \in Inputs, CreateReflection(i) PROVE LedgerInv'
    BY <1>4, <1>8 DEF CreateReflection, LedgerInv, LedgerTypeOK
  <1>9. ASSUME NEW i \in Inputs, NEW v \in Verdicts, ReviewReflection(i, v) PROVE LedgerInv'
    BY <1>4, <1>9 DEF ReviewReflection, LedgerInv, LedgerTypeOK
  <1>10. ASSUME NEW i \in Inputs, NEW t \in Tracks,
                Evaluate([anchor |-> Anchor[i], track |-> t, mode |-> Mode[i]])
         PROVE  LedgerInv'
    <2> DEFINE e == [anchor |-> Anchor[i], track |-> t, mode |-> Mode[i]]
    <2>1. e \in Episode
      BY ResearchConfiguration DEF Episode, ResearchConfiguration
    <2>2. /\ day >= e.anchor + Horizon[e.track] /\ observed' = observed \cup {e}
          /\ scored' = scored \cup Scoreable(e)
          /\ UNCHANGED <<activations, reviewed, judged, reflected, verdict, gate>>
      BY <1>10 DEF Evaluate
    <2> HIDE DEF e
    <2>3. LedgerTypeOK'
      BY <2>1, <2>2, ScoreableAreSignals DEF LedgerInv, LedgerTypeOK
    <2>4. ObservedOK'
      BY <1>2, <2>2 DEF LedgerInv, ObservedOK
    <2>5. NoSignalAfterOutcome'
      BY <1>3, <2>2 DEF LedgerInv, NoSignalAfterOutcome
    <2> QED BY <2>3, <2>4, <2>5 DEF LedgerInv
  <1>11. ASSUME NEW b \in BOOLEAN, ActivateRead(b) PROVE LedgerInv'
    <2>1. Eligible(ScoredRuns) \subseteq Inputs
      BY DEF Eligible, ScoredRuns
    <2>2. Earliest(FirstByDate(Eligible(ScoredRuns))) \subseteq Inputs
      BY <2>1, EvidenceIsRuns
    <2> QED BY <1>4, <1>11, <2>2 DEF ActivateRead, LedgerInv, LedgerTypeOK
  <1>12. ASSUME ActivateCommit PROVE LedgerInv'
    <2>1. [type |-> "activated", evidence |-> gate] \in ActivationEvents(Inputs)
      BY <1>12 DEF ActivateCommit, LedgerInv, LedgerTypeOK, ActivationEvents
    <2>2. activations' \in Seq(ActivationEvents(Inputs))
      BY <1>12, <2>1 DEF ActivateCommit, LedgerInv, LedgerTypeOK
    <2> QED BY <1>4, <1>12, <2>2 DEF ActivateCommit, LedgerInv, LedgerTypeOK
  <1>13. ASSUME Retire PROVE LedgerInv'
    <2>1. [type |-> "retired", evidence |-> {}] \in ActivationEvents(Inputs)
      BY DEF ActivationEvents
    <2>2. activations' \in Seq(ActivationEvents(Inputs))
      BY <1>13, <2>1 DEF Retire, LedgerInv, LedgerTypeOK
    <2> QED BY <1>4, <1>13, <2>2 DEF Retire, ledgerVars, LedgerInv, LedgerTypeOK
  <1> QED BY <1>1, <1>5, <1>6, <1>7, <1>8, <1>9, <1>10, <1>11, <1>12, <1>13 DEF LedgerStep

ProgrammeInv == RunInv /\ LedgerInv

LEMMA LedgerInitHolds == LedgerInit => LedgerInv
  <1> SUFFICES ASSUME LedgerInit PROVE LedgerInv
    OBVIOUS
  <1>1. verdict \in [Inputs -> Verdicts] /\ <<>> \in Seq(ActivationEvents(Inputs))
    BY DEF LedgerInit, Verdicts
  <1> QED BY <1>1 DEF LedgerInit, LedgerInv, LedgerTypeOK, ObservedOK, NoSignalAfterOutcome

LEMMA ProgrammeStepKeeps ==
    ASSUME ProgrammeInv, [ProgrammeStep]_<<runVars, ledgerVars, activations>>
    PROVE  ProgrammeInv'
  <1>1. CASE (RunStep \/ UNCHANGED runVars) /\ UNCHANGED <<ledgerVars, activations>>
    <2>1. activations' \in Seq(ActivationEvents(Inputs))
      BY <1>1 DEF ProgrammeInv, LedgerInv, LedgerTypeOK
    <2> QED BY <1>1, <2>1, RunStepKeeps, RunStepKeepsLedger DEF ProgrammeInv
  <1>2. CASE LedgerStep
    BY <1>2, LedgerStepKeeps, RunStepKeeps DEF ProgrammeInv
  <1> QED BY <1>1, <1>2 DEF ProgrammeStep

\* Whatever commands overlap, crash or are repeated, a run has one outcome in its row, its
\* files and its signals, and no signal enters an episode that is scored
\* (finalize_research_run, _finalize_not_ready_run, _persist_shadow_signal).
THEOREM OutcomesAlwaysStand == ProgrammeSpec => []OutcomesStand
  <1>1. RunInit /\ LedgerInit => ProgrammeInv
    BY RunInitHolds, LedgerInitHolds DEF ProgrammeInv
  <1>2. ProgrammeInv /\ [ProgrammeStep]_<<runVars, ledgerVars, activations>> => ProgrammeInv'
    BY ProgrammeStepKeeps
  <1>3. ProgrammeInv => OutcomesStand
    <2> SUFFICES ASSUME ProgrammeInv PROVE OutcomesStand
      OBVIOUS
    <2>1. OneOutcome
      BY RunFacts DEF ProgrammeInv, OneOutcome, OutcomeOK
    <2> QED BY <2>1 DEF OutcomesStand, ProgrammeInv, LedgerInv
  <1> QED BY <1>1, <1>2, <1>3, PTL DEF ProgrammeSpec

\* Only an absent or an open row is written.
LEMMA TerminalRowStands ==
    ASSUME RunInv, ProgrammeStep, NEW i \in Inputs, run[i].status \in {"completed", "failed"}
    PROVE  run'[i] = run[i]
  <1>1. CASE LedgerStep
    <2>1. UNCHANGED runVars
      BY <1>1 DEF LedgerStep, FinalizeReasoning, FinalizeShadowReasoning, ReviewReasoning, Evaluate,
         CreateReflection, ReviewReflection, ActivateRead, ActivateCommit, Retire
    <2> QED BY <2>1 DEF runVars
  <1>2. CASE run' = run
    BY <1>2
  <1>3. ASSUME NEW o \in Operators, op[o].input # i,
               PrepareInsert(o) \/ PrepareSeal(o) \/ FinalizeCommit(o) \/ RejectCommit(o)
        PROVE  run'[i] = run[i]
    BY <1>3, RunFacts DEF PrepareInsert, PrepareSeal, FinalizeCommit, RejectCommit
  <1>4. ASSUME NEW o \in Operators, op[o].input = i,
               PrepareInsert(o) \/ PrepareSeal(o) \/ FinalizeCommit(o) \/ RejectCommit(o)
        PROVE  run' = run
    BY <1>4 DEF PrepareInsert, PrepareSeal, FinalizeCommit, RejectCommit, RowWritable
  <1>5. ASSUME NEW o \in Operators, CommandStep(o) PROVE run'[i] = run[i]
    BY <1>3, <1>4, <1>5 DEF CommandStep, PrepareAssign, PrepareWrite, FinalizeOpen,
       FinalizeReceipt, Recover, PrepareReasoning, RejectOpen, RejectReceipt, Kill
  <1> QED BY <1>1, <1>2, <1>5 DEF ProgrammeStep, RunStep, PrepareScan, FinalizeRead, WriteDrafts, AdmitShadow, NextDay

\* A run that ended is never changed again, not even by a command that read it open
\* (trg_research_runs_v2_reject_terminal_update).
THEOREM EndedRunsStay == ProgrammeSpec => TerminalIsFinal
  <1>1. RunInit /\ LedgerInit => ProgrammeInv
    BY RunInitHolds, LedgerInitHolds DEF ProgrammeInv
  <1>2. ProgrammeInv /\ [ProgrammeStep]_<<runVars, ledgerVars, activations>> => ProgrammeInv'
    BY ProgrammeStepKeeps
  <1>3. ProgrammeInv /\ [ProgrammeStep]_<<runVars, ledgerVars, activations>> =>
            [\A i \in Inputs : run[i].status \in {"completed", "failed"} => run'[i] = run[i]]_run
    BY TerminalRowStands DEF ProgrammeInv, runVars
  <1> QED BY <1>1, <1>2, <1>3, PTL DEF ProgrammeSpec, TerminalIsFinal

-----------------------------------------------------------------------------
(* The programme and the submission of v1 runs together.                   *)

MCInv == ProgrammeInv /\ SubInv

LEMMA RegimesAreRuns == MyInputs \subseteq Inputs /\ MyDrafts \subseteq Drafts
  BY RegimeInputs DEF MyInputs, MyDrafts, RegimeInputs

LEMMA ResearchStepIsRunStep ==
    ResearchStep => RunStep /\ UNCHANGED <<ledgerVars, activations, subVars>>
  <1> SUFFICES ASSUME ResearchStep PROVE RunStep
    BY DEF ResearchStep
  <1> USE RegimesAreRuns
  <1>1. ASSUME NEW o \in Operators, NEW i \in MyInputs, PrepareScan(o, i) \/ FinalizeRead(o, i) PROVE RunStep
    BY <1>1 DEF RunStep
  <1>2. ASSUME NEW o \in Operators, CommandStep(o) PROVE RunStep
    BY <1>2 DEF RunStep
  <1>3. ASSUME NEW i \in MyInputs, NEW d \in MyDrafts, WriteDrafts(i, d) PROVE RunStep
    BY <1>3 DEF RunStep
  <1>4. ASSUME NEW i \in MyInputs, NEW a \in ShadowAgents, NEW onDisk \in BOOLEAN, AdmitShadow(i, a, onDisk)
        PROVE  RunStep
    BY <1>4 DEF RunStep
  <1>5. NextDay => RunStep
    BY DEF RunStep
  <1> QED BY <1>1, <1>2, <1>3, <1>4, <1>5 DEF ResearchStep, CommandStep

LEMMA MCStepKeeps == MCInv /\ [MCNext]_allVars => MCInv'
  <1> SUFFICES ASSUME MCInv, [MCNext]_allVars PROVE MCInv'
    OBVIOUS
  <1>1. ASSUME [ProgrammeStep]_<<runVars, ledgerVars, activations>>, UNCHANGED subVars PROVE MCInv'
    BY <1>1, ProgrammeStepKeeps, SubmissionStepKeeps DEF MCInv
  <1>2. CASE ResearchStep
    BY <1>1, <1>2, ResearchStepIsRunStep DEF ProgrammeStep
  <1>3. CASE FollowUp
    BY <1>1, <1>3 DEF FollowUp, ProgrammeStep
  <1>4. ASSUME UNCHANGED <<runVars, ledgerVars>>, activations' \in Seq(ActivationEvents(Inputs)) PROVE ProgrammeInv'
    BY <1>4, RunStepKeeps, RunStepKeepsLedger DEF MCInv, ProgrammeInv
  <1>5. CASE ActivationEvent
    <2> DEFINE e == [type |-> IF Activated THEN "retired" ELSE "activated", evidence |-> {}]
    <2>1. e \in ActivationEvents(Inputs)
      BY DEF ActivationEvents
    <2>2. activations' = Append(activations, e) /\ UNCHANGED <<runVars, ledgerVars, subVars>>
      BY <1>5 DEF ActivationEvent
    <2> HIDE DEF e
    <2>3. activations' \in Seq(ActivationEvents(Inputs))
      BY <2>1, <2>2 DEF MCInv, ProgrammeInv, LedgerInv, LedgerTypeOK
    <2> QED BY <1>4, <2>2, <2>3, SubmissionStepKeeps DEF MCInv
  <1>6. CASE Submission
    <2>1. activations' = activations /\ UNCHANGED <<runVars, ledgerVars>> /\ SubmissionStep
      BY <1>6 DEF Submission, SubmissionStep, Submit, FilePrepare, Lookup, FindActive, Prepare, EnqueueRead,
         EnqueueCommit, EnqueueRaises, FailUnqueued, WaitForTask, FileInsert, EndRun
    <2>2. activations' \in Seq(ActivationEvents(Inputs))
      BY <2>1 DEF MCInv, ProgrammeInv, LedgerInv, LedgerTypeOK
    <2> QED BY <1>4, <2>1, <2>2, SubmissionStepKeeps DEF MCInv
  <1>7. CASE UNCHANGED allVars
    BY <1>1, <1>7 DEF allVars
  <1> QED BY <1>2, <1>3, <1>5, <1>6, <1>7 DEF MCNext

\* Every regime of the programme keeps the types of rows, files, signals, ledgers and
\* requests (research_v2.py, research_v2_shadow.py, create_run).
THEOREM TypeCorrect == MCSpec => []TypeOK
  <1>1. MCInit => MCInv
    BY RunInitHolds, LedgerInitHolds, SubmissionInitHolds DEF MCInit, MCInv, ProgrammeInv
  <1>2. MCInv => TypeOK
    BY DEF MCInv, ProgrammeInv, RunInv, LedgerInv, SubInv, TypeOK
  <1> QED BY <1>1, <1>2, MCStepKeeps, PTL DEF MCSpec

-----------------------------------------------------------------------------
(* Activations that are earned and windows that do not overlap.            *)

\* Runs in the order of their dates.
Before(S, i) == {j \in S : Anchor[j] < Anchor[i]}

\* A later run has more runs before it.
LEMMA LaterHasMoreBefore ==
    ASSUME NEW S, S \subseteq Inputs, IsFiniteSet(S), NEW i \in S, NEW j \in S, Anchor[i] < Anchor[j]
    PROVE  /\ Cardinality(Before(S, i)) \in Nat /\ Cardinality(Before(S, j)) \in Nat
           /\ Cardinality(Before(S, i)) < Cardinality(Before(S, j))
  <1>1. Anchor[i] \in Nat /\ Anchor[j] \in Nat /\ \A x \in S : Anchor[x] \in Nat
    BY ResearchConfiguration DEF ResearchConfiguration
  <1>2. i \notin Before(S, i) /\ Before(S, i) \cup {i} \in SUBSET Before(S, j)
    BY <1>1 DEF Before
  <1>3. IsFiniteSet(Before(S, i)) /\ IsFiniteSet(Before(S, j))
    BY FS_Subset DEF Before
  <1>4. Cardinality(Before(S, i)) \in Nat /\ Cardinality(Before(S, j)) \in Nat
    BY <1>3, FS_CardinalityType
  <1>5. Cardinality(Before(S, i) \cup {i}) = Cardinality(Before(S, i)) + 1
    BY <1>2, <1>3, FS_AddElement
  <1>6. Cardinality(Before(S, i) \cup {i}) <= Cardinality(Before(S, j))
    BY <1>2, <1>3, FS_Subset
  <1> QED BY <1>4, <1>5, <1>6

\* Runs of distinct dates up to n, counted by their dates.
LEMMA RunsInOrder ==
    ASSUME NEW S, S \subseteq Inputs, NEW n \in Nat, \A i \in S : Anchor[i] <= n,
           \A i, j \in S : Anchor[i] = Anchor[j] => i = j
    PROVE  /\ IsFiniteSet(S) /\ Cardinality(S) \in Nat
           /\ [i \in S |-> Cardinality(Before(S, i))] \in Bijection(S, 0 .. (Cardinality(S) - 1))
  <1> DEFINE rank == [i \in S |-> Cardinality(Before(S, i))]
             date == [i \in S |-> Anchor[i]]
  <1>1. \A i \in S : Anchor[i] \in Nat /\ Anchor[i] \in 0 .. n
    BY ResearchConfiguration DEF ResearchConfiguration
  <1>2. date \in Injection(S, 0 .. n)
    BY <1>1 DEF Injection, IsInjective
  <1>3. IsFiniteSet(0 .. n)
    BY FS_Interval
  <1>4. IsFiniteSet(S)
    BY <1>2, <1>3, FS_Injection
  <1> HIDE DEF date
  <1>5. Cardinality(S) \in Nat
    BY <1>4, FS_CardinalityType
  <1>6. \A i \in S : IsFiniteSet(Before(S, i)) /\ Cardinality(Before(S, i)) \in Nat
    BY <1>4, FS_Subset, FS_CardinalityType DEF Before
  <1>7. ASSUME NEW i \in S, NEW j \in S, Anchor[i] < Anchor[j]
        PROVE  Cardinality(Before(S, i)) < Cardinality(Before(S, j))
    BY <1>4, <1>7, LaterHasMoreBefore
  <1>8. ASSUME NEW i \in S PROVE Cardinality(Before(S, i)) \in 0 .. (Cardinality(S) - 1)
    <2>1. Before(S, i) \in SUBSET (S \ {i})
      BY <1>1 DEF Before
    <2>2. IsFiniteSet(S \ {i}) /\ Cardinality(S \ {i}) = Cardinality(S) - 1
      BY <1>4, FS_RemoveElement
    <2>3. Cardinality(Before(S, i)) <= Cardinality(S \ {i})
      BY <2>1, <2>2, FS_Subset
    <2> QED BY <1>5, <1>6, <2>2, <2>3
  <1>9. rank \in Injection(S, 0 .. (Cardinality(S) - 1))
    <2>1. \A i, j \in S : rank[i] = rank[j] => i = j
      BY <1>1, <1>6, <1>7
    <2> QED BY <1>8, <2>1 DEF Injection, IsInjective
  <1>10. IsFiniteSet(0 .. (Cardinality(S) - 1)) /\ Cardinality(0 .. (Cardinality(S) - 1)) = Cardinality(S)
    <2>1. PICK m : m = Cardinality(S) - 1
      OBVIOUS
    <2>2. m \in Int /\ 0 \in Int /\ (0 > m => Cardinality(S) = 0) /\ m - 0 + 1 = Cardinality(S)
      BY <1>5, <2>1
    <2>3. IsFiniteSet(0 .. m) /\ Cardinality(0 .. m) = IF 0 > m THEN 0 ELSE m - 0 + 1
      BY <2>2, FS_Interval, Zenon
    <2> QED BY <2>1, <2>2, <2>3
  <1> HIDE DEF rank
  <1>11. rank \in Surjection(S, 0 .. (Cardinality(S) - 1))
    BY <1>9, <1>10, FS_Injection
  <1>12. rank \in Bijection(S, 0 .. (Cardinality(S) - 1))
    BY <1>9, <1>11 DEF Bijection
  <1> QED BY <1>4, <1>5, <1>12 DEF rank

\* One of them is the latest.
LEMMA LatestExists ==
    ASSUME NEW S, S \subseteq Inputs, S # {}, NEW n \in Nat, \A i \in S : Anchor[i] <= n,
           \A i, j \in S : Anchor[i] = Anchor[j] => i = j
    PROVE  \E i \in S : \A j \in S : Anchor[j] <= Anchor[i]
  <1> DEFINE rank == [i \in S |-> Cardinality(Before(S, i))]
             k == Cardinality(S)
  <1>1. IsFiniteSet(S) /\ k \in Nat /\ rank \in Bijection(S, 0 .. (k - 1))
    BY RunsInOrder
  <1>2. k # 0
    BY <1>1, FS_EmptySet
  <1>3. PICK i \in S : rank[i] = k - 1
    <2> HIDE DEF rank, k
    <2>1. k - 1 \in 0 .. (k - 1)
      BY <1>1, <1>2
    <2> QED BY <1>1, <2>1 DEF Bijection, Surjection
  <1>4. ASSUME NEW j \in S, Anchor[i] < Anchor[j] PROVE FALSE
    <2>1. /\ Cardinality(Before(S, i)) \in Nat /\ Cardinality(Before(S, j)) \in Nat
          /\ Cardinality(Before(S, i)) < Cardinality(Before(S, j))
      BY <1>1, <1>4, LaterHasMoreBefore
    <2>2. rank[j] \in 0 .. (k - 1)
      <3> HIDE DEF rank, k
      <3> QED BY <1>1 DEF Bijection, Injection
    <2> QED BY <1>1, <1>3, <2>1, <2>2
  <1> QED BY <1>3, <1>4, ResearchConfiguration DEF ResearchConfiguration

\* The evidence of an activation: exactly as many as it asks for.
LEMMA EarliestCount ==
    ASSUME NEW S, S \subseteq Inputs, NEW n \in Nat, \A i \in S : Anchor[i] <= n,
           \A i, j \in S : Anchor[i] = Anchor[j] => i = j, Cardinality(S) >= RequiredDates
    PROVE  Cardinality(Earliest(S)) = RequiredApprovals
  <1> DEFINE rank == [i \in S |-> Cardinality(Before(S, i))]
             k == Cardinality(S)
             K == RequiredApprovals
             first == [i \in Earliest(S) |-> rank[i]]
  <1>1. IsFiniteSet(S) /\ k \in Nat /\ rank \in Bijection(S, 0 .. (k - 1))
    BY RunsInOrder
  <1>2. K \in Nat /\ K <= k /\ K > 0
    BY <1>1, ActivationPolicy DEF ActivationPolicy
  <1>3. Earliest(S) = {i \in S : rank[i] < K}
    BY DEF Earliest, Before
  <1> HIDE DEF rank, k, K
  <1>4. \A i \in S : rank[i] \in 0 .. (k - 1)
    BY <1>1 DEF Bijection, Injection
  <1>5. first \in Bijection(Earliest(S), 0 .. (K - 1))
    <2>1. first \in [Earliest(S) -> 0 .. (K - 1)]
      BY <1>1, <1>2, <1>3, <1>4
    <2>2. \A i, j \in Earliest(S) : first[i] = first[j] => i = j
      BY <1>1, <1>3 DEF Bijection, Injection, IsInjective
    <2>3. ASSUME NEW m \in 0 .. (K - 1) PROVE \E i \in Earliest(S) : first[i] = m
      <3>1. m \in 0 .. (k - 1) /\ m < K
        BY <1>1, <1>2
      <3>2. PICK i \in S : rank[i] = m
        BY <1>1, <3>1 DEF Bijection, Surjection
      <3> QED BY <1>3, <3>1, <3>2
    <2> QED BY <2>1, <2>2, <2>3 DEF Bijection, Injection, Surjection, IsInjective
  <1>6. IsFiniteSet(0 .. (K - 1)) /\ Cardinality(0 .. (K - 1)) = K
    BY <1>2, FS_Interval
  <1>7. IsFiniteSet(Earliest(S))
    BY <1>1, <1>3, FS_Subset
  <1> HIDE DEF first
  <1>8. Cardinality(0 .. (K - 1)) = Cardinality(Earliest(S))
    BY <1>5, <1>7, FS_Bijection DEF ExistsBijection
  <1> QED BY <1>6, <1>8 DEF K

\* The forecasts an activation cites.
CitedOK(E) ==
    /\ Cardinality(E) = RequiredApprovals
    /\ \A i \in E : i \in ScoredRuns /\ Mode[i] = "live" /\ verdict[i] = "approved"

\* What an activation has read stays true until it commits.
EarnedInv ==
    /\ FormalIsEarned
    /\ gate # Nothing => CitedOK(gate)
    /\ \A x \in scored : Anchor[x[1]] <= day

LEMMA OneRunPerDate ==
    ASSUME NEW S, S \subseteq Inputs
    PROVE  \A i, j \in FirstByDate(S) : Anchor[i] = Anchor[j] => i = j
  <1> SUFFICES ASSUME NEW i \in FirstByDate(S), NEW j \in FirstByDate(S), Anchor[i] = Anchor[j]
               PROVE  i = j
    OBVIOUS
  <1>1. PICK a \in {Anchor[x] : x \in S} : i = CHOOSE x \in S : Anchor[x] = a
    BY DEF FirstByDate
  <1>2. PICK b \in {Anchor[x] : x \in S} : j = CHOOSE x \in S : Anchor[x] = b
    BY DEF FirstByDate
  <1>3. Anchor[i] = a
    BY <1>1
  <1>4. Anchor[j] = b
    BY <1>2
  <1> QED BY <1>1, <1>2, <1>3, <1>4

\* Scores and approvals stay, so what was cited stays earned.
LEMMA CitedStays ==
    ASSUME NEW E, E \subseteq Inputs, CitedOK(E), scored \subseteq scored',
           \A i \in Inputs : verdict[i] = "approved" => verdict'[i] = "approved"
    PROVE  CitedOK(E)'
  BY DEF CitedOK, ScoredRuns

\* An activation appends an event that is earned; other steps leave the ledger alone.
LEMMA EarnedStays ==
    ASSUME LedgerTypeOK, EarnedInv, NEW S, issued' = issued \cup S,
           \A s \in S : s.lane = "formal" => Mode[s.run] = "live" /\ activations # <<>>,
           scored \subseteq scored',
           \A i \in Inputs : verdict[i] = "approved" => verdict'[i] = "approved",
           activations' = activations
    PROVE  FormalIsEarned'
  <1>1. ASSUME NEW n \in DOMAIN activations, activations[n].type = "activated"
        PROVE  CitedOK(activations[n].evidence)'
    <2>1. CitedOK(activations[n].evidence)
      BY <1>1 DEF EarnedInv, FormalIsEarned, CitedOK
    <2>2. activations[n].evidence \subseteq Inputs
      <3>1. activations[n] \in ActivationEvents(Inputs)
        BY DEF LedgerTypeOK
      <3> QED BY <3>1 DEF ActivationEvents
    <2> QED BY <2>1, <2>2, CitedStays
  <1> QED BY <1>1 DEF EarnedInv, FormalIsEarned, CitedOK

LEMMA AppendEarned ==
    ASSUME LedgerTypeOK, EarnedInv, NEW e \in ActivationEvents(Inputs), activations' = Append(activations, e),
           UNCHANGED <<issued, scored, verdict>>, e.type = "activated" => CitedOK(e.evidence)
    PROVE  FormalIsEarned'
  <1>1. /\ activations \in Seq(ActivationEvents(Inputs)) /\ Len(activations) \in Nat
        /\ DOMAIN activations = 1 .. Len(activations)
    BY DEF LedgerTypeOK
  <1>2. /\ DOMAIN activations' = 1 .. (Len(activations) + 1)
        /\ activations'[Len(activations) + 1] = e
        /\ \A n \in DOMAIN activations : activations'[n] = activations[n]
        /\ activations' # <<>>
    BY <1>1
  <1>3. \A n \in DOMAIN activations' : n \in DOMAIN activations \/ n = Len(activations) + 1
    BY <1>1, <1>2
  <1>4. ScoredRuns' = ScoredRuns
    BY DEF ScoredRuns
  <1>5. ASSUME NEW n \in DOMAIN activations', activations'[n].type = "activated"
        PROVE  /\ Cardinality(activations'[n].evidence) = RequiredApprovals
               /\ \A i \in activations'[n].evidence :
                       i \in ScoredRuns' /\ Mode[i] = "live" /\ verdict'[i] = "approved"
    <2>1. CASE n \in DOMAIN activations
      BY <1>2, <1>4, <1>5, <2>1 DEF EarnedInv, FormalIsEarned
    <2>2. CASE n = Len(activations) + 1
      BY <1>2, <1>4, <1>5, <2>2 DEF CitedOK
    <2> QED BY <1>3, <2>1, <2>2
  <1>6. \A s \in issued' : s.lane = "formal" => Mode[s.run] = "live" /\ activations' # <<>>
    BY <1>2 DEF EarnedInv, FormalIsEarned
  <1> QED BY <1>5, <1>6 DEF FormalIsEarned

\* Only a live run of an activated programme seals a formal forecast.
LEMMA FormalIsActivated ==
    ASSUME RunInv, RunStep
    PROVE  \E S : /\ issued' = issued \cup S
                  /\ \A s \in S : s.lane = "formal" => Mode[s.run] = "live" /\ activations # <<>>
  <1> USE DEF external
  <1>1. CASE issued' = issued
    <2>1. issued' = issued \cup {}
      BY <1>1
    <2> QED BY <2>1
  <1>2. ASSUME NEW o \in Operators, FinalizeCommit(o), issued' # issued
        PROVE  \E S : /\ issued' = issued \cup S
                      /\ \A s \in S : s.lane = "formal" => Mode[s.run] = "live" /\ activations # <<>>
    <2>0. PICK i \in Inputs, d \in Drafts : op[o].input = i /\ op[o].draft = d
      BY <1>2, RunFacts DEF CommandOK, FinalizeCommit
    <2>1. issued' = issued \cup Sealed(i, d)
      BY <1>2, <2>0 DEF FinalizeCommit
    <2>2. \A t \in Tracks : LET s == SealSignal(i, t, d) IN
                s.lane = "formal" => Mode[s.run] = "live" /\ activations # <<>>
      BY DEF SealSignal, EffectiveLane, Activated
    <2>3. dir[i].assigned \subseteq Tracks
      BY RunFacts
    <2>4. \A s \in Sealed(i, d) : s.lane = "formal" => Mode[s.run] = "live" /\ activations # <<>>
      BY <2>2, <2>3 DEF Sealed
    <2> QED BY <2>1, <2>4
  <1>3. ASSUME NEW o \in Operators, CommandStep(o), ~FinalizeCommit(o) PROVE issued' = issued
    BY <1>3 DEF CommandStep, PrepareAssign, PrepareInsert, PrepareWrite, PrepareSeal, FinalizeOpen,
       FinalizeReceipt, Recover, PrepareReasoning, RejectOpen, RejectCommit, RejectReceipt, Kill
  <1>4. ASSUME \/ \E o \in Operators, i \in Inputs : PrepareScan(o, i) \/ FinalizeRead(o, i)
               \/ \E i \in Inputs, d \in Drafts : WriteDrafts(i, d)
               \/ \E i \in Inputs, a \in ShadowAgents, onDisk \in BOOLEAN : AdmitShadow(i, a, onDisk)
               \/ NextDay
        PROVE  issued' = issued
    BY <1>4 DEF PrepareScan, FinalizeRead, WriteDrafts, AdmitShadow, NextDay
  <1> QED BY <1>1, <1>2, <1>3, <1>4 DEF RunStep

LEMMA RunStepKeepsEarned ==
    ASSUME RunInv, LedgerInv, EarnedInv, RunStep \/ UNCHANGED runVars, UNCHANGED <<ledgerVars, activations>>
    PROVE  EarnedInv'
  <1>1. UNCHANGED <<scored, verdict, gate, activations>>
    BY DEF ledgerVars
  <1>2. /\ day' \in Nat /\ day' >= day
        /\ \E S : /\ issued' = issued \cup S
                  /\ \A s \in S : s.lane = "formal" => Mode[s.run] = "live" /\ activations # <<>>
    <2>1. CASE RunStep
      BY <2>1, SignalsComeInTime, FormalIsActivated
    <2>2. CASE UNCHANGED runVars
      <3>1. day' = day /\ day \in Nat /\ issued' = issued \cup {}
        BY <2>2, RunFacts DEF runVars
      <3> QED BY <3>1
    <2> QED BY <2>1, <2>2
  <1>3. FormalIsEarned'
    BY <1>1, <1>2, EarnedStays DEF LedgerInv
  <1>4. (gate # Nothing => CitedOK(gate))'
    BY <1>1 DEF EarnedInv, CitedOK, ScoredRuns
  <1>5. \A x \in scored : x[1] \in Inputs /\ Anchor[x[1]] \in Nat
    BY RunFacts DEF LedgerInv, LedgerTypeOK, SignalIds
  <1>6. \A x \in scored' : Anchor[x[1]] <= day'
    BY <1>1, <1>2, <1>5, RunFacts DEF EarnedInv
  <1> QED BY <1>1, <1>3, <1>4, <1>6 DEF EarnedInv

LEMMA LedgerStepKeepsEarned ==
    ASSUME RunInv, LedgerInv, EarnedInv, LedgerStep
    PROVE  EarnedInv'
  <1>1. UNCHANGED <<day, issued>> /\ issued' = issued \cup {} /\ LedgerTypeOK /\ day \in Nat
    BY LedgerStepKeeps, RunFacts DEF runVars, LedgerInv
  <1>2. ASSUME UNCHANGED <<activations, scored, gate>>,
               \A i \in Inputs : verdict[i] = "approved" => verdict'[i] = "approved"
        PROVE  EarnedInv'
    <2>1. FormalIsEarned'
      BY <1>1, <1>2, EarnedStays
    <2>2. (gate # Nothing => CitedOK(gate))'
      <3>1. gate # Nothing => gate \subseteq Inputs
        BY <1>1 DEF LedgerTypeOK
      <3> QED BY <1>2, <3>1, CitedStays DEF EarnedInv
    <2> QED BY <1>1, <1>2, <2>1, <2>2 DEF EarnedInv
  <1>3. ASSUME NEW i \in Inputs, NEW v \in Verdicts, ReviewReflection(i, v) PROVE EarnedInv'
    <2>1. \A j \in Inputs : verdict[j] = "approved" => verdict'[j] = "approved"
      BY <1>1, <1>3 DEF ReviewReflection, LedgerTypeOK
    <2> QED BY <1>2, <1>3, <2>1 DEF ReviewReflection
  <1>4. ASSUME NEW i \in Inputs, NEW t \in Tracks,
               Evaluate([anchor |-> Anchor[i], track |-> t, mode |-> Mode[i]])
        PROVE  EarnedInv'
    <2> DEFINE e == [anchor |-> Anchor[i], track |-> t, mode |-> Mode[i]]
    <2>1. e.anchor \in Nat /\ Horizon[e.track] \in Nat
      BY RunFacts
    <2>2. /\ day >= e.anchor + Horizon[e.track] /\ scored' = scored \cup Scoreable(e)
          /\ UNCHANGED <<activations, verdict, gate>>
      BY <1>4 DEF Evaluate
    <2> HIDE DEF e
    <2>3. FormalIsEarned'
      <3>1. scored \subseteq scored' /\ activations' = activations /\ verdict' = verdict
        BY <2>2
      <3> QED BY <1>1, <3>1, EarnedStays
    <2>4. (gate # Nothing => CitedOK(gate))'
      <3>1. gate # Nothing => gate \subseteq Inputs
        BY <1>1 DEF LedgerTypeOK
      <3> QED BY <2>2, <3>1, CitedStays DEF EarnedInv
    <2>5. \A x \in Scoreable(e) : Anchor[x[1]] = e.anchor
      BY DEF Scoreable
    <2>6. \A x \in scored' : Anchor[x[1]] <= day'
      BY <1>1, <2>1, <2>2, <2>5 DEF EarnedInv
    <2> QED BY <2>3, <2>4, <2>6 DEF EarnedInv
  <1>5. ASSUME NEW b \in BOOLEAN, ActivateRead(b) PROVE EarnedInv'
    <2> DEFINE first == FirstByDate(Eligible(ScoredRuns))
    <2>1. Eligible(ScoredRuns) \subseteq ScoredRuns /\ Eligible(ScoredRuns) \subseteq Inputs
      BY DEF Eligible, ScoredRuns
    <2>2. /\ first \subseteq Eligible(ScoredRuns) /\ Earliest(first) \subseteq first
          /\ \A i, j \in first : Anchor[i] = Anchor[j] => i = j
      BY <2>1, EvidenceIsRuns, OneRunPerDate
    <2>3. /\ Cardinality(first) >= RequiredDates /\ gate' = Earliest(first)
          /\ \A i \in Earliest(first) : verdict[i] = "approved"
          /\ UNCHANGED <<activations, scored, verdict>>
      BY <1>5 DEF ActivateRead
    <2> HIDE DEF first
    <2>4. \A i \in first : Anchor[i] <= day
      BY <2>1, <2>2 DEF ScoredRuns, EarnedInv
    <2>5. Cardinality(Earliest(first)) = RequiredApprovals
      BY <1>1, <2>1, <2>2, <2>3, <2>4, EarliestCount
    <2>6. \A i \in Earliest(first) : i \in ScoredRuns' /\ Mode[i] = "live"
      BY <2>1, <2>2, <2>3 DEF Eligible, ScoredRuns
    <2>7. (gate # Nothing => CitedOK(gate))'
      BY <2>3, <2>5, <2>6 DEF CitedOK
    <2>8. FormalIsEarned'
      BY <1>1, <2>3, EarnedStays
    <2> QED BY <1>1, <2>3, <2>7, <2>8 DEF EarnedInv
  <1>6. ASSUME NEW e \in ActivationEvents(Inputs), activations' = Append(activations, e),
               e.type = "activated" => CitedOK(e.evidence), UNCHANGED <<scored, verdict>>,
               gate' \in {gate, Nothing}
        PROVE  EarnedInv'
    <2>1. FormalIsEarned'
      BY <1>1, <1>6, AppendEarned
    <2>2. (gate # Nothing => CitedOK(gate))'
      BY <1>6 DEF EarnedInv, CitedOK, ScoredRuns
    <2> QED BY <1>1, <1>6, <2>1, <2>2 DEF EarnedInv
  <1>7. ASSUME ActivateCommit PROVE EarnedInv'
    <2> DEFINE e == [type |-> "activated", evidence |-> gate]
    <2>1. e \in ActivationEvents(Inputs) /\ e.evidence = gate
      BY <1>1, <1>7 DEF ActivateCommit, LedgerTypeOK, ActivationEvents
    <2>2. activations' = Append(activations, e) /\ gate # Nothing /\ gate' = Nothing /\ UNCHANGED <<scored, verdict>>
      BY <1>7 DEF ActivateCommit
    <2> HIDE DEF e
    <2> QED BY <1>6, <2>1, <2>2 DEF EarnedInv
  <1>8. ASSUME Retire PROVE EarnedInv'
    <2> DEFINE e == [type |-> "retired", evidence |-> {}]
    <2>1. e \in ActivationEvents(Inputs) /\ e.type = "retired"
      BY DEF ActivationEvents
    <2>2. activations' = Append(activations, e) /\ UNCHANGED <<scored, verdict, gate>>
      BY <1>8 DEF Retire, ledgerVars
    <2> HIDE DEF e
    <2> QED BY <1>6, <2>1, <2>2
  <1>9. ASSUME UNCHANGED <<activations, scored, verdict, gate>> PROVE EarnedInv'
    BY <1>2, <1>9
  <1> QED BY <1>3, <1>4, <1>5, <1>7, <1>8, <1>9 DEF LedgerStep, FinalizeReasoning, FinalizeShadowReasoning,
      ReviewReasoning, CreateReflection

LEMMA EarnedInitHolds == RunInit /\ LedgerInit => EarnedInv
  <1> SUFFICES ASSUME RunInit, LedgerInit PROVE EarnedInv
    OBVIOUS
  <1>1. DOMAIN activations = {} /\ issued = {} /\ scored = {} /\ gate = Nothing
    BY DEF RunInit, LedgerInit
  <1> QED BY <1>1 DEF EarnedInv, FormalIsEarned

\* Whatever commands overlap, crash or are repeated, an activation cites as many forecasts
\* as the policy asks for, each live, scored and approved by a human, and a forecast is
\* formal only in an activated programme (activate_d1_v2, _effective_lane).
THEOREM FormalForecastsAreEarned == ProgrammeSpec => []FormalIsEarned
  <1>1. RunInit /\ LedgerInit => ProgrammeInv /\ EarnedInv
    BY RunInitHolds, LedgerInitHolds, EarnedInitHolds DEF ProgrammeInv
  <1>2. ProgrammeInv /\ EarnedInv /\ [ProgrammeStep]_<<runVars, ledgerVars, activations>>
            => ProgrammeInv' /\ EarnedInv'
    <2> SUFFICES ASSUME ProgrammeInv, EarnedInv, [ProgrammeStep]_<<runVars, ledgerVars, activations>>
                 PROVE  EarnedInv'
      BY ProgrammeStepKeeps
    <2> QED BY RunStepKeepsEarned, LedgerStepKeepsEarned DEF ProgrammeInv, ProgrammeStep
  <1>3. EarnedInv => FormalIsEarned
    BY DEF EarnedInv
  <1> QED BY <1>1, <1>2, <1>3, PTL DEF ProgrammeSpec

\* Run i assigned the tracks T has every D1 target, and begins no earlier than the windows
\* of earlier runs on these tracks end.
Placed(i, T) ==
    /\ D1 \subseteq T
    /\ \A s \in issued : s.track \in T /\ Mode[s.run] = Mode[i] /\ Anchor[s.run] < Anchor[i] =>
            Target(s.run, s.track) <= Anchor[i]

\* A prepare has seen that no run has its date, and has placed its run until it is sealed.
CadenceOK(c) ==
    /\ c.step \in {"assign", "insert"} => Frozen(c.input) = {} /\ Anchor[c.input] <= day
    /\ c.step \in {"insert", "write"} => Placed(c.input, c.assigned)
    /\ c.step = "seal" => Placed(c.input, dir[c.input].assigned)

\* A run is of a session that has begun, and the only one of its date and mode.
SessionOK(i) ==
    /\ run[i].status # "absent" => Anchor[i] <= day /\ Frozen(i) = {i}
    /\ run[i].sealed => Placed(i, dir[i].assigned)

\* What holds while commands take turns.
TurnInv ==
    /\ \A o, p \in Operators : op[o].step # "idle" /\ op[p].step # "idle" => o = p
    /\ \A o \in Operators : CadenceOK(op[o])
    /\ \A i \in Inputs : SessionOK(i)
    /\ \A s, r \in issued : s.run = r.run /\ s.track = r.track => s = r
    /\ NoOverlap

Alone(o) == \A q \in Operators \ {o} : op[q].step = "idle"

LEMMA IdleIsPlaced == ASSUME NEW c, c.step \notin {"assign", "insert", "write", "seal"} PROVE CadenceOK(c)
  BY DEF CadenceOK

\* Rows neither come nor go, and assignments and signals stand.
LEMMA TurnMoves ==
    ASSUME RunInv, TurnInv, NEW o \in Operators, Alone(o), NEW c \in Command, op' = [op EXCEPT ![o] = c],
           \A i \in Inputs : /\ run'[i].status = "absent" <=> run[i].status = "absent"
                             /\ run'[i].sealed = run[i].sealed /\ dir'[i].assigned = dir[i].assigned,
           UNCHANGED <<day, issued>>,
           c.step # "idle" => c.input \in Inputs, CadenceOK(c)
    PROVE  TurnInv'
  <1>1. op'[o] = c /\ \A p \in Operators \ {o} : op'[p] = op[p] /\ op[p].step = "idle"
    BY RunFacts DEF Alone
  <1>2. \A i \in Inputs : Frozen(i)' = Frozen(i)
    BY DEF Frozen
  <1>3. \A i, T : Placed(i, T)' <=> Placed(i, T)
    BY DEF Placed
  <1>4. \A i \in Inputs : SessionOK(i)'
    BY <1>2, <1>3 DEF SessionOK, TurnInv
  <1>5. CadenceOK(op[o])'
    BY <1>1, <1>2, <1>3 DEF CadenceOK
  <1>6. \A p \in Operators \ {o} : CadenceOK(op[p])'
    BY <1>1 DEF CadenceOK
  <1>7. NoOverlap' /\ (\A s, r \in issued : s.run = r.run /\ s.track = r.track => s = r)'
    BY DEF TurnInv, NoOverlap
  <1>8. (\A p, q \in Operators : op[p].step # "idle" /\ op[q].step # "idle" => p = q)'
    BY <1>1
  <1> QED BY <1>4, <1>5, <1>6, <1>7, <1>8 DEF TurnInv

\* The tracks due are free: the latest window of a track decides.
LEMMA DueIsPlaced ==
    ASSUME RunInv, TurnInv, NEW i \in Inputs
    PROVE  Placed(i, BuildAssignments(i))
  <1>1. /\ \A j \in Inputs : Anchor[j] \in Nat
        /\ \A t \in Tracks : Horizon[t] \in Nat
        /\ day \in Nat
    BY RunFacts
  <1>2. D1 \subseteq BuildAssignments(i)
    BY DEF D1, BuildAssignments, DecisionTargetDue, Tracks
  <1>3. \A s \in issued : s.run \in Inputs /\ s.track \in Tracks
    BY DEF RunInv, RunTypeOK, Issued
  <1>4. \A s \in issued : Anchor[s.run] <= day /\ Frozen(s.run) = {s.run}
    BY <1>3, RunFacts DEF TurnInv, SessionOK, OutcomeOK, SignalsOf
  <1>5. ASSUME NEW s \in issued, s.track \in BuildAssignments(i), Mode[s.run] = Mode[i], Anchor[s.run] < Anchor[i]
        PROVE  Target(s.run, s.track) <= Anchor[i]
    <2> DEFINE t == s.track
               mine == {r \in issued : r.track = t /\ Mode[r.run] = Mode[i]}
               Runs == {r.run : r \in mine}
    <2>1. CASE t \in Daily
      BY <1>1, <1>3, <1>5, <2>1 DEF Daily, Target
    <2>2. CASE t \notin Daily
      <3>1. PeriodDue(i, t)
        BY <1>5, <2>2 DEF BuildAssignments, NaturalViewDue, DecisionTargetDue
      <3>2. Runs \subseteq Inputs /\ Runs # {} /\ \A j \in Runs : Anchor[j] <= day
        BY <1>3, <1>4, <1>5
      <3>3. \A j, k \in Runs : Anchor[j] = Anchor[k] => j = k
        <4> SUFFICES ASSUME NEW a \in mine, NEW b \in mine, Anchor[a.run] = Anchor[b.run]
                     PROVE  a.run = b.run
          OBVIOUS
        <4>1. a.run \in Frozen(a.run) /\ Frozen(b.run) = {b.run}
          BY <1>4
        <4>2. a.run \in Frozen(b.run)
          BY <1>3, <4>1 DEF Frozen
        <4> QED BY <4>1, <4>2
      <3>4. PICK j \in Runs : \A k \in Runs : Anchor[k] <= Anchor[j]
        <4> HIDE DEF Runs
        <4> QED BY <1>1, <3>2, <3>3, LatestExists
      <3>5. PICK r \in mine : j = r.run
        BY <3>4
      <3>6. r \in LatestOn(Mode[i], t)
        BY <3>4, <3>5 DEF LatestOn
      <3>7. Target(r.run, t) <= Anchor[i] /\ Anchor[s.run] <= Anchor[r.run]
        BY <1>5, <3>1, <3>4, <3>5, <3>6 DEF PeriodDue
      <3> QED BY <1>1, <1>3, <3>7 DEF Target
    <2> QED BY <2>1, <2>2
  <1> QED BY <1>2, <1>5 DEF Placed

\* Steps of a command that leave rows, assignments and signals as they are.
LEMMA QuietStepsInTurn ==
    ASSUME RunInv, TurnInv, NEW o \in Operators, Alone(o),
           \/ \E i \in Inputs : PrepareScan(o, i) \/ FinalizeRead(o, i)
           \/ PrepareAssign(o) \/ FinalizeOpen(o) \/ FinalizeReceipt(o) \/ Recover(o)
           \/ PrepareReasoning(o) \/ RejectOpen(o) \/ RejectCommit(o) \/ RejectReceipt(o)
    PROVE  TurnInv'
  <1> USE DEF external
  <1>1. UNCHANGED <<day, issued>>
    BY DEF PrepareScan, FinalizeRead, PrepareAssign, FinalizeOpen, FinalizeReceipt, Recover,
       PrepareReasoning, RejectOpen, RejectCommit, RejectReceipt
  <1> DEFINE Kept == \A i \in Inputs : /\ run'[i].status = "absent" <=> run[i].status = "absent"
                                       /\ run'[i].sealed = run[i].sealed
                                       /\ dir'[i].assigned = dir[i].assigned
  <1>2. ASSUME NEW c \in Command, op' = [op EXCEPT ![o] = c], Kept,
               c.step \notin {"assign", "insert", "write", "seal"}, c.step # "idle" => c.input \in Inputs
        PROVE  TurnInv'
    BY <1>1, <1>2, TurnMoves, IdleIsPlaced
  <1>3. ASSUME op' = [op EXCEPT ![o] = Idle], Kept PROVE TurnInv'
    BY <1>2, <1>3, RunFacts
  <1>4. ASSUME NEW step \in Steps \ {"idle", "assign", "insert", "write", "seal"}, op[o].step # "idle",
               op' = [op EXCEPT ![o] = [op[o] EXCEPT !.step = step]], Kept
        PROVE  TurnInv'
    <2>1. PICK c : c = [op[o] EXCEPT !.step = step]
      OBVIOUS
    <2>2. op[o].input \in Inputs /\ op[o] \in Command
      BY <1>4, RunFacts DEF CommandOK
    <2>3. c \in Command /\ c.step = step /\ c.input = op[o].input
      BY <2>1, <2>2, StepEdit
    <2> QED BY <1>2, <1>4, <2>1, <2>2, <2>3
  <1>5. run' = run /\ dir' = dir => Kept
    OBVIOUS
  <1>6. ASSUME run' = run, NEW i \in Inputs, NEW r, dir' = [dir EXCEPT ![i].receipt = r] PROVE Kept
    BY <1>6, RunFacts DEF Directory
  <1>7. ASSUME run' = run, NEW i \in Inputs, NEW r, dir' = [dir EXCEPT ![i].reviews = r] PROVE Kept
    BY <1>7, RunFacts DEF Directory
  <1>8. ASSUME dir' = dir, NEW i \in Inputs, NEW d, run[i].status # "absent",
               run' = [run EXCEPT ![i].status = "failed", ![i].receipt = d]
        PROVE  Kept
    BY <1>8, RunFacts DEF Run
  <1>9. ASSUME NEW i \in Inputs, PrepareScan(o, i) PROVE TurnInv'
    <2>1. PICK c : c = [Idle EXCEPT !.step = "assign", !.input = i]
      OBVIOUS
    <2>2. c \in Command /\ c.step = "assign" /\ c.input = i
      BY <2>1, RunFacts DEF Command, Steps, Idle
    <2>3. CadenceOK(c)
      BY <1>9, <2>2 DEF CadenceOK, PrepareScan
    <2>4. op' = [op EXCEPT ![o] = c] /\ run' = run /\ dir' = dir
      BY <1>9, <2>1 DEF PrepareScan
    <2> QED BY <1>1, <2>2, <2>3, <2>4, TurnMoves
  <1>10. ASSUME NEW i \in Inputs, FinalizeRead(o, i) PROVE TurnInv'
    <2>1. PICK d, step : d = dir[i].drafts /\ step = IF d \in NotReady THEN "reject" ELSE "open"
      OBVIOUS
    <2>2. d \in Drafts /\ step \in {"reject", "open"}
      BY <1>10, <2>1 DEF FinalizeRead, ValidBundle
    <2>3. PICK c : c = [Idle EXCEPT !.input = i, !.draft = d, !.step = step]
      OBVIOUS
    <2>4. c \in Command /\ c.step = step /\ c.input = i
      BY <2>2, <2>3, RunFacts DEF Command, Steps, Idle
    <2>5. op' = [op EXCEPT ![o] = c] /\ run' = run /\ dir' = dir
      BY <1>10, <2>1, <2>3 DEF FinalizeRead
    <2> QED BY <1>2, <1>5, <2>2, <2>4, <2>5
  <1>11. ASSUME PrepareAssign(o) PROVE TurnInv'
    <2>1. PICK i \in Inputs : op[o].input = i /\ op[o].step = "assign"
      BY <1>11, RunFacts DEF PrepareAssign, CommandOK
    <2>2. run' = run /\ dir' = dir
      BY <1>11 DEF PrepareAssign
    <2>3. CASE ~Ready(i)
      BY <1>3, <1>5, <1>11, <2>1, <2>2, <2>3 DEF PrepareAssign
    <2>4. CASE Ready(i)
      <3>1. PICK a, c : a = BuildAssignments(i) /\ c = [op[o] EXCEPT !.step = "insert", !.assigned = a]
        OBVIOUS
      <3>2. a \subseteq Tracks
        BY <3>1 DEF BuildAssignments
      <3>3. c \in Command /\ c.step = "insert" /\ c.input = i /\ c.assigned = a
        BY <2>1, <3>1, <3>2, RunFacts DEF Command, Steps
      <3>4. op' = [op EXCEPT ![o] = c]
        BY <1>11, <2>1, <2>4, <3>1 DEF PrepareAssign
      <3>5. CadenceOK(op[o])
        BY DEF TurnInv
      <3>6. CadenceOK(c)
        BY <2>1, <3>1, <3>3, <3>5, DueIsPlaced DEF CadenceOK
      <3> QED BY <1>1, <2>2, <3>3, <3>4, <3>6, TurnMoves
    <2> QED BY <2>3, <2>4
  <1>12. ASSUME FinalizeOpen(o) PROVE TurnInv'
    <2>1. run' = run /\ dir' = dir /\ op[o].step = "open"
      BY <1>12 DEF FinalizeOpen
    <2>2. \/ op' = [op EXCEPT ![o] = [op[o] EXCEPT !.step = "recover"]]
          \/ op' = [op EXCEPT ![o] = [op[o] EXCEPT !.step = "commit"]]
          \/ op' = [op EXCEPT ![o] = Idle]
      <3> DEFINE i == op[o].input
      <3>1. CASE run[i].status = "completed"
        BY <1>12, <3>1 DEF FinalizeOpen, RowWritable
      <3>2. CASE RowWritable(i) /\ run[i].sealed /\ BeforeDeadline(i)
        BY <1>12, <3>2 DEF FinalizeOpen, RowWritable
      <3>3. CASE run[i].status # "completed" /\ ~(RowWritable(i) /\ run[i].sealed /\ BeforeDeadline(i))
        BY <1>12, <3>3 DEF FinalizeOpen
      <3> QED BY <3>1, <3>2, <3>3
    <2> QED BY <1>3, <1>4, <1>5, <2>1, <2>2 DEF Steps
  <1>13. ASSUME RejectOpen(o) PROVE TurnInv'
    <2>1. run' = run /\ dir' = dir /\ op[o].step = "reject"
      BY <1>13 DEF RejectOpen
    <2>2. \/ op' = [op EXCEPT ![o] = [op[o] EXCEPT !.step = "rejectReceipt"]]
          \/ op' = [op EXCEPT ![o] = [op[o] EXCEPT !.step = "rejectCommit"]]
          \/ op' = [op EXCEPT ![o] = Idle]
      BY <1>13 DEF RejectOpen
    <2> QED BY <1>3, <1>4, <1>5, <2>1, <2>2 DEF Steps
  <1>14. ASSUME FinalizeReceipt(o) \/ Recover(o) \/ RejectReceipt(o) \/ PrepareReasoning(o) PROVE TurnInv'
    <2>1. PICK i \in Inputs : op[o].input = i /\ op[o].step # "idle"
      BY <1>14, RunFacts DEF FinalizeReceipt, Recover, RejectReceipt, PrepareReasoning, CommandOK
    <2>2. run' = run
      BY <1>14 DEF FinalizeReceipt, Recover, RejectReceipt, PrepareReasoning
    <2>3. op' = [op EXCEPT ![o] = [op[o] EXCEPT !.step = "task"]] \/ op' = [op EXCEPT ![o] = Idle]
      BY <1>14 DEF FinalizeReceipt, Recover, RejectReceipt, PrepareReasoning
    <2>4. dir' = dir \/ (\E r : dir' = [dir EXCEPT ![i].receipt = r]) \/ (\E r : dir' = [dir EXCEPT ![i].reviews = r])
      BY <1>14, <2>1 DEF FinalizeReceipt, Recover, RejectReceipt, PrepareReasoning
    <2>5. Kept
      <3> HIDE DEF Kept
      <3> QED BY <1>5, <1>6, <1>7, <2>2, <2>4
    <2> QED BY <1>3, <1>4, <2>1, <2>3, <2>5 DEF Steps
  <1>15. ASSUME RejectCommit(o) PROVE TurnInv'
    <2>1. PICK i \in Inputs : op[o].input = i /\ op[o].step # "idle" /\ dir' = dir
      BY <1>15, RunFacts DEF RejectCommit, CommandOK
    <2>2. CASE RowWritable(i)
      <3>1. run[i].status # "absent" /\ op' = [op EXCEPT ![o] = [op[o] EXCEPT !.step = "rejectReceipt"]]
            /\ \E d : run' = [run EXCEPT ![i].status = "failed", ![i].receipt = d]
        BY <1>15, <2>1, <2>2 DEF RejectCommit, RowWritable
      <3>2. Kept
        BY <1>8, <2>1, <3>1
      <3> QED BY <1>4, <2>1, <3>1, <3>2 DEF Steps
    <2>3. CASE ~RowWritable(i)
      BY <1>3, <1>5, <1>15, <2>1, <2>3 DEF RejectCommit
    <2> QED BY <2>2, <2>3
  <1> QED BY <1>9, <1>10, <1>11, <1>12, <1>13, <1>14, <1>15

LEMMA GoesTo ==
    ASSUME RunInv, NEW o \in Operators, NEW step \in Steps, op' = [op EXCEPT ![o].step = step]
    PROVE  \E c \in Command : /\ op' = [op EXCEPT ![o] = c] /\ c.step = step
                              /\ c.input = op[o].input /\ c.assigned = op[o].assigned
  <1>1. PICK c : c = [op[o] EXCEPT !.step = step]
    OBVIOUS
  <1>2. op[o] \in Command
    BY RunFacts
  <1>3. c \in Command /\ c.step = step /\ c.input = op[o].input /\ c.assigned = op[o].assigned
    BY <1>1, <1>2, StepEdit
  <1>4. op' = [op EXCEPT ![o] = c]
    BY <1>1
  <1> QED BY <1>3, <1>4

LEMMA PrepareInsertInTurn ==
    ASSUME RunInv, TurnInv, NEW o \in Operators, Alone(o), PrepareInsert(o)
    PROVE  TurnInv'
  <1> USE DEF external
  <1>1. PICK i \in Inputs : op[o].input = i /\ op[o].step = "insert"
    BY RunFacts DEF PrepareInsert, CommandOK
  <1>2. Frozen(i) = {} /\ Anchor[i] <= day /\ Placed(i, op[o].assigned)
    BY <1>1 DEF TurnInv, CadenceOK
  <1>3. run[i].status = "absent"
    BY <1>1, <1>2 DEF Frozen
  <1>4. UNCHANGED <<day, dir, issued>> /\ run' = [run EXCEPT ![i].status = "awaiting_draft"]
    BY <1>1, <1>3 DEF PrepareInsert
  <1>5. op' = [op EXCEPT ![o].step = "write"] /\ "write" \in Steps
    BY <1>1, <1>3 DEF PrepareInsert, Steps
  <1>6. PICK c \in Command : /\ op' = [op EXCEPT ![o] = c] /\ c.step = "write"
                             /\ c.input = op[o].input /\ c.assigned = op[o].assigned
    BY <1>5, GoesTo
  <1>7. /\ run'[i].status = "awaiting_draft" /\ run'[i].sealed = run[i].sealed
        /\ \A j \in Inputs \ {i} : run'[j] = run[j]
    BY <1>4, RunFacts DEF Run
  <1>8. op'[o] = c /\ \A p \in Operators \ {o} : op'[p] = op[p] /\ op[p].step = "idle"
    BY <1>6, RunFacts DEF Alone
  <1>9. \A j, T : Placed(j, T)' <=> Placed(j, T)
    BY <1>4 DEF Placed
  <1>10. Frozen(i)' = {i}
    BY <1>2, <1>7 DEF Frozen
  <1>11. ASSUME NEW j \in Inputs \ {i}, run[j].status # "absent" PROVE Frozen(j)' = {j}
    <2>1. Frozen(j) = {j}
      BY <1>11 DEF TurnInv, SessionOK
    <2>2. ~(Mode[j] = Mode[i] /\ Anchor[j] = Anchor[i])
      BY <1>2, <1>11 DEF Frozen
    <2> QED BY <1>7, <2>1, <2>2 DEF Frozen
  <1>12. \A j \in Inputs : SessionOK(j)'
    BY <1>2, <1>4, <1>7, <1>9, <1>10, <1>11 DEF SessionOK, TurnInv
  <1>13. \A p \in Operators : CadenceOK(op[p])'
    BY <1>1, <1>2, <1>6, <1>8, <1>9 DEF CadenceOK
  <1>14. NoOverlap' /\ (\A s, r \in issued : s.run = r.run /\ s.track = r.track => s = r)'
    BY <1>4 DEF TurnInv, NoOverlap
  <1> QED BY <1>8, <1>12, <1>13, <1>14 DEF TurnInv

LEMMA PrepareWriteInTurn ==
    ASSUME RunInv, TurnInv, NEW o \in Operators, Alone(o), PrepareWrite(o)
    PROVE  TurnInv'
  <1> USE DEF external
  <1>1. PICK i \in Inputs : op[o].input = i /\ op[o].step = "write"
    BY RunFacts DEF PrepareWrite, CommandOK
  <1>2. Placed(i, op[o].assigned) /\ ~run[i].sealed /\ op[o].assigned \subseteq Tracks
    BY <1>1, RunFacts DEF TurnInv, CadenceOK, CommandOK
  <1>3. UNCHANGED <<day, run, issued>> /\ dir' = [dir EXCEPT ![i].request = TRUE, ![i].assigned = op[o].assigned]
    BY <1>1 DEF PrepareWrite
  <1>4. op' = [op EXCEPT ![o].step = "seal"] /\ "seal" \in Steps
    BY DEF PrepareWrite, Steps
  <1>5. PICK c \in Command : /\ op' = [op EXCEPT ![o] = c] /\ c.step = "seal"
                             /\ c.input = op[o].input /\ c.assigned = op[o].assigned
    BY <1>4, GoesTo
  <1>6. dir'[i].assigned = op[o].assigned /\ \A j \in Inputs \ {i} : dir'[j] = dir[j]
    BY <1>3, RunFacts DEF Directory
  <1>7. op'[o] = c /\ \A p \in Operators \ {o} : op'[p] = op[p] /\ op[p].step = "idle"
    BY <1>5, RunFacts DEF Alone
  <1>8. \A j, T : Placed(j, T)' <=> Placed(j, T)
    BY <1>3 DEF Placed
  <1>9. \A j \in Inputs : Frozen(j)' = Frozen(j)
    BY <1>3 DEF Frozen
  <1>10. \A j \in Inputs : SessionOK(j)'
    BY <1>2, <1>3, <1>6, <1>8, <1>9 DEF SessionOK, TurnInv
  <1>11. \A p \in Operators : CadenceOK(op[p])'
    BY <1>1, <1>2, <1>5, <1>6, <1>7, <1>8 DEF CadenceOK
  <1>12. NoOverlap' /\ (\A s, r \in issued : s.run = r.run /\ s.track = r.track => s = r)'
    BY <1>3 DEF TurnInv, NoOverlap
  <1> QED BY <1>7, <1>10, <1>11, <1>12 DEF TurnInv

LEMMA PrepareSealInTurn ==
    ASSUME RunInv, TurnInv, NEW o \in Operators, Alone(o), PrepareSeal(o)
    PROVE  TurnInv'
  <1> USE DEF external
  <1>1. PICK i \in Inputs : op[o].input = i /\ op[o].step = "seal"
    BY RunFacts DEF PrepareSeal, CommandOK
  <1>2. Placed(i, dir[i].assigned)
    BY <1>1 DEF TurnInv, CadenceOK
  <1>3. /\ UNCHANGED <<day, dir, issued>> /\ run' = [run EXCEPT ![i].sealed = TRUE]
        /\ op' = [op EXCEPT ![o] = Idle]
    BY <1>1 DEF PrepareSeal
  <1>4. \A j \in Inputs : run'[j].status = run[j].status /\ (j # i => run'[j].sealed = run[j].sealed)
    BY <1>3, RunFacts DEF Run
  <1>5. \A p \in Operators : op'[p].step = "idle"
    BY <1>3, RunFacts DEF Alone
  <1>6. \A j, T : Placed(j, T)' <=> Placed(j, T)
    BY <1>3 DEF Placed
  <1>7. \A j \in Inputs : Frozen(j)' = Frozen(j)
    BY <1>4 DEF Frozen
  <1>8. \A j \in Inputs : SessionOK(j)'
    BY <1>2, <1>3, <1>4, <1>6, <1>7 DEF SessionOK, TurnInv
  <1>9. NoOverlap' /\ (\A s, r \in issued : s.run = r.run /\ s.track = r.track => s = r)'
    BY <1>3 DEF TurnInv, NoOverlap
  <1> QED BY <1>5, <1>8, <1>9 DEF TurnInv, CadenceOK

\* A commit in time is a commit on the anchor session, so its run is the latest of all.
LEMMA CommitIsLatest ==
    ASSUME RunInv, TurnInv, NEW i \in Inputs, run[i].sealed, BeforeDeadline(i)
    PROVE  /\ day <= Anchor[i] /\ Placed(i, dir[i].assigned)
           /\ \A j \in Inputs : run[j].status # "absent" => Anchor[j] <= Anchor[i]
  <1>1. Placed(i, dir[i].assigned)
    BY DEF TurnInv, SessionOK
  <1>2. PICK t \in D1 : t \in dir[i].assigned /\ Horizon[t] = 1
    BY <1>1, ResearchConfiguration DEF D1, Placed, Daily, ResearchConfiguration
  <1>3. day <= Anchor[i]
    BY <1>2, RunFacts DEF BeforeDeadline, Target
  <1> QED BY <1>1, <1>3, RunFacts DEF TurnInv, SessionOK

LEMMA FinalizeCommitInTurn ==
    ASSUME RunInv, TurnInv, NEW o \in Operators, Alone(o), FinalizeCommit(o)
    PROVE  TurnInv'
  <1> USE DEF external
  <1>1. PICK i \in Inputs, d \in Drafts :
            op[o].input = i /\ op[o].draft = d /\ op[o].step = "commit" /\ run[i].sealed /\ BeforeDeadline(i)
    BY RunFacts DEF FinalizeCommit, CommandOK
  <1>2. UNCHANGED <<day, dir>>
    BY DEF FinalizeCommit
  <1>3. CASE ~(SignalIdentityFree(i) /\ RowWritable(i))
    <2>1. op' = [op EXCEPT ![o] = Idle] /\ UNCHANGED <<run, issued>>
      BY <1>1, <1>3 DEF FinalizeCommit
    <2>2. Idle \in Command /\ Idle.step = "idle"
      BY RunFacts
    <2>3. CadenceOK(Idle)
      BY <2>2, IdleIsPlaced
    <2> QED BY <1>2, <2>1, <2>2, <2>3, TurnMoves
  <1>4. CASE SignalIdentityFree(i) /\ RowWritable(i)
    <2>1. /\ issued' = issued \cup Sealed(i, d)
          /\ run' = [run EXCEPT ![i].status = "completed", ![i].receipt = d]
      BY <1>1, <1>4 DEF FinalizeCommit
    <2>2. op' = [op EXCEPT ![o].step = "receipt"] /\ "receipt" \in Steps
      BY <1>1, <1>4 DEF FinalizeCommit, Steps
    <2>3. PICK c \in Command : /\ op' = [op EXCEPT ![o] = c] /\ c.step = "receipt"
                               /\ c.input = op[o].input /\ c.assigned = op[o].assigned
      BY <2>2, GoesTo
    <2>4. op'[o] = c /\ \A p \in Operators \ {o} : op'[p] = op[p] /\ op[p].step = "idle"
      BY <2>3, RunFacts DEF Alone
    <2>5. \A j \in Inputs : /\ run'[j].status = "absent" <=> run[j].status = "absent"
                            /\ run'[j].sealed = run[j].sealed
      BY <1>4, <2>1, RunFacts DEF Run, RowWritable
    <2>6. \A j \in Inputs : Frozen(j)' = Frozen(j)
      BY <2>5 DEF Frozen
    <2>7. \A s \in issued : s.run \in Inputs /\ s.track \in Tracks /\ s.run # i /\ run[s.run].status # "absent"
      BY <1>4, RunFacts DEF SignalIdentityFree, RunInv, RunTypeOK, Issued, OutcomeOK, SignalsOf
    <2>8. \A s \in Sealed(i, d) : s.run = i /\ s.track \in dir[i].assigned /\ s.track \in Tracks
      BY SealedIsOnePerTrack, RunFacts
    <2>9. /\ \A j \in Inputs : Anchor[j] \in Nat
          /\ \A t \in Tracks : Horizon[t] \in Nat
          /\ day \in Nat
      BY RunFacts
    <2>10. /\ day <= Anchor[i] /\ Placed(i, dir[i].assigned)
           /\ \A j \in Inputs : run[j].status # "absent" => Anchor[j] <= Anchor[i]
      BY <1>1, CommitIsLatest
    <2>11. Frozen(i) = {i}
      BY <1>4 DEF RowWritable, TurnInv, SessionOK
    <2>12. \A s \in issued : Mode[s.run] = Mode[i] => Anchor[s.run] < Anchor[i]
      BY <2>7, <2>9, <2>10, <2>11 DEF Frozen
    <2>13. ASSUME NEW j \in Inputs, run[j].status # "absent", NEW T, Placed(j, T) PROVE Placed(j, T)'
      BY <2>1, <2>8, <2>9, <2>10, <2>13 DEF Placed
    <2>14. ASSUME NEW j \in Inputs PROVE SessionOK(j)'
      <3>1. SessionOK(j) /\ (run[j].sealed => run[j].status # "absent")
        BY RunFacts DEF TurnInv, RowOK
      <3> QED BY <1>2, <2>5, <2>6, <2>13, <3>1 DEF SessionOK
    <2>15. \A p \in Operators : CadenceOK(op[p])'
      BY <2>3, <2>4 DEF CadenceOK
    <2>16. \A s, r \in Sealed(i, d) : s.track = r.track => s = r
      BY DEF Sealed, SealSignal
    <2>17. (\A s, r \in issued : s.run = r.run /\ s.track = r.track => s = r)'
      BY <2>1, <2>7, <2>8, <2>16 DEF TurnInv
    <2>18. NoOverlap'
      <3> SUFFICES ASSUME NEW s \in issued', NEW r \in issued', s.track = r.track, Mode[s.run] = Mode[r.run],
                          s # r, Anchor[s.run] <= Anchor[r.run]
                   PROVE  Target(s.run, s.track) <= Anchor[r.run]
        BY DEF NoOverlap
      <3>1. CASE s \in issued /\ r \in issued
        BY <3>1 DEF TurnInv, NoOverlap
      <3>2. CASE s \in issued /\ r \in Sealed(i, d)
        BY <2>8, <2>10, <2>12, <3>2 DEF Placed
      <3>3. CASE s \in Sealed(i, d) /\ r \in issued
        BY <2>7, <2>8, <2>9, <2>12, <3>3
      <3>4. CASE s \in Sealed(i, d) /\ r \in Sealed(i, d)
        BY <2>16, <3>4
      <3> QED BY <2>1, <3>1, <3>2, <3>3, <3>4
    <2> QED BY <2>4, <2>14, <2>15, <2>17, <2>18 DEF TurnInv
  <1> QED BY <1>3, <1>4

LEMMA NextDayInTurn ==
    ASSUME RunInv, TurnInv, NextDay
    PROVE  TurnInv'
  <1>1. UNCHANGED <<run, dir, issued, op>> /\ day' = day + 1 /\ \A o \in Operators : op[o].step = "idle"
    BY DEF NextDay
  <1>2. \A i \in Inputs : Frozen(i)' = Frozen(i) /\ Anchor[i] \in Nat /\ day \in Nat
    BY <1>1, RunFacts DEF Frozen
  <1>3. \A i, T : Placed(i, T)' <=> Placed(i, T)
    BY <1>1 DEF Placed
  <1>4. ASSUME NEW i \in Inputs PROVE SessionOK(i)'
    <2>1. SessionOK(i)
      BY DEF TurnInv
    <2> QED BY <1>1, <1>2, <1>3, <2>1 DEF SessionOK
  <1>5. NoOverlap' /\ (\A s, r \in issued : s.run = r.run /\ s.track = r.track => s = r)'
    BY <1>1 DEF TurnInv, NoOverlap
  <1> QED BY <1>1, <1>4, <1>5 DEF TurnInv, CadenceOK

\* Drafts, shadows and follow-ups touch neither rows, assignments, signals nor commands.
LEMMA OthersInTurn ==
    ASSUME TurnInv, UNCHANGED <<day, run, issued, op>>,
           \A i \in Inputs : dir'[i].assigned = dir[i].assigned,
           \A o \in Operators : op[o].step = "idle"
    PROVE  TurnInv'
  <1>1. \A i \in Inputs : Frozen(i)' = Frozen(i)
    BY DEF Frozen
  <1>2. \A i, T : Placed(i, T)' <=> Placed(i, T)
    BY DEF Placed
  <1>3. \A i \in Inputs : SessionOK(i)'
    BY <1>1, <1>2 DEF SessionOK, TurnInv
  <1>4. NoOverlap' /\ (\A s, r \in issued : s.run = r.run /\ s.track = r.track => s = r)'
    BY DEF TurnInv, NoOverlap
  <1> QED BY <1>3, <1>4 DEF TurnInv, CadenceOK

\* Steps of the programme while commands take turns.
LEMMA TurnStepKeeps ==
    ASSUME MCInv, InTurn, TurnInv, [MCNext]_allVars
    PROVE  TurnInv'
  <1>0. RunInv /\ MyInputs \subseteq Inputs /\ regime \notin {"seal", "submit"}
    BY RegimesAreRuns DEF MCInv, ProgrammeInv, InTurn
  <1>1. CASE ResearchStep
    <2>1. ASSUME NEW o \in Operators, Turn(o),
                 \/ \E i \in MyInputs : PrepareScan(o, i) \/ FinalizeRead(o, i)
                 \/ PrepareAssign(o) \/ PrepareInsert(o) \/ PrepareWrite(o) \/ PrepareSeal(o)
                 \/ FinalizeOpen(o) \/ FinalizeCommit(o) \/ FinalizeReceipt(o)
                 \/ Recover(o) \/ PrepareReasoning(o)
                 \/ RejectOpen(o) \/ RejectCommit(o) \/ RejectReceipt(o)
          PROVE  TurnInv'
      <3>1. Alone(o)
        BY <2>1 DEF Turn, Alone
      <3> QED BY <1>0, <2>1, <3>1, QuietStepsInTurn, PrepareInsertInTurn, PrepareWriteInTurn,
                 PrepareSealInTurn, FinalizeCommitInTurn
    <2>2. ASSUME NEW i \in MyInputs, NEW d \in MyDrafts, Quiet, WriteDrafts(i, d) PROVE TurnInv'
      <3>1. /\ UNCHANGED <<day, run, issued, op>>
            /\ \A j \in Inputs : dir'[j].assigned = dir[j].assigned
        BY <1>0, <2>2, RunFacts DEF WriteDrafts, Directory
      <3> QED BY <2>2, <3>1, OthersInTurn DEF Quiet
    <2>3. ASSUME NEW i \in MyInputs, NEW a \in ShadowAgents, NEW onDisk \in BOOLEAN, Quiet,
                 AdmitShadow(i, a, onDisk)
          PROVE  TurnInv'
      BY <2>3, OthersInTurn DEF AdmitShadow, Quiet
    <2>4. NextDay => TurnInv'
      BY <1>0, NextDayInTurn
    <2> QED BY <1>0, <1>1, <2>1, <2>2, <2>3, <2>4 DEF ResearchStep
  <1>2. CASE FollowUp
    <2>1. UNCHANGED <<day, run, dir, issued, op>> /\ Quiet
      BY <1>2, LedgerStepKeeps DEF FollowUp, MCInv, ProgrammeInv, runVars
    <2> QED BY <2>1, OthersInTurn DEF Quiet
  <1>3. ASSUME UNCHANGED <<day, run, dir, issued, op>> PROVE TurnInv'
    <2>1. \A i : Frozen(i)' = Frozen(i) /\ \A T : Placed(i, T)' = Placed(i, T)
      BY <1>3 DEF Frozen, Placed
    <2> QED BY <1>3, <2>1 DEF TurnInv, CadenceOK, SessionOK, NoOverlap
  <1>4. CASE UNCHANGED allVars
    BY <1>3, <1>4 DEF allVars, runVars
  <1> QED BY <1>0, <1>1, <1>2, <1>4 DEF MCNext, ActivationEvent, Submission

LEMMA TurnInitHolds == RunInit => TurnInv
  <1> SUFFICES ASSUME RunInit PROVE TurnInv
    OBVIOUS
  <1>1. /\ issued = {} /\ \A o \in Operators : op[o].step = "idle"
        /\ \A i \in Inputs : run[i].status = "absent" /\ ~run[i].sealed
    BY DEF RunInit, Idle, NoRun
  <1> QED BY <1>1 DEF TurnInv, CadenceOK, SessionOK, NoOverlap

\* While commands take turns, no two windows of a track overlap and every activation and
\* formal forecast is earned (prepare_research_run, activate_d1_v2).
THEOREM ResearchSoundInTurn == MCSpec => []SoundInTurn
  <1> DEFINE Inv == MCInv /\ (InTurn => TurnInv /\ EarnedInv)
  <1>1. MCInit => Inv
    BY RunInitHolds, LedgerInitHolds, SubmissionInitHolds, TurnInitHolds, EarnedInitHolds
    DEF MCInit, MCInv, ProgrammeInv
  <1>2. Inv /\ [MCNext]_allVars => Inv'
    <2> SUFFICES ASSUME Inv, [MCNext]_allVars PROVE Inv'
      OBVIOUS
    <2>1. MCInv'
      BY MCStepKeeps
    <2>2. regime' = regime
      BY DEF MCNext, ResearchStep, FollowUp, ActivationEvent, Submission, mcVars, allVars
    <2>3. ASSUME InTurn PROVE EarnedInv'
      <3>1. RunInv /\ LedgerInv /\ EarnedInv
        BY <2>3 DEF MCInv, ProgrammeInv
      <3>2. CASE ResearchStep
        BY <3>1, <3>2, ResearchStepIsRunStep, RunStepKeepsEarned
      <3>3. CASE FollowUp
        BY <3>1, <3>3, LedgerStepKeepsEarned DEF FollowUp
      <3>4. CASE UNCHANGED allVars
        BY <3>1, <3>4, RunStepKeepsEarned DEF allVars
      <3> QED BY <2>3, <3>2, <3>3, <3>4 DEF MCNext, ActivationEvent, Submission, InTurn
    <2>4. ASSUME InTurn PROVE TurnInv'
      BY <2>4, TurnStepKeeps
    <2> QED BY <2>1, <2>2, <2>3, <2>4 DEF InTurn
  <1>3. Inv => SoundInTurn
    BY DEF SoundInTurn, TurnInv, EarnedInv
  <1> QED BY <1>1, <1>2, <1>3, PTL DEF MCSpec
=============================================================================
