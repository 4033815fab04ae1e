---------------------------- MODULE RunSubmission ----------------------------
(***************************************************************************)
(* How a v1 run comes into being: POST /api/runs (backend/app/api.py       *)
(* create_run, workflow.prepare_run, task_queue.enqueue) and the file      *)
(* handoff's prepare.  A request runs in a server thread; each of its      *)
(* reads is a statement of its own, its only write one transaction that    *)
(* inserts run and task.  Every request prepares a run of its own, so a    *)
(* run is named by the request that prepared it.                           *)
(***************************************************************************)
EXTENDS ActivationLedger

CONSTANTS Requests,   \* requests and prepare commands
          Keys,       \* idempotency keys
          AsOfs,      \* as_of of a run
          NoRequest   \* NULL

ASSUME SubmissionConfiguration == NoRequest \notin Requests \cup Keys \cup AsOfs

VARIABLES
    v1,      \* v1[r]: the row of workflow_runs that request r prepared
    bound,   \* bound[k]: the run of the task with idempotency key k
    req      \* req[r]: the request

subVars == <<v1, bound, req>>

V1Run == [status : {"none", "awaiting_draft", "queued", "completed", "failed"},
          asOf : AsOfs \cup {NoRequest}]
Request == [step : {"new", "lookup", "active", "prepare", "enqueue", "insert", "undo",
                    "wait", "file", "done"},
            key : Keys \cup {NoRequest}, asOf : AsOfs \cup {NoRequest},
            active : Requests \cup {NoRequest}, answer : Requests \cup {NoRequest}]

NewRequest == [step |-> "new", key |-> NoRequest, asOf |-> NoRequest,
               active |-> NoRequest, answer |-> NoRequest]

SubmissionTypeOK ==
    /\ v1 \in [Requests -> V1Run]
    /\ bound \in [Keys -> Requests \cup {NoRequest}]
    /\ req \in [Requests -> Request]

SubmissionInit ==
    /\ v1 = [r \in Requests |-> [status |-> "none", asOf |-> NoRequest]]
    /\ bound = [k \in Keys |-> NoRequest]
    /\ req = [r \in Requests |-> NewRequest]

\* The rows of the partial unique index uq_active_live_run_as_of.
ActiveOn(t) == {r \in Requests : /\ v1[r].asOf = t
                                 /\ v1[r].status \in {"awaiting_draft", "queued", "completed"}}

Goto(r, step) == req' = [req EXCEPT ![r].step = step]
Answer(r, a) == req' = [req EXCEPT ![r].step = "done", ![r].answer = a]

\* _idempotent_run_response: the run of the key, if it is the run that was asked for.
IdempotentAnswer(r, q) ==
    Answer(r, IF v1[q].asOf = req[r].asOf THEN q ELSE NoRequest)

-----------------------------------------------------------------------------
(* POST /api/runs.                                                         *)

\* Admission, and the key of the request.
Submit(r, k, t) ==
    /\ req[r].step = "new" /\ V1RunCreationAllowed
    /\ req' = [req EXCEPT ![r].step = "lookup", ![r].key = k, ![r].asOf = t]
    /\ UNCHANGED <<v1, bound, activations>>

\* find_by_idempotency_key.
Lookup(r) ==
    LET q == bound[req[r].key] IN
    /\ req[r].step = "lookup"
    /\ IF q # NoRequest THEN IdempotentAnswer(r, q) ELSE Goto(r, "active")
    /\ UNCHANGED <<v1, bound, activations>>

\* An active run for this as_of: wait whether it is this key's.
FindActive(r) ==
    LET active == ActiveOn(req[r].asOf) IN
    /\ req[r].step = "active"
    /\ IF active = {} THEN Goto(r, "prepare")
       ELSE req' = [req EXCEPT ![r].step = "wait", ![r].active = CHOOSE q \in active : TRUE]
    /\ UNCHANGED <<v1, bound, activations>>

\* workflow.prepare_run(persist=False): admission again, then frozen in memory.
Prepare(r) ==
    /\ req[r].step = "prepare"
    /\ IF V1RunCreationAllowed THEN Goto(r, "enqueue") ELSE Answer(r, NoRequest)
    /\ UNCHANGED <<v1, bound, activations>>

\* task_queue.enqueue up to the insert: a third admission, and the key once more.  A
\* task of the key belongs to another run, which is a conflict.
EnqueueRead(r) ==
    /\ req[r].step = "enqueue"
    /\ CASE ~V1RunCreationAllowed -> Answer(r, NoRequest)
         [] V1RunCreationAllowed /\ bound[req[r].key] # NoRequest -> Goto(r, "wait")
         [] OTHER -> Goto(r, "insert")
    /\ UNCHANGED <<v1, bound, activations>>

InsertFitsAsOf(r) == ActiveOn(req[r].asOf) = {}

\* The unique indexes of workflow_tasks.idempotency_key and of active as_of.
InsertFits(r) == bound[req[r].key] = NoRequest /\ ActiveOn(req[r].asOf) = {}

\* Run and task in one transaction; after an IntegrityError wait for the winner.
EnqueueCommit(r) ==
    LET k == req[r].key IN
    /\ req[r].step = "insert"
    /\ IF InsertFits(r)
       THEN /\ v1' = [v1 EXCEPT ![r] = [status |-> "queued", asOf |-> req[r].asOf]]
            /\ bound' = [bound EXCEPT ![k] = r]
            /\ Answer(r, r)
       ELSE Goto(r, "wait") /\ UNCHANGED <<v1, bound>>
    /\ UNCHANGED activations

\* The session raises once more after the commit: run and task are there.
EnqueueRaises(r) ==
    /\ req[r].step = "insert" /\ InsertFits(r)
    /\ v1' = [v1 EXCEPT ![r] = [status |-> "queued", asOf |-> req[r].asOf]]
    /\ bound' = [bound EXCEPT ![req[r].key] = r]
    /\ Goto(r, "undo")
    /\ UNCHANGED activations

\* _fail_unqueued_prepared_run: a run that is still queued is failed; its task stays.
FailUnqueued(r) ==
    /\ req[r].step = "undo"
    /\ v1' = IF v1[r].status = "queued" THEN [v1 EXCEPT ![r].status = "failed"] ELSE v1
    /\ Answer(r, NoRequest)
    /\ UNCHANGED <<bound, activations>>

\* _wait_for_idempotent_task: the task of the key appears in time or not.
WaitForTask(r) ==
    LET q == bound[req[r].key]
        mine == req[r].active \in {NoRequest, q} IN
    /\ req[r].step = "wait"
    /\ IF q # NoRequest /\ mine THEN IdempotentAnswer(r, q) ELSE Answer(r, NoRequest)
    /\ UNCHANGED <<v1, bound, activations>>

-----------------------------------------------------------------------------
(* The file handoff, and the runs' ends.                                   *)

\* handoff prepare and workflow.prepare_run up to its insert.
FilePrepare(r, t) ==
    /\ req[r].step = "new" /\ V1RunCreationAllowed
    /\ req' = [req EXCEPT ![r].step = "file", ![r].asOf = t]
    /\ UNCHANGED <<v1, bound, activations>>

FileInsert(r) ==
    LET t == req[r].asOf IN
    /\ req[r].step = "file"
    /\ IF ActiveOn(t) = {}
       THEN v1' = [v1 EXCEPT ![r] = [status |-> "awaiting_draft", asOf |-> t]] /\ Answer(r, r)
       ELSE Answer(r, NoRequest) /\ UNCHANGED v1
    /\ UNCHANGED <<bound, activations>>

\* The worker or finalize ends a run (modules TaskQueue and Handoff).
EndRun(r, s) ==
    /\ v1[r].status \in {"awaiting_draft", "queued"} /\ s \in {"completed", "failed"}
    /\ v1' = [v1 EXCEPT ![r].status = s]
    /\ UNCHANGED <<bound, req, activations>>

SubmissionStep ==
    \E r \in Requests :
        \/ \E k \in Keys, t \in AsOfs : Submit(r, k, t)
        \/ \E t \in AsOfs : FilePrepare(r, t)
        \/ Lookup(r) \/ FindActive(r) \/ Prepare(r) \/ EnqueueRead(r) \/ EnqueueCommit(r)
        \/ EnqueueRaises(r) \/ FailUnqueued(r) \/ WaitForTask(r) \/ FileInsert(r)
        \/ \E s \in {"completed", "failed"} : EndRun(r, s)

\* The activation ledger may change between any two steps.
SubmissionSpec == SubmissionInit /\ [][SubmissionStep]_subVars

-----------------------------------------------------------------------------
(* What is promised.                                                       *)

\* A key stands for one run: whoever is answered with a run under a key gets the run of
\* the key's task, for the as_of asked for; and however requests and file prepares
\* overlap, an as_of has one active run (create_run, enqueue, the unique indexes).
AnswersAgree ==
    /\ \A r \in Requests : req[r].answer # NoRequest =>
        /\ v1[req[r].answer].status # "none"
        /\ v1[req[r].answer].asOf = req[r].asOf
        /\ req[r].key # NoRequest => bound[req[r].key] = req[r].answer
    /\ \A t \in AsOfs : Cardinality(ActiveOn(t)) <= 1

\* "Once the D1 activation is committed no new v1 run is created" (v1_run_admission).  No
\* run checks it: the last admission is a read before the insert, so TLC refutes it.
NoV1AfterActivation ==
    [][\A r \in Requests : v1[r].status = "none" /\ v1'[r].status # "none" => ~Activated]_v1
=============================================================================
