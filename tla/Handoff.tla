------------------------------ MODULE Handoff ------------------------------
(***************************************************************************)
(* The file handoff of one committee run (backend/app/services/handoff.py):*)
(* prepare_handoff freezes a package, a draft writer fills drafts.json,    *)
(* finalize_handoff executes the graph on it, retry_failed_handoff re-arms *)
(* a failed attempt of the same run.  The outcome is kept twice, in the    *)
(* workflow_runs row (status and the data_quality["handoff"] seal) and in  *)
(* the job directory (drafts.json, receipt.json, attempts/<n>/).           *)
(*                                                                         *)
(* A step is one transaction, one group of reads or one file operation;    *)
(* between two steps an operator process may be killed, the draft writer   *)
(* may write, and the API may start and fail "interrupted" runs.  Hashes   *)
(* are modelled by the values they are taken of.                           *)
(***************************************************************************)
EXTENDS Naturals, Sequences

CONSTANTS Procs,         \* operator processes running finalize or retry
          Protocols,     \* packages: TRUE for protocol 3.0.0, FALSE for legacy 1.0.0/2.0.0
          Drafts,        \* contents the draft writer may put in drafts.json
          PreparedAt,    \* prepared_at of the package
          Deadline,      \* finalize_deadline of the package
          FutureSkew,    \* how far generated_at may lie after finalized_at
          MaxAttempts,   \* bound: attempts of one run
          MaxClock,      \* bound: the clock stops there
          MaxCrashes,    \* bound: killed operator processes
          MaxRestarts,   \* bound: API starts that find the run running
          Nobody         \* holder of the free job-directory lock

\* A draft bundle: its generated_at label and whether its assignment matrix,
\* evidence and Wiki references pass _validate_bundle.
Bundle == [gen : Nat, valid : BOOLEAN]
NoDraft == [gen |-> 0, valid |-> FALSE]

\* HandoffRequest.validate_request orders the two times of the package.
ASSUME HandoffConfiguration ==
    /\ Protocols \subseteq BOOLEAN
    /\ Drafts \subseteq Bundle /\ NoDraft \notin Drafts
    /\ PreparedAt \in Nat /\ Deadline \in Nat /\ PreparedAt < Deadline
    /\ FutureSkew \in Nat
    /\ MaxAttempts \in Nat /\ MaxAttempts >= 1
    /\ MaxClock \in Nat /\ MaxCrashes \in Nat /\ MaxRestarts \in Nat
    /\ Nobody \notin Procs

VARIABLES
    status,        \* WorkflowRun.status
    error,         \* WorkflowRun.error
    completed_at,  \* WorkflowRun.completed_at, 0 for NULL
    seal,          \* data_quality["handoff"]
    output,        \* drafts the stored opinions and forecasts come from
    drafts,        \* drafts.json
    frozen,        \* drafts.json has mode 0400
    receipt,       \* receipt.json
    archive,       \* archive[n]: attempts/<n>/drafts.json and receipt.json
    lock,          \* holder of the flock on the job directory
    pc,            \* pc[p]: the step process p is about to take
    op,            \* op[p]: why it publishes a receipt
    at,            \* at[p]: invoked_at or retried_at
    audit,         \* audit[p]: the seal it has read or built
    rcpt,          \* rcpt[p]: the receipt it publishes
    v3,            \* the protocol of the package
    prep,          \* progress of prepare_handoff
    replaced,      \* an active run for the same as_of exists
    claims,        \* claims[n]: graph executions begun for attempt n
    clock, crashes, restarts

row == <<status, error, completed_at, seal, output>>
files == <<drafts, frozen, receipt, archive>>
locals == <<op, at, audit, rcpt>>
world == <<v3, prep, replaced, clock, crashes, restarts>>
vars == <<status, error, completed_at, seal, output, drafts, frozen, receipt,
          archive, lock, pc, op, at, audit, rcpt, v3, prep, replaced,
          claims, clock, crashes, restarts>>

Attempts == 1 .. MaxAttempts

Status == {"absent", "awaiting_draft", "running", "failed", "completed"}
Errors == {"none", "prepare", "graph", "invalid", "claimed", "stale",
           "interrupted", "legacy"}

\* A HandoffReceipt; "torn" is a file created by _write_new_file whose bytes
\* were not written when the process died.
Receipt == [status : {"none", "torn", "failed", "completed"}, attempt : Nat,
            drafts : Bundle, finalized_at : Nat, error : Errors]
NoReceipt == [status |-> "none", attempt |-> 0, drafts |-> NoDraft,
              finalized_at |-> 0, error |-> "none"]
TornReceipt == [NoReceipt EXCEPT !.status = "torn"]

\* One entry of attempt_history; the receipt it embeds is ReceiptOf(entry).
Entry == [attempt : Nat, drafts : Bundle, finalized_at : Nat,
          completed_at : Nat, error : Errors]

\* The handoff seal.  transitions holds the times of the retry transitions.
Seal == [status : {"none", "awaiting_draft", "validating", "failed", "completed"},
         attempt : Nat, drafts : Bundle, finalized_at : Nat,
         history : Seq(Entry), transitions : Seq(Nat)]
NoSeal == [status |-> "none", attempt |-> 0, drafts |-> NoDraft,
           finalized_at |-> 0, history |-> <<>>, transitions |-> <<>>]

FinalizePC == {"load", "read", "seal", "begin", "graph", "finalize",
               "mark_failed", "publish", "promote", "recover"}
RetryPC == {"retry_load", "interrupted", "retry_seal", "verify",
            "archive_drafts", "unlink_drafts", "archive_receipt",
            "unlink_receipt", "rearm"}
ReceiptPC == {"create", "fill", "chmod", "seal_failed"}

\* Types of the row, the files and the processes.
TypeOK ==
    /\ status \in Status /\ error \in Errors /\ completed_at \in Nat
    /\ seal \in Seal
    /\ output \in Bundle
    /\ drafts \in Bundle /\ frozen \in BOOLEAN
    /\ receipt \in Receipt
    /\ archive \in [Attempts -> [drafts : Bundle, receipt : Receipt]]
    /\ lock \in Procs \cup {Nobody}
    /\ pc \in [Procs -> {"idle"} \cup FinalizePC \cup RetryPC \cup ReceiptPC]
    /\ op \in [Procs -> {"none", "failed", "completed", "retry"}]
    /\ at \in [Procs -> Nat]
    /\ audit \in [Procs -> Seal]
    /\ rcpt \in [Procs -> Receipt]
    /\ v3 \in BOOLEAN /\ prep \in {"new", "row", "done", "dead"}
    /\ replaced \in BOOLEAN
    /\ claims \in [Attempts -> Nat]
    /\ clock \in Nat /\ crashes \in Nat /\ restarts \in Nat

Init ==
    /\ status = "absent" /\ error = "none" /\ completed_at = 0
    /\ seal = NoSeal /\ output = NoDraft
    /\ drafts = NoDraft /\ frozen = FALSE /\ receipt = NoReceipt
    /\ archive = [n \in Attempts |-> [drafts |-> NoDraft, receipt |-> NoReceipt]]
    /\ lock = Nobody
    /\ pc = [p \in Procs |-> "idle"]
    /\ op = [p \in Procs |-> "none"]
    /\ at = [p \in Procs |-> 0]
    /\ audit = [p \in Procs |-> NoSeal]
    /\ rcpt = [p \in Procs |-> NoReceipt]
    /\ v3 \in Protocols /\ prep = "new" /\ replaced = FALSE
    /\ claims = [n \in Attempts |-> 0]
    /\ clock = PreparedAt /\ crashes = 0 /\ restarts = 0

-----------------------------------------------------------------------------
(* Helpers.                                                                *)

Last(s) == s[Len(s)]

Goto(p, next) == pc' = [pc EXCEPT ![p] = next]

\* The call returns or raises: its locals are gone and the flock is released.
Exit(p) ==
    /\ pc' = [pc EXCEPT ![p] = "idle"]
    /\ op' = [op EXCEPT ![p] = "none"]
    /\ at' = [at EXCEPT ![p] = 0]
    /\ audit' = [audit EXCEPT ![p] = NoSeal]
    /\ rcpt' = [rcpt EXCEPT ![p] = NoReceipt]
    /\ lock' = IF lock = p THEN Nobody ELSE lock

\* Receipts built from the wrong status and from the wrong time.
FailedReceiptSealStatus(s, e) ==
    [status |-> s.status, attempt |-> s.attempt, drafts |-> s.drafts,
     finalized_at |-> s.finalized_at, error |-> e]

\* _failed_receipt and the completed receipt, for the attempt a seal describes.
FailedReceipt(s, e) ==
    [status |-> "failed", attempt |-> s.attempt, drafts |-> s.drafts,
     finalized_at |-> s.finalized_at, error |-> e]

CompletedReceipt(s) ==
    [status |-> "completed", attempt |-> s.attempt, drafts |-> s.drafts,
     finalized_at |-> s.finalized_at, error |-> "none"]

\* The receipt embedded in an attempt_history entry.
ReceiptOf(e) ==
    [status |-> "failed", attempt |-> e.attempt, drafts |-> e.drafts,
     finalized_at |-> e.finalized_at, error |-> e.error]

\* _attempt_execution_token, and the predicate it adds to the updates of
\* execute_prepared; legacy packages run without it.
Token(s) == <<s.attempt, s.drafts, s.finalized_at>>
FenceHolds(p) == v3 => Token(seal) = Token(audit[p])

\* _validate_bundle and _validate_attempt_chronology.
Admissible(d, fin, s) ==
    /\ d.valid
    /\ PreparedAt <= d.gen /\ d.gen <= Deadline
    /\ d.gen <= fin + FutureSkew
    /\ v3 => /\ PreparedAt <= fin
             /\ s.attempt > 1 => /\ Last(s.transitions) <= d.gen
                                 /\ Last(s.transitions) <= fin

\* _validate_attempt_state: the history and the transitions are contiguous.
Contiguous(s) ==
    /\ Len(s.history) = IF s.status = "failed" THEN s.attempt ELSE s.attempt - 1
    /\ Len(s.transitions) = s.attempt - 1

-----------------------------------------------------------------------------
(* prepare_handoff: the run row, then the package and the seal.            *)

PrepareRow ==
    /\ prep = "new"
    /\ status' = "awaiting_draft"
    /\ prep' = "row"
    /\ UNCHANGED <<error, completed_at, seal, output, files, lock, pc, locals,
                   v3, replaced, claims, clock, crashes, restarts>>

PrepareSeal ==
    /\ prep = "row" /\ status = "awaiting_draft"
    /\ seal' = [NoSeal EXCEPT !.status = "awaiting_draft", !.attempt = 1]
    /\ prep' = "done"
    /\ UNCHANGED <<status, error, completed_at, output, files, lock, pc, locals,
                   v3, replaced, claims, clock, crashes, restarts>>

\* _mark_prepare_failed.
PrepareFails ==
    /\ prep = "row" /\ status = "awaiting_draft"
    /\ status' = "failed" /\ error' = "prepare" /\ completed_at' = clock
    /\ prep' = "done"
    /\ UNCHANGED <<seal, output, files, lock, pc, locals, v3, replaced, claims,
                   clock, crashes, restarts>>

-----------------------------------------------------------------------------
(* finalize_handoff.                                                       *)

StartFinalize(p) ==
    /\ pc[p] = "idle" /\ prep # "new"
    /\ v3 => lock = Nobody
    /\ lock' = IF v3 THEN p ELSE lock
    /\ at' = [at EXCEPT ![p] = clock]
    /\ Goto(p, "load")
    /\ UNCHANGED <<row, files, op, audit, rcpt, world, claims>>

\* _load_and_verify_database_seal, the dispatch on the run's status and the
\* deadline check.
LoadSeal(p) ==
    /\ pc[p] = "load"
    /\ \/ /\ status = "awaiting_draft"
          /\ \/ seal.status = "awaiting_draft" /\ at[p] <= Deadline
             \/ seal.status = "validating"
          /\ v3 => Contiguous(seal)
          /\ audit' = [audit EXCEPT ![p] = seal]
          /\ Goto(p, "read")
          /\ UNCHANGED <<lock, op, at, rcpt>>
       \/ /\ status = "completed"
          /\ seal.status \in {"validating", "completed"}
          /\ v3 => Contiguous(seal)
          /\ audit' = [audit EXCEPT ![p] = seal]
          /\ Goto(p, "recover")
          /\ UNCHANGED <<lock, op, at, rcpt>>
       \/ /\ \/ status \notin {"awaiting_draft", "completed"}
             \/ seal.status = "none"
             \/ seal.status = "awaiting_draft" /\ at[p] > Deadline
             \/ v3 /\ ~Contiguous(seal)
          /\ Exit(p)
    /\ UNCHANGED <<row, files, world, claims>>

\* Read and validate drafts.json; an interrupted attempt keeps its sealed
\* finalized_at.
ReadDrafts(p) ==
    /\ pc[p] = "read"
    /\ LET fin == IF audit[p].status = "validating" THEN audit[p].finalized_at
                                                    ELSE at[p]
       IN  IF drafts # NoDraft /\ Admissible(drafts, fin, audit[p])
           THEN /\ audit' = [audit EXCEPT ![p] =
                      [status |-> "validating", attempt |-> @.attempt,
                       drafts |-> drafts, finalized_at |-> fin,
                       history |-> @.history, transitions |-> @.transitions]]
                /\ Goto(p, IF v3 THEN "seal" ELSE "begin")
                /\ UNCHANGED <<lock, op, at, rcpt>>
           ELSE Exit(p)
    /\ UNCHANGED <<row, files, world, claims>>

\* _seal_validating_attempt.
SealValidating(p) ==
    /\ pc[p] = "seal"
    /\ IF /\ status = "awaiting_draft"
          /\ \/ seal.status = "validating" /\ seal = audit[p]
             \/ /\ seal.status = "awaiting_draft"
                /\ seal.attempt = audit[p].attempt
                /\ seal.history = audit[p].history
                /\ seal.transitions = audit[p].transitions
       THEN /\ seal' = audit[p]
            /\ Goto(p, "begin")
            /\ UNCHANGED <<lock, locals>>
       ELSE Exit(p) /\ UNCHANGED seal
    /\ UNCHANGED <<status, error, completed_at, output, files, world, claims>>

\* The workflow of this installation has other versions than the package.
RuntimeDrift(p) ==
    /\ pc[p] = "begin"
    /\ Exit(p)
    /\ UNCHANGED <<row, files, world, claims>>

\* finalize_handoff catches what execute_prepared raises: a v3 attempt goes
\* on to _publish_and_seal_failed_attempt, a legacy one writes its receipt.
Raise(p, e) ==
    /\ rcpt' = [rcpt EXCEPT ![p] = FailedReceipt(audit[p], e)]
    /\ op' = [op EXCEPT ![p] = "failed"]
    /\ Goto(p, IF v3 THEN "publish" ELSE "create")
    /\ UNCHANGED <<lock, at, audit>>

\* The first transaction of execute_prepared: the run is claimed, or it is
\* failed at once because a frozen input no longer matches.
BeginExecution(p) ==
    /\ pc[p] = "begin"
    /\ \/ /\ status = "awaiting_draft" /\ FenceHolds(p)
          /\ status' = "running"
          /\ claims' = [claims EXCEPT ![seal.attempt] = @ + 1]
          /\ Goto(p, "graph")
          /\ UNCHANGED <<error, completed_at, lock, locals>>
       \/ /\ status = "awaiting_draft" /\ FenceHolds(p)
          /\ status' = "failed" /\ error' = "invalid" /\ completed_at' = clock
          /\ Raise(p, "invalid")
          /\ UNCHANGED claims
       \/ /\ status # "awaiting_draft" \/ ~FenceHolds(p)
          /\ Raise(p, IF status = "awaiting_draft" THEN "stale" ELSE "claimed")
          /\ UNCHANGED <<status, error, completed_at, claims>>
    /\ UNCHANGED <<seal, output, files, world>>

\* graph.invoke (external: LangGraph) returns a result or raises.
GraphReturns(p) ==
    /\ pc[p] = "graph"
    /\ \E next \in {"finalize", "mark_failed"} : Goto(p, next)
    /\ UNCHANGED <<row, files, lock, locals, world, claims>>

\* The publishing transaction of execute_prepared.  Its checks of the frozen
\* input may still fail; a stale v3 fence is not recorded as a failure.
FinalizeResult(p) ==
    /\ pc[p] = "finalize"
    /\ \/ /\ status = "running" /\ FenceHolds(p)
          /\ status' = "completed" /\ error' = "none" /\ completed_at' = clock
          /\ output' = audit[p].drafts
          /\ seal' = audit[p]
          /\ Goto(p, "promote")
          /\ UNCHANGED <<lock, locals>>
       \/ /\ ~v3 \/ (status = "running" /\ FenceHolds(p))
          /\ Goto(p, "mark_failed")
          /\ UNCHANGED <<row, lock, locals>>
       \/ /\ v3 /\ (status # "running" \/ ~FenceHolds(p))
          /\ Raise(p, "stale")
          /\ UNCHANGED row
    /\ UNCHANGED <<files, world, claims>>

\* execute_prepared records the failure of the graph or of its checks.
MarkFailed(p) ==
    /\ pc[p] = "mark_failed"
    /\ IF status = "running" /\ FenceHolds(p)
       THEN /\ status' = "failed" /\ error' = "graph" /\ completed_at' = clock
            /\ Raise(p, "graph")
       ELSE Raise(p, "stale") /\ UNCHANGED <<status, error, completed_at>>
    /\ UNCHANGED <<seal, output, files, world, claims>>

\* The fence check at the head of _publish_and_seal_failed_attempt.
PublishFailed(p) ==
    /\ pc[p] = "publish"
    /\ IF /\ status = "failed" /\ seal.status = "validating"
          /\ seal.attempt = rcpt[p].attempt
          /\ seal.history = audit[p].history
          /\ seal.transitions = audit[p].transitions
       THEN Goto(p, "create") /\ UNCHANGED <<lock, locals>>
       ELSE Exit(p)
    /\ UNCHANGED <<row, files, world, claims>>

\* _seal_output and _promote_completed_handoff_seal.
PromoteSeal(p) ==
    /\ pc[p] = "promote"
    /\ LET done == [audit[p] EXCEPT !.status = "completed"]
       IN  IF status = "completed" /\ seal \in {done, audit[p]}
           THEN /\ seal' = done
                /\ rcpt' = [rcpt EXCEPT ![p] = CompletedReceipt(done)]
                /\ op' = [op EXCEPT ![p] = "completed"]
                /\ Goto(p, "create")
                /\ UNCHANGED <<lock, at, audit>>
           ELSE Exit(p) /\ UNCHANGED seal
    /\ UNCHANGED <<status, error, completed_at, output, files, world, claims>>

\* _load_or_recover_completed_receipt up to the seal: the drafts must be the
\* sealed ones and an existing receipt.json must be readable.
RecoverCompleted(p) ==
    /\ pc[p] = "recover"
    /\ IF /\ drafts = audit[p].drafts
          /\ receipt.status # "torn"
          /\ Admissible(drafts, audit[p].finalized_at, audit[p])
       THEN Goto(p, "promote") /\ UNCHANGED <<lock, locals>>
       ELSE Exit(p)
    /\ UNCHANGED <<row, files, world, claims>>

-----------------------------------------------------------------------------
(* _write_or_verify_receipt, _chmod_regular_file, _seal_failed_attempt.    *)

\* O_CREAT | O_EXCL creates the file; its bytes follow in FillReceipt.
CreateReceipt(p) ==
    /\ pc[p] = "create"
    /\ \/ /\ receipt = NoReceipt
          /\ receipt' = TornReceipt
          /\ Goto(p, "fill")
          /\ UNCHANGED <<lock, locals>>
       \/ /\ receipt = rcpt[p]
          /\ Goto(p, "chmod")
          /\ UNCHANGED <<receipt, lock, locals>>
       \/ /\ receipt \notin {NoReceipt, rcpt[p]}
          /\ Exit(p)
          /\ UNCHANGED receipt
    /\ UNCHANGED <<row, drafts, frozen, archive, world, claims>>

FillReceipt(p) ==
    /\ pc[p] = "fill"
    /\ receipt' = rcpt[p]
    /\ Goto(p, "chmod")
    /\ UNCHANGED <<row, drafts, frozen, archive, lock, locals, world, claims>>

\* A retry whose drafts.json is archived already has nothing to chmod.
FreezeDrafts(p) ==
    /\ pc[p] = "chmod"
    /\ frozen' = (frozen \/ drafts # NoDraft)
    /\ IF v3 /\ op[p] \in {"failed", "retry"} /\ (drafts # NoDraft \/ op[p] = "retry")
       THEN Goto(p, "seal_failed") /\ UNCHANGED <<lock, locals>>
       ELSE Exit(p)
    /\ UNCHANGED <<row, drafts, receipt, archive, world, claims>>

SealFailed(p) ==
    /\ pc[p] = "seal_failed"
    /\ IF /\ status = "failed" /\ output = NoDraft /\ error = rcpt[p].error
          /\ seal = audit[p]
       THEN /\ seal' = [status |-> "failed", attempt |-> seal.attempt,
                        drafts |-> seal.drafts, finalized_at |-> seal.finalized_at,
                        history |-> Append(seal.history,
                            [attempt |-> seal.attempt, drafts |-> seal.drafts,
                             finalized_at |-> seal.finalized_at,
                             completed_at |-> completed_at, error |-> error]),
                        transitions |-> seal.transitions]
            /\ IF op[p] = "retry"
               THEN /\ audit' = [audit EXCEPT ![p] = seal']
                    /\ Goto(p, "verify")
                    /\ UNCHANGED <<lock, op, at, rcpt>>
               ELSE Exit(p)
       ELSE Exit(p) /\ UNCHANGED seal
    /\ UNCHANGED <<status, error, completed_at, output, files, world, claims>>

-----------------------------------------------------------------------------
(* retry_failed_handoff.                                                   *)

StartRetry(p) ==
    /\ v3 /\ pc[p] = "idle" /\ prep # "new"
    /\ lock = Nobody
    /\ lock' = p
    /\ at' = [at EXCEPT ![p] = clock]
    /\ Goto(p, "retry_load")
    /\ UNCHANGED <<row, files, op, audit, rcpt, world, claims>>

\* _load_and_verify_database_seal and _validate_retry_time_before_mutation.
RetryLoad(p) ==
    /\ pc[p] = "retry_load"
    /\ IF /\ status \in {"failed", "running"} /\ seal.status # "none"
          /\ at[p] <= Deadline
          /\ seal.finalized_at <= at[p]
          /\ status = "failed" => completed_at <= at[p]
       THEN /\ audit' = [audit EXCEPT ![p] = seal]
            /\ Goto(p, IF status = "running" THEN "interrupted" ELSE "retry_seal")
            /\ UNCHANGED <<lock, op, at, rcpt>>
       ELSE Exit(p)
    /\ UNCHANGED <<row, files, world, claims>>

\* An interrupted attempt simply made available again.
RecoverInterruptedResumes(p) ==
    /\ pc[p] = "interrupted"
    /\ status = "running"
    /\ status' = "awaiting_draft"
    /\ Exit(p)
    /\ UNCHANGED <<error, completed_at, seal, output, files, world, claims>>

\* _recover_interrupted_running_attempt.
RecoverInterrupted(p) ==
    /\ pc[p] = "interrupted"
    /\ IF /\ status = "running" /\ seal.status = "validating" /\ Contiguous(seal)
          /\ output = NoDraft /\ ~replaced
       THEN /\ status' = "failed" /\ error' = "interrupted"
            /\ completed_at' = at[p]
            /\ audit' = [audit EXCEPT ![p] = seal]
            /\ Goto(p, "retry_seal")
            /\ UNCHANGED <<lock, op, at, rcpt>>
       ELSE Exit(p) /\ UNCHANGED <<status, error, completed_at>>
    /\ UNCHANGED <<seal, output, files, world, claims>>

\* _read_current_or_archived_json: the working copy, else the archived one;
\* two copies must agree.
CurrentOrArchived(n) ==
    IF drafts = NoDraft THEN archive[n].drafts
    ELSE IF archive[n].drafts \in {NoDraft, drafts} THEN drafts ELSE NoDraft

\* _ensure_failed_attempt_sealed: rebuild the receipt of a failure whose
\* publication was interrupted.
RetrySeal(p) ==
    /\ pc[p] = "retry_seal"
    /\ LET s == audit[p]
           rebuilt == FailedReceipt(s, error)
       IN  \/ /\ s.status = "failed"
              /\ Goto(p, "verify")
              /\ UNCHANGED <<lock, locals>>
           \/ /\ s.status = "validating"
              /\ CurrentOrArchived(s.attempt) = s.drafts
              /\ receipt \in {NoReceipt, rebuilt}
              /\ archive[s.attempt].receipt \in {NoReceipt, rebuilt}
              /\ rcpt' = [rcpt EXCEPT ![p] = rebuilt]
              /\ op' = [op EXCEPT ![p] = "retry"]
              /\ Goto(p, "create")
              /\ UNCHANGED <<lock, at, audit>>
           \/ /\ s.status # "failed"
              /\ \/ s.status # "validating"
                 \/ CurrentOrArchived(s.attempt) # s.drafts
                 \/ receipt \notin {NoReceipt, rebuilt}
                 \/ archive[s.attempt].receipt \notin {NoReceipt, rebuilt}
              /\ Exit(p)
    /\ UNCHANGED <<row, files, world, claims>>

\* The artifacts must be the sealed ones; _verify_retry_database_state.
RetryVerify(p) ==
    /\ pc[p] = "verify"
    /\ LET n == audit[p].attempt
           e == Last(audit[p].history)
       IN  IF /\ Contiguous(audit[p])
              /\ CurrentOrArchived(n) = e.drafts
              /\ receipt \in {NoReceipt, ReceiptOf(e)}
              /\ receipt = NoReceipt =>
                     archive[n].receipt \in {NoReceipt, ReceiptOf(e)}
              /\ status = "failed" /\ output = NoDraft /\ ~replaced
           THEN /\ rcpt' = [rcpt EXCEPT ![p] = ReceiptOf(e)]
                /\ Goto(p, "archive_drafts")
                /\ UNCHANGED <<lock, op, at, audit>>
           ELSE Exit(p)
    /\ UNCHANGED <<row, files, world, claims>>

\* An archived copy replaced by the working one.
ArchiveDraftsOverwrites(p) ==
    /\ pc[p] = "archive_drafts"
    /\ archive' = [archive EXCEPT ![audit[p].attempt].drafts =
                      IF drafts = NoDraft THEN audit[p].drafts ELSE drafts]
    /\ Goto(p, "unlink_drafts")
    /\ UNCHANGED <<row, drafts, frozen, receipt, lock, locals, world, claims>>

\* _archive_attempt_artifact for drafts.json: link, verify, then unlink.
ArchiveDrafts(p) ==
    /\ pc[p] = "archive_drafts"
    /\ LET n == audit[p].attempt
           expected == audit[p].drafts
       IN  IF \/ archive[n].drafts = expected
              \/ archive[n].drafts = NoDraft /\ drafts \in {NoDraft, expected}
           THEN /\ archive' = [archive EXCEPT ![n].drafts = expected]
                /\ Goto(p, "unlink_drafts")
                /\ UNCHANGED <<lock, locals>>
           ELSE Exit(p) /\ UNCHANGED archive
    /\ UNCHANGED <<row, drafts, frozen, receipt, world, claims>>

UnlinkDrafts(p) ==
    /\ pc[p] = "unlink_drafts"
    /\ IF drafts \in {NoDraft, audit[p].drafts}
       THEN /\ drafts' = NoDraft /\ frozen' = FALSE
            /\ Goto(p, "archive_receipt")
            /\ UNCHANGED <<lock, locals>>
       ELSE Exit(p) /\ UNCHANGED <<drafts, frozen>>
    /\ UNCHANGED <<row, receipt, archive, world, claims>>

\* The same for receipt.json.
ArchiveReceipt(p) ==
    /\ pc[p] = "archive_receipt"
    /\ LET n == audit[p].attempt
       IN  IF \/ archive[n].receipt = rcpt[p]
              \/ archive[n].receipt = NoReceipt /\ receipt \in {NoReceipt, rcpt[p]}
           THEN /\ archive' = [archive EXCEPT ![n].receipt = rcpt[p]]
                /\ Goto(p, "unlink_receipt")
                /\ UNCHANGED <<lock, locals>>
           ELSE Exit(p) /\ UNCHANGED archive
    /\ UNCHANGED <<row, drafts, frozen, receipt, world, claims>>

\* receipt.json copied but left in the working slot.
UnlinkReceiptKeeps(p) ==
    /\ pc[p] = "unlink_receipt"
    /\ Goto(p, "rearm")
    /\ UNCHANGED <<row, files, lock, locals, world, claims>>

UnlinkReceipt(p) ==
    /\ pc[p] = "unlink_receipt"
    /\ IF receipt \in {NoReceipt, rcpt[p]}
       THEN /\ receipt' = NoReceipt
            /\ Goto(p, "rearm")
            /\ UNCHANGED <<lock, locals>>
       ELSE Exit(p) /\ UNCHANGED receipt
    /\ UNCHANGED <<row, drafts, frozen, archive, world, claims>>

\* The seal of the next attempt: artifacts cleared, one transition more.
RearmedSeal(s, t) ==
    [status |-> "awaiting_draft", attempt |-> s.attempt + 1, drafts |-> NoDraft,
     finalized_at |-> 0, history |-> s.history, transitions |-> Append(s.transitions, t)]

\* _rearm_failed_run.
Rearm(p) ==
    /\ pc[p] = "rearm"
    /\ IF /\ status = "failed" /\ seal = audit[p] /\ Contiguous(seal)
          /\ output = NoDraft /\ ~replaced
          /\ at[p] <= Deadline
          /\ Last(seal.history).completed_at <= at[p]
          /\ Last(seal.history).finalized_at <= at[p]
          /\ seal.transitions # <<>> => Last(seal.transitions) < at[p]
          /\ seal.attempt < MaxAttempts            \* bound
       THEN /\ status' = "awaiting_draft" /\ error' = "none" /\ completed_at' = 0
            /\ seal' = RearmedSeal(seal, at[p])
       ELSE UNCHANGED <<status, error, completed_at, seal>>
    /\ Exit(p)
    /\ UNCHANGED <<output, files, world, claims>>

-----------------------------------------------------------------------------
(* The rest of the world.                                                  *)

\* The draft writer (external) may write drafts.json until it is frozen.
WriteDrafts(d) ==
    /\ prep # "new" /\ ~frozen /\ d # drafts
    /\ drafts' = d
    /\ UNCHANGED <<row, frozen, receipt, archive, lock, pc, locals, world, claims>>

\* _fail_interrupted_runs when the API starts: the row has no durable task.
RestartApi ==
    /\ restarts < MaxRestarts
    /\ status = "running"
    /\ status' = "failed" /\ error' = "legacy" /\ completed_at' = clock
    /\ restarts' = restarts + 1
    /\ UNCHANGED <<seal, output, files, lock, pc, locals, v3, prep, replaced,
                   claims, clock, crashes>>

\* Another run for the same universe and as_of becomes active.  One that is
\* active earlier is seen no sooner than by the checks of a retry.
StartReplacement ==
    /\ status \in {"running", "failed"} /\ ~replaced
    /\ replaced' = TRUE
    /\ UNCHANGED <<row, files, lock, pc, locals, v3, prep, claims, clock, crashes,
                   restarts>>

\* A killed process drops its locals; the kernel drops its flock.
Crash(p) ==
    /\ crashes < MaxCrashes /\ pc[p] # "idle"
    /\ Exit(p)
    /\ crashes' = crashes + 1
    /\ UNCHANGED <<row, files, v3, prep, replaced, claims, clock, restarts>>

CrashPrepare ==
    /\ crashes < MaxCrashes /\ prep = "row"
    /\ prep' = "dead"
    /\ crashes' = crashes + 1
    /\ UNCHANGED <<row, files, lock, pc, locals, v3, replaced, claims, clock, restarts>>

Tick ==
    /\ clock < MaxClock
    /\ clock' = clock + 1
    /\ UNCHANGED <<row, files, lock, pc, locals, v3, prep, replaced, claims, crashes,
                   restarts>>

Next ==
    \/ PrepareRow \/ PrepareSeal \/ PrepareFails \/ CrashPrepare
    \/ RestartApi \/ StartReplacement \/ Tick
    \/ \E d \in Drafts : WriteDrafts(d)
    \/ \E p \in Procs :
          \/ StartFinalize(p) \/ LoadSeal(p) \/ ReadDrafts(p) \/ SealValidating(p)
          \/ RuntimeDrift(p) \/ BeginExecution(p) \/ GraphReturns(p)
          \/ FinalizeResult(p) \/ MarkFailed(p) \/ PublishFailed(p)
          \/ PromoteSeal(p) \/ RecoverCompleted(p)
          \/ CreateReceipt(p) \/ FillReceipt(p) \/ FreezeDrafts(p) \/ SealFailed(p)
          \/ StartRetry(p) \/ RetryLoad(p) \/ RecoverInterrupted(p)
          \/ RetrySeal(p) \/ RetryVerify(p) \/ ArchiveDrafts(p) \/ UnlinkDrafts(p)
          \/ ArchiveReceipt(p) \/ UnlinkReceipt(p) \/ Rearm(p)
          \/ Crash(p)

Spec == Init /\ [][Next]_vars

-----------------------------------------------------------------------------
(* What the handoff promises.                                              *)

\* The retry chain keeps its epochs apart: history and transitions stay
\* contiguous, transition n lies after the end of attempt n and after
\* transition n - 1, and attempt n + 1 uses drafts generated, and a
\* finalized_at taken, at or after transition n (_validated_attempt_history,
\* _validated_retry_transitions, _validate_attempt_chronology).
EpochOrder ==
    LET ends == seal.history
        retries == seal.transitions
        Since(n, a) == n = 1 \/ (retries[n - 1] <= a.drafts.gen
                                   /\ retries[n - 1] <= a.finalized_at)
    IN  seal.status # "none" =>
        /\ v3 => Contiguous(seal)
        /\ \A n \in DOMAIN ends : ends[n].attempt = n /\ Since(n, ends[n])
        /\ \A n \in DOMAIN retries :
              /\ n <= Len(ends)
              /\ ends[n].completed_at <= retries[n]
              /\ ends[n].finalized_at <= retries[n]
              /\ retries[n] <= Deadline
              /\ n > 1 => retries[n - 1] < retries[n]
        /\ v3 /\ seal.status \in {"validating", "completed"} => Since(seal.attempt, seal)

\* Opinions and forecasts exist exactly when the run is completed, and they
\* come from the drafts the seal names: no crash, API start or second
\* operator leaves partial or foreign output (FinalizeResult's transaction).
OutputSealed ==
    /\ output # NoDraft <=> status = "completed"
    /\ status = "completed" => output = seal.drafts

\* One checkpoint thread serves at most one graph execution: an attempt that
\* was claimed is never claimed again, it is failed and retried under the
\* next number (execute_prepared's claim, _recover_interrupted_running_attempt).
ExecutedOnce == \A n \in Attempts : claims[n] <= 1

\* A complete receipt in the working slot of a v3 package belongs to the attempt
\* and the drafts the seal is at: a failed one never survives into a re-armed
\* slot, and beside a completed run it says completed, with the sealed time,
\* which is what a repeated finalize verifies and returns
\* (_archive_attempt_artifact, _load_or_recover_completed_receipt).
ReceiptAgrees ==
    v3 /\ receipt.status \in {"failed", "completed"} =>
        /\ receipt.attempt = seal.attempt /\ receipt.drafts = seal.drafts
        /\ status = "completed" =>
              receipt.status = "completed" /\ receipt.finalized_at = seal.finalized_at

\* Every attempt before the current one is archived completely, byte for
\* byte what its attempt_history entry seals (archival before _rearm_failed_run).
ArchiveMatches ==
    v3 => \A n \in Attempts : n < seal.attempt =>
        archive[n] = [drafts |-> seal.history[n].drafts,
                      receipt |-> ReceiptOf(seal.history[n])]

\* Attempts follow one another: their epochs are in order and none is executed
\* a second time (_validate_attempt_chronology, execute_prepared's claim).
AttemptsInOrder == EpochOrder /\ ExecutedOnce

\* Output, working slot and archive tell the story the seal tells, through every
\* crash, retry and second operator (finalize_handoff, _archive_failed_attempt).
SealsAgree == OutputSealed /\ ReceiptAgrees /\ ArchiveMatches

\* The audit trail only grows: archived files are never replaced and sealed
\* history entries and transitions never change (_archive_attempt_artifact,
\* _seal_failed_attempt, _rearm_failed_run).
AuditTrailGrows ==
    [][/\ \A n \in Attempts :
            /\ archive[n].drafts # NoDraft => archive'[n].drafts = archive[n].drafts
            /\ archive[n].receipt # NoReceipt => archive'[n].receipt = archive[n].receipt
       /\ SubSeq(seal'.history, 1, Len(seal.history)) = seal.history
       /\ SubSeq(seal'.transitions, 1, Len(seal.transitions)) = seal.transitions]_vars

\* What docs/codex-file-handoff.md says of a live finalizer: while it holds
\* the job lock its running attempt is turned into a failure by nobody else.  No run
\* checks it: an API that starts meanwhile fails the run (RestartApi), so TLC refutes it.
LiveFinalizerKeepsRun ==
    [][status = "running" /\ status' = "failed" /\ lock # Nobody
          => pc'[lock] # pc[lock]]_vars
=============================================================================
