---------------------------- MODULE JobExecution ----------------------------
(***************************************************************************)
(* The append-only execution state of an externally operated job           *)
(* (JobExecutionStore, backend/app/jobs/execution.py): one execution, a    *)
(* directory with its revision files and a trusted copy of the receipt.    *)
(* Operator processes (`forecast-loop jobs ...`) call the store's methods  *)
(* with no lock between them; the only arbiter is link(2), which fails     *)
(* when the name exists.  A step is one listing of a directory, one read   *)
(* of a handoff file or one file operation.  Hashes are modelled by what   *)
(* they are taken of, so a seal of drafts.json is its content.             *)
(*                                                                         *)
(* Revision NNNNNN.json is revisions[NNNNNN + 1].  The handoff's frozen    *)
(* input.json, INSTRUCTIONS.md and drafts.template.json never change and   *)
(* are named by their directory, the job.                                  *)
(***************************************************************************)
EXTENDS Naturals, Sequences, SequencesExt

CONSTANTS Operators,   \* operator processes
          Manifests,   \* manifest and prompt contents given to begin
          Jobs,        \* prepared handoff directories
          Drafts,      \* contents of a drafts.json
          Nothing,     \* a seal that is None, a file that does not exist
          MaxCrashes   \* bound: operator processes killed

ASSUME StoreConfiguration ==
    /\ Nothing \notin Jobs /\ Nothing \notin Drafts /\ Nothing \notin Manifests
    /\ Nothing \notin [status : {"completed", "failed"}, job : Jobs, drafts : Drafts]
    /\ MaxCrashes \in Nat

VARIABLES
    revisions,  \* the revision files, in order; <<>>: no execution directory
    trusted,    \* receipt.json of the execution directory
    litter,     \* operators whose temporary file lies in revisions/
    topLitter,  \* operators whose temporary file lies beside receipt.json
    drafts,     \* drafts[j]: drafts.json of handoff j
    receipt,    \* receipt[j]: receipt.json of handoff j
    pc,         \* pc[o]: the next step of operator o
    call,       \* call[o]: the method it runs and that method's argument
    stage,      \* stage[o]: which of the method's resume() calls it is in
    seen,       \* seen[o]: [state, revision] that resume() returned last
    update,     \* update[o]: the seals the method wants to record
    acks,       \* history: the seals of the calls that returned
    crashes     \* operator processes killed so far

vars == <<revisions, trusted, litter, topLitter, drafts, receipt, pc, call,
          stage, seen, update, acks, crashes>>
store == <<revisions, trusted, litter, topLitter>>
handoff == <<drafts, receipt>>
local == <<call, stage, seen, update>>

Phase == {"prepare_pending", "awaiting_draft", "finalize_pending", "completed", "failed"}
Terminal == {"completed", "failed"}
Methods == {"begin", "record_prepared", "draft_instruction", "record_draft_ready",
            "record_finalized"}

\* A HandoffReceipt, as far as the store compares it.
Receipt == [status : Terminal, job : Jobs, drafts : Drafts]

\* JobExecutionState: a phase and the seals of every stage.
Seals == [manifest : Manifests \cup {Nothing}, job : Jobs \cup {Nothing},
          drafts : Drafts \cup {Nothing}, receipt : Receipt \cup {Nothing}]
State == [phase : Phase, seals : Seals]
NoSeals == [manifest |-> Nothing, job |-> Nothing, drafts |-> Nothing, receipt |-> Nothing]
Begun(m) == [phase |-> "prepare_pending", seals |-> [NoSeals EXCEPT !.manifest = m]]
Unread == [revision |-> 0, phase |-> "prepare_pending", seals |-> NoSeals]
NoCall == [method |-> "begin", arg |-> Nothing]

Steps == {"idle", "rename", "list", "chain", "request", "drafts", "receipt",
          "copy_stage", "copy_link", "copy_won", "copy_lost", "decide",
          "append_stage", "append_link", "append_won", "append_lost"}
Stages == {"first", "again", "reread", "winner"}

TypeOK ==
    /\ revisions \in Seq(State)
    /\ trusted \in Receipt \cup {Nothing}
    /\ litter \subseteq Operators /\ topLitter \subseteq Operators
    /\ drafts \in [Jobs -> Drafts \cup {Nothing}]
    /\ receipt \in [Jobs -> Receipt \cup {Nothing}]
    /\ pc \in [Operators -> Steps]
    /\ call \in [Operators -> [method : Methods, arg : Jobs \cup Manifests \cup {Nothing}]]
    /\ stage \in [Operators -> Stages]
    /\ seen \in [Operators -> [revision : Nat, phase : Phase, seals : Seals]]
    /\ update \in [Operators -> Seals]
    /\ acks \subseteq Seals
    /\ crashes \in 0..MaxCrashes

Init ==
    /\ revisions = <<>> /\ trusted = Nothing
    /\ litter = {} /\ topLitter = {}
    /\ drafts = [j \in Jobs |-> Nothing]
    /\ receipt = [j \in Jobs |-> Nothing]
    /\ pc = [o \in Operators |-> "idle"]
    /\ call = [o \in Operators |-> NoCall]
    /\ stage = [o \in Operators |-> "first"]
    /\ seen = [o \in Operators |-> Unread]
    /\ update = [o \in Operators |-> NoSeals]
    /\ acks = {}
    /\ crashes = 0

-----------------------------------------------------------------------------
(* Helpers.                                                                *)

SealNames == {"manifest", "job", "drafts", "receipt"}

\* _require_matching_fields: every requested seal is the recorded one.
Matches(seals, wanted) ==
    \A f \in SealNames : wanted[f] \in {Nothing, seals[f]}

Rank(phase) ==
    CASE phase = "prepare_pending" -> 0
      [] phase = "awaiting_draft" -> 1
      [] phase = "finalize_pending" -> 2
      [] OTHER -> 3

TargetPhaseFinalized(o) ==
    CASE call[o].method = "record_prepared" -> "awaiting_draft"
      [] call[o].method = "record_draft_ready" -> "finalize_pending"
      [] OTHER -> "finalized"

\* The phase the method's append asks for.
TargetPhase(o) ==
    CASE call[o].method = "record_prepared" -> "awaiting_draft"
      [] call[o].method = "record_draft_ready" -> "finalize_pending"
      [] OTHER -> update[o].receipt.status

SameLogicalTransitionByPhase(o, winner) ==
    Rank(winner.phase) >= Rank(TargetPhase(o))

\* _is_same_logical_transition.
SameLogicalTransition(o, winner) ==
    /\ Rank(winner.phase) >= Rank(TargetPhase(o))
    /\ TargetPhase(o) \in Terminal => winner.phase = TargetPhase(o)
    /\ Matches(winner.seals, update[o])

\* The state _append writes: the state it read with the new seals.
NextState(o) ==
    [phase |-> TargetPhase(o),
     seals |-> [f \in SealNames |->
                   IF update[o][f] = Nothing THEN seen[o].seals[f] ELSE update[o][f]]]

\* Operator o forgets its call.  Exiting releases nothing: there is no lock.
Exit(o) ==
    /\ pc' = [pc EXCEPT ![o] = "idle"]
    /\ call' = [call EXCEPT ![o] = NoCall]
    /\ stage' = [stage EXCEPT ![o] = "first"]
    /\ seen' = [seen EXCEPT ![o] = Unread]
    /\ update' = [update EXCEPT ![o] = NoSeals]

\* The method raises.
Raise(o) == Exit(o) /\ UNCHANGED acks

\* The method returns a state that holds the seals the caller asked for.
Return(o, seals) == Exit(o) /\ acks' = acks \cup {seals}

Goto(o, step) == pc' = [pc EXCEPT ![o] = step]
Resume(o, which) == Goto(o, "list") /\ stage' = [stage EXCEPT ![o] = which]

-----------------------------------------------------------------------------
(* Starting a method.                                                      *)

\* begin, before and after the execution directory exists.
StartBegin(o, m) ==
    /\ pc[o] = "idle"
    /\ call' = [call EXCEPT ![o] = [method |-> "begin", arg |-> m]]
    /\ update' = [update EXCEPT ![o].manifest = m]
    /\ Goto(o, IF revisions = <<>> THEN "rename" ELSE "list")
    /\ UNCHANGED <<store, handoff, stage, seen, acks, crashes>>

\* The other methods, which begin by resume().
StartMethod(o, method, j) ==
    /\ pc[o] = "idle" /\ revisions # <<>>
    /\ call' = [call EXCEPT ![o] = [method |-> method, arg |-> j]]
    /\ Goto(o, "list")
    /\ UNCHANGED <<store, handoff, stage, seen, update, acks, crashes>>

\* begin: rename the complete private directory to its name.  A directory that
\* is there already (ENOTEMPTY) is kept and the private one removed.
RenameDirectory(o) ==
    /\ pc[o] = "rename"
    /\ revisions' = IF revisions = <<>> THEN <<Begun(call[o].arg)>> ELSE revisions
    /\ Goto(o, "list")
    /\ UNCHANGED <<trusted, litter, topLitter, handoff, local, acks, crashes>>

-----------------------------------------------------------------------------
(* resume().                                                               *)

\* The execution directory holds manifest.json, revisions and receipt.json only.
ListDirectory(o) ==
    /\ pc[o] = "list"
    /\ IF topLitter = {}
       THEN Goto(o, "chain") /\ UNCHANGED <<local, acks>>
       ELSE Raise(o)
    /\ UNCHANGED <<store, handoff, crashes>>

\* A terminal state is only believed with the receipt it seals.
Believable(last) == last.phase \in Terminal => trusted = last.seals.receipt

\* The phases in which a method other than begin gives up.
TooEarly(o, phase) ==
    \/ call[o].method = "draft_instruction" /\ phase # "awaiting_draft"
    \/ call[o].method = "record_draft_ready" /\ phase = "prepare_pending"
    \/ call[o].method = "record_finalized" /\ phase \in {"prepare_pending", "awaiting_draft"}

\* What the method does with the state its own resume() returned.
Proceed(o, state) ==
    CASE call[o].method = "begin" ->
            IF Matches(state.seals, update[o]) THEN Return(o, update[o]) ELSE Raise(o)
      [] TooEarly(o, state.phase) -> Raise(o)
      [] OTHER ->
            /\ seen' = [seen EXCEPT ![o] = [revision |-> Len(revisions) - 1,
                                           phase |-> state.phase, seals |-> state.seals]]
            /\ Goto(o, "request")
            /\ UNCHANGED <<call, stage, update, acks>>

\* The same, or what _append does with the chain it reads again.
AfterResume(o, state) ==
    CASE stage[o] = "reread" -> Return(o, update[o])
      [] stage[o] = "winner" ->
            IF SameLogicalTransition(o, state) THEN Return(o, update[o]) ELSE Raise(o)
      [] OTHER -> Proceed(o, state)

\* Every file of revisions/ is a revision; the last one is the state.
ReadChain(o) ==
    /\ pc[o] = "chain"
    /\ IF litter = {} /\ Believable(Last(revisions))
       THEN AfterResume(o, Last(revisions))
       ELSE Raise(o)
    /\ UNCHANGED <<store, handoff, crashes>>

-----------------------------------------------------------------------------
(* Reading the handoff.                                                    *)

\* record_prepared seals the handoff it is given.
LoadRequest(o) ==
    /\ pc[o] = "request" /\ call[o].method = "record_prepared"
    /\ update' = [update EXCEPT ![o].job = call[o].arg]
    /\ Goto(o, "decide")
    /\ UNCHANGED <<store, handoff, call, stage, seen, acks, crashes>>

\* draft_instruction verifies the bound request and describes the external work.
InstructDraft(o) ==
    /\ pc[o] = "request" /\ call[o].method = "draft_instruction"
    /\ Exit(o)
    /\ UNCHANGED <<store, handoff, acks, crashes>>

\* The others verify the bound request; record_finalized then runs
\* record_draft_ready, which resumes once more, before it reads on.
VerifyBoundRequest(o) ==
    /\ pc[o] = "request"
    /\ call[o].method \in {"record_draft_ready", "record_finalized"}
    /\ IF call[o].method = "record_finalized" /\ stage[o] = "first"
       THEN Resume(o, "again")
       ELSE Goto(o, "drafts") /\ UNCHANGED stage
    /\ UNCHANGED <<store, handoff, call, seen, update, acks, crashes>>

\* record_draft_ready: read drafts.json.  Past awaiting_draft the seal must match.
ReadDrafts(o) ==
    LET file == drafts[seen[o].seals.job] IN
    /\ pc[o] = "drafts"
    /\ \/ file = Nothing /\ Raise(o)
       \/ /\ file # Nothing /\ call[o].method = "record_draft_ready"
          /\ update' = [update EXCEPT ![o].drafts = file]
          /\ Goto(o, "decide")
          /\ UNCHANGED <<call, stage, seen, acks>>
       \/ /\ file # Nothing /\ call[o].method # "record_draft_ready"
          /\ IF seen[o].seals.drafts = file
             THEN Goto(o, "receipt") /\ UNCHANGED <<local, acks>>
             ELSE Raise(o)
    /\ UNCHANGED <<store, handoff, crashes>>

\* record_finalized: the receipt must carry the seals of the state.
ReadReceipt(o) ==
    LET file == receipt[seen[o].seals.job] IN
    /\ pc[o] = "receipt"
    /\ IF file # Nothing /\ file.drafts = seen[o].seals.drafts
       THEN /\ update' = [update EXCEPT ![o].receipt = file]
            /\ Goto(o, "copy_stage")
            /\ UNCHANGED <<call, stage, seen, acks>>
       ELSE Raise(o)
    /\ UNCHANGED <<store, handoff, crashes>>

-----------------------------------------------------------------------------
(* _write_or_verify_exact: the trusted receipt.                            *)

\* mkstemp and write.
StageCopy(o) ==
    /\ pc[o] = "copy_stage"
    /\ topLitter' = topLitter \cup {o}
    /\ Goto(o, "copy_link")
    /\ UNCHANGED <<revisions, trusted, litter, handoff, local, acks, crashes>>

\* os.link: the first receipt stays.
LinkCopy(o) ==
    /\ pc[o] = "copy_link"
    /\ IF trusted = Nothing
       THEN trusted' = update[o].receipt /\ Goto(o, "copy_won")
       ELSE Goto(o, "copy_lost") /\ UNCHANGED trusted
    /\ UNCHANGED <<revisions, litter, topLitter, handoff, local, acks, crashes>>

UnlinkCopyTrusting(o) ==
    /\ pc[o] \in {"copy_won", "copy_lost"}
    /\ topLitter' = topLitter \ {o}
    /\ Goto(o, "decide") /\ UNCHANGED <<local, acks>>
    /\ UNCHANGED <<revisions, trusted, litter, handoff, crashes>>

\* Remove the temporary file; an existing receipt must be the same bytes.
UnlinkCopy(o) ==
    /\ pc[o] \in {"copy_won", "copy_lost"}
    /\ topLitter' = topLitter \ {o}
    /\ IF pc[o] = "copy_lost" /\ trusted # update[o].receipt
       THEN Raise(o)
       ELSE Goto(o, "decide") /\ UNCHANGED <<local, acks>>
    /\ UNCHANGED <<revisions, trusted, litter, handoff, crashes>>

-----------------------------------------------------------------------------
(* _append.                                                                *)

\* The phase each method may still append from.
Pending(o) ==
    CASE call[o].method = "record_prepared" -> seen[o].phase = "prepare_pending"
      [] call[o].method = "record_draft_ready" -> seen[o].phase = "awaiting_draft"
      [] OTHER -> seen[o].phase \notin Terminal

\* A method called again only verifies what is recorded.
Decide(o) ==
    /\ pc[o] = "decide"
    /\ CASE Pending(o) -> Goto(o, "append_stage") /\ UNCHANGED <<local, acks>>
          [] ~Pending(o) /\ Matches(seen[o].seals, update[o])
                /\ Believable([phase |-> seen[o].phase, seals |-> seen[o].seals]) ->
                Return(o, update[o])
          [] OTHER -> Raise(o)
    /\ UNCHANGED <<store, handoff, crashes>>

\* The operator's clock reads earlier than the state's updated_at.
ClockWentBack(o) ==
    /\ pc[o] = "append_stage"
    /\ Raise(o)
    /\ UNCHANGED <<store, handoff, crashes>>

\* mkstemp and write, in revisions/ itself.
StageRevision(o) ==
    /\ pc[o] = "append_stage"
    /\ litter' = litter \cup {o}
    /\ Goto(o, "append_link")
    /\ UNCHANGED <<revisions, trusted, topLitter, handoff, local, acks, crashes>>

\* os.link under the name of the revision after the one that was read.
LinkRevision(o) ==
    /\ pc[o] = "append_link"
    /\ IF Len(revisions) = seen[o].revision + 1
       THEN revisions' = Append(revisions, NextState(o)) /\ Goto(o, "append_won")
       ELSE Goto(o, "append_lost") /\ UNCHANGED revisions
    /\ UNCHANGED <<trusted, litter, topLitter, handoff, local, acks, crashes>>

UnlinkRevisionOfWinner(o) ==
    /\ pc[o] \in {"append_won", "append_lost"}
    /\ litter' = IF pc[o] = "append_won" THEN litter \ {o} ELSE litter
    /\ Resume(o, IF pc[o] = "append_won" THEN "reread" ELSE "winner")
    /\ UNCHANGED <<revisions, trusted, topLitter, handoff, call, seen, update, acks, crashes>>

\* Remove the temporary file, then read the chain again.
UnlinkRevision(o) ==
    /\ pc[o] \in {"append_won", "append_lost"}
    /\ litter' = litter \ {o}
    /\ Resume(o, IF pc[o] = "append_won" THEN "reread" ELSE "winner")
    /\ UNCHANGED <<revisions, trusted, topLitter, handoff, call, seen, update, acks, crashes>>

-----------------------------------------------------------------------------
(* Failures and the handoff outside the store.                             *)

\* The link fails for another reason (a full disk): the temporary file is
\* removed and the error raised.
PublishFails(o) ==
    /\ pc[o] \in {"copy_link", "append_link"}
    /\ litter' = litter \ {o} /\ topLitter' = topLitter \ {o}
    /\ Raise(o)
    /\ UNCHANGED <<revisions, trusted, handoff, crashes>>

\* An operator process is killed; its temporary file stays.  No method gets past
\* resume() while it is there, so the name o is not used for another one.
Crash(o) ==
    /\ pc[o] # "idle" /\ crashes < MaxCrashes
    /\ crashes' = crashes + 1
    /\ Raise(o)
    /\ UNCHANGED <<store, handoff>>

\* External: the draft writer writes drafts.json, before or after a seal.
WriteDrafts(j, d) ==
    /\ drafts' = [drafts EXCEPT ![j] = d]
    /\ UNCHANGED <<store, receipt, pc, local, acks, crashes>>

\* External: finalize publishes the receipt of the drafts it read.
PublishReceipt(j, status) ==
    /\ drafts[j] # Nothing /\ receipt[j] = Nothing
    /\ receipt' = [receipt EXCEPT ![j] = [status |-> status, job |-> j, drafts |-> drafts[j]]]
    /\ UNCHANGED <<store, drafts, pc, local, acks, crashes>>

\* External: retry archives a failed attempt's drafts and receipt.
RetryHandoff(j) ==
    /\ receipt[j] # Nothing /\ receipt[j].status = "failed"
    /\ drafts' = [drafts EXCEPT ![j] = Nothing]
    /\ receipt' = [receipt EXCEPT ![j] = Nothing]
    /\ UNCHANGED <<store, pc, local, acks, crashes>>

\* An operator calls a method, for one of the manifests ms or the jobs js.
Call(o, ms, js) ==
    \/ \E m \in ms : StartBegin(o, m)
    \/ \E j \in js : StartMethod(o, "record_prepared", j)
    \/ \E method \in Methods \ {"begin", "record_prepared"} :
          StartMethod(o, method, Nothing)

Step(o) ==
    \/ RenameDirectory(o)
    \/ ListDirectory(o) \/ ReadChain(o)
    \/ LoadRequest(o) \/ InstructDraft(o) \/ VerifyBoundRequest(o)
    \/ ReadDrafts(o) \/ ReadReceipt(o)
    \/ StageCopy(o) \/ LinkCopy(o) \/ UnlinkCopy(o)
    \/ Decide(o) \/ ClockWentBack(o)
    \/ StageRevision(o) \/ LinkRevision(o) \/ UnlinkRevision(o)
    \/ PublishFails(o) \/ Crash(o)

Outside(j) ==
    \/ \E d \in Drafts : WriteDrafts(j, d)
    \/ \E status \in Terminal : PublishReceipt(j, status)
    \/ RetryHandoff(j)

Next ==
    \/ \E o \in Operators : Call(o, Manifests, Jobs) \/ Step(o)
    \/ \E j \in Jobs : Outside(j)

Spec == Init /\ [][Next]_vars

-----------------------------------------------------------------------------
(* Properties.                                                             *)

\* ChainVerifies: the chain on disk always passes _verify_state_revision: it
\* starts at prepare_pending, every revision follows its predecessor's phase and
\* keeps every seal already set, whichever operators raced to write it.
Follows == {<<"prepare_pending", "awaiting_draft">>, <<"awaiting_draft", "finalize_pending">>,
            <<"finalize_pending", "completed">>, <<"finalize_pending", "failed">>}
ChainVerifies ==
    /\ revisions # <<>> => revisions[1].phase = "prepare_pending"
    /\ \A i \in 1..(Len(revisions) - 1) :
        /\ <<revisions[i].phase, revisions[i + 1].phase>> \in Follows
        /\ Matches(revisions[i + 1].seals, revisions[i].seals)

\* AcknowledgedIsRecorded: once a method has returned to some operator, what that
\* operator asked for is in the chain for good, so two operators are never told
\* that two different handoffs, drafts or receipts were accepted.
AcknowledgedIsRecorded ==
    \A a \in acks : revisions # <<>> /\ Matches(Last(revisions).seals, a)

\* TerminalReceiptTrusted: a terminal revision exists only together with the trusted
\* receipt it seals, and that receipt is about the drafts and the job of the chain,
\* although copy and revision are two file operations and operators race on both.
TerminalReceiptTrusted ==
    revisions # <<>> /\ Last(revisions).phase \in Terminal =>
        LET last == Last(revisions) IN
        /\ trusted = last.seals.receipt
        /\ trusted.status = last.phase
        /\ trusted.job = last.seals.job
        /\ trusted.drafts = last.seals.drafts

\* The chain on disk passes verification with every terminal revision's receipt
\* beside it, whichever operators raced (_verify_state_revision, verify).
ChainTrusted == ChainVerifies /\ TerminalReceiptTrusted

\* ResumableWhenQuiet: with no operator inside a method and none ever killed,
\* resume() accepts the execution directory, whatever publications failed
\* (test_failed_revision_publish_leaves_execution_resumable).
ResumableWhenQuiet ==
    (crashes = 0 /\ revisions # <<>> /\ \A o \in Operators : pc[o] = "idle") =>
        /\ litter = {} /\ topLitter = {}
        /\ Believable(Last(revisions))
=============================================================================
