--------------------------- MODULE OutcomeScoring ---------------------------
(***************************************************************************)
(* How an outcome meets the forecasts it settles, for ONE target session   *)
(* and horizon.  Users seal their own judgments on a forecast before the   *)
(* session opens (services/user_judgment.py, with one Markdown page per    *)
(* judgment); operators evaluate the matured forecasts from closing prices *)
(* (services/evaluation.py, through POST /evaluations/run or the snapshot  *)
(* import of services/market_outcome.py); and preparing a reflection turns *)
(* the evaluated forecasts into an evaluation batch that scores every      *)
(* eligible judgment (services/reflection.py).                             *)
(*                                                                         *)
(* No lock is shared: what keeps the tables right is the order in which    *)
(* the rows are read, the unique constraints, and the clock.  SQLite takes *)
(* its write lock at the first flush of a transaction, so what is read     *)
(* before that flush may be stale at the commit, and what follows it is    *)
(* one step.                                                               *)
(*                                                                         *)
(* A price stands for the close, its source and its source's digest; the   *)
(* base close of the window is folded into it.  A page is its judgment's   *)
(* id, since its path carries that id and its bytes are the row's.         *)
(***************************************************************************)
EXTENDS Integers, FiniteSets

CONSTANTS
  Forecasts,        \* the forecasts that share the target session and horizon
  RunOf,            \* RunOf[f]: the workflow run that made forecast f
  IndexOf,          \* IndexOf[f]: the index it is about
  LiveRuns,         \* the runs with mode "live"; the others are "demo"
  Actors,           \* values of VERICOUNCIL_USER_JUDGMENT_ACTOR_ID
  Requests,         \* bodies of a judgment request
  Up,               \* Up[q]: request q predicts "up" (otherwise "down")
  Blind,            \* the requests with blind_attestation
  Bundles,          \* sealed market snapshots of the session
  Close,            \* Close[b][i]: index i's return in bundle b
  Returns,          \* the returns the closes can give, with 0 among them
  Writers,          \* requests served at the same time
  Operators,        \* evaluation, import and prepare commands at the same time
  MaxJudgments,     \* bound on the judgment ids drawn
  MaxCrashes,       \* bound on killed requests
  Nothing           \* a row or a value that is not there

ASSUME ScoringConfiguration ==
  /\ IsFiniteSet(Forecasts) /\ Forecasts # {}
  /\ LiveRuns \subseteq {RunOf[f] : f \in Forecasts}
  /\ Blind \subseteq Requests
  /\ Up \in [Requests -> BOOLEAN]
  /\ Returns \subseteq Int /\ 0 \in Returns
  /\ Close \in [Bundles -> [{IndexOf[f] : f \in Forecasts} -> Returns]]
  /\ MaxJudgments \in Nat /\ MaxCrashes \in Nat
  /\ Nothing \notin Returns /\ Nothing \notin BOOLEAN

Runs == {RunOf[f] : f \in Forecasts}
Indexes == {IndexOf[f] : f \in Forecasts}
Live(f) == RunOf[f] \in LiveRuns
ForecastsOf(r) == {f \in Forecasts : RunOf[f] = r}
Ids == 1..MaxJudgments

VARIABLES
  phase,        \* the clock: before market open, in session, after maturity
  completed,    \* the runs whose status is "completed"
  judgments,    \* table user_judgments
  pages,        \* the pages of the user wiki, by judgment id
  spec,         \* the User Judgment AgentSpec has its agent_specs row
  drawn,        \* how many judgment ids have been drawn
  evaluation,   \* table evaluation_results: forecast -> return
  price,        \* table price_observations: index -> return
  batches,      \* table evaluation_batches, with its market snapshots
  scores,       \* table user_judgment_evaluations
  writer,       \* the request each writer serves
  oper,         \* the command each operator runs
  crashes,      \* killed requests so far
  answered      \* what requests and prepare commands were told

vars == <<phase, completed, judgments, pages, spec, drawn, evaluation, price,
          batches, scores, writer, oper, crashes, answered>>
judgmentVars == <<judgments, pages, spec, drawn, writer, crashes>>
outcomeVars == <<evaluation, price, batches, scores, oper>>

Judgment == [id: Ids, actor: Actors, forecast: Forecasts, request: Requests,
             eligible: BOOLEAN, late: BOOLEAN]
Batch == [status: {"completed", "blocked_upstream"}, due: SUBSET Forecasts,
          bundle: Bundles \cup {Nothing}]
Score == [judgment: Ids, due: SUBSET Forecasts, return: Returns,
          correct: BOOLEAN \cup {Nothing}]
Writer == [pc: {"idle", "publish", "spec", "commit", "undo", "reread"},
           id: Ids \cup {Nothing}, actor: Actors \cup {Nothing},
           forecast: Forecasts \cup {Nothing},
           request: Requests \cup {Nothing}, seen: BOOLEAN, clash: BOOLEAN]
Oper == [pc: {"idle", "record", "batch"},
         obs: UNION {[S -> Returns] : S \in SUBSET Forecasts},
         first: Forecasts \cup {Nothing}, seen: Returns \cup {Nothing},
         run: Runs \cup {Nothing}, bundle: Bundles \cup {Nothing},
         due: SUBSET Forecasts]

IdleWriter == [pc |-> "idle", id |-> Nothing, actor |-> Nothing,
               forecast |-> Nothing, request |-> Nothing, seen |-> FALSE,
               clash |-> FALSE]
IdleOper == [pc |-> "idle", obs |-> <<>>, first |-> Nothing, seen |-> Nothing,
             run |-> Nothing, bundle |-> Nothing, due |-> {}]

Init ==
  /\ phase = "open"
  /\ completed = {}
  /\ judgments = {} /\ pages = {} /\ spec = FALSE /\ drawn = 0
  /\ evaluation = [f \in Forecasts |-> Nothing]
  /\ price = [i \in Indexes |-> Nothing]
  /\ batches = {} /\ scores = {}
  /\ writer = [w \in Writers |-> IdleWriter]
  /\ oper = [o \in Operators |-> IdleOper]
  /\ crashes = 0
  /\ answered = {}

-----------------------------------------------------------------------------
(* The clock and the committee.                                            *)

\* The session opens at target_date + market_open, and the forecast matures
\* five minutes after its close.  Nothing bounds the time a request takes.
Advance ==
  /\ \/ phase = "open" /\ phase' = "session"
     \/ phase = "session" /\ phase' = "mature"
  /\ UNCHANGED <<completed, judgmentVars, outcomeVars, answered>>

\* A run publishes its forecasts; nothing below touches them before that.
CompleteRun(r) ==
  /\ r \notin completed
  /\ completed' = completed \cup {r}
  /\ UNCHANGED <<phase, judgmentVars, outcomeVars, answered>>

-----------------------------------------------------------------------------
(* Sealing a user judgment.                                                *)

SealedBy(a, f) == {j \in judgments : j.actor = a /\ j.forecast = f}

\* A window that forgets the deadline and the outcome.
WindowOpenLate(f) == RunOf[f] \in completed

\* The submission window of a forecast: a completed run and, in live mode, no
\* outcome and a clock before the deadline.
WindowOpen(f) ==
  /\ RunOf[f] \in completed
  /\ Live(f) => evaluation[f] = Nothing /\ phase = "open"

Tell(a, f, q, what) ==
  answered' = answered \cup
    {[kind |-> what, actor |-> a, forecast |-> f, request |-> q]}

\* A comparison that takes any row for the caller's own.
SameRequestAny(j, q) == TRUE

\* _same_request compares every field of the body.
SameRequest(j, q) == j.request = q

\* An actor who sealed this forecast before gets his row back for the same
\* request (once its page has been verified) and a conflict for another one.
Replay(w, a, f, q) ==
  /\ writer[w].pc = "idle"
  /\ \E j \in SealedBy(a, f) :
       \/ SameRequest(j, q) /\ j.id \in pages /\ Tell(a, f, q, "sealed")
       \/ ~SameRequest(j, q) /\ Tell(a, f, q, "conflict")
  /\ UNCHANGED <<phase, completed, judgmentVars, outcomeVars>>

Submit(w, a, f, q) ==
  /\ writer[w].pc = "idle"
  /\ SealedBy(a, f) = {}
  /\ WindowOpen(f)
  /\ drawn < MaxJudgments
  /\ drawn' = drawn + 1
  /\ writer' = [writer EXCEPT ![w] =
       [pc |-> "publish", id |-> drawn + 1, actor |-> a, forecast |-> f,
        request |-> q, seen |-> FALSE, clash |-> FALSE]]
  /\ UNCHANGED <<phase, completed, judgments, pages, spec, crashes,
                 outcomeVars, answered>>

\* The page is linked into place before the row exists.
PublishPage(w) ==
  /\ writer[w].pc = "publish"
  /\ pages' = pages \cup {writer[w].id}
  /\ writer' = [writer EXCEPT ![w].pc = "spec"]
  /\ UNCHANGED <<phase, completed, judgments, spec, drawn, crashes,
                 outcomeVars, answered>>

\* persist_agent_spec looks for the AgentSpec row and inserts it if missing.
ReadSpec(w) ==
  /\ writer[w].pc = "spec"
  /\ writer' = [writer EXCEPT ![w].pc = "commit", ![w].seen = spec]
  /\ UNCHANGED <<phase, completed, judgments, pages, spec, drawn, crashes,
                 outcomeVars, answered>>

\* uq_user_judgment_actor_forecast, and the primary key of agent_specs.
UniqueRows(s) ==
  /\ SealedBy(s.actor, s.forecast) = {}
  /\ s.seen \/ ~spec

\* The clock and the outcome are not looked at again; "late" only records, for
\* the properties, that the forecast had matured by then.
CommitJudgment(w) ==
  LET s == writer[w]
  IN /\ s.pc = "commit"
     /\ \/ /\ UniqueRows(s)
           /\ judgments' = judgments \cup
                {[id |-> s.id, actor |-> s.actor, forecast |-> s.forecast,
                  request |-> s.request,
                  eligible |-> Live(s.forecast) /\ s.request \in Blind,
                  late |-> phase = "mature"]}
           /\ spec' = TRUE
           /\ writer' = [writer EXCEPT ![w] = IdleWriter]
           /\ Tell(s.actor, s.forecast, s.request, "sealed")
        \/ /\ \/ ~UniqueRows(s)
                 /\ writer' = [writer EXCEPT ![w].pc = "undo", ![w].clash = TRUE]
              \/ writer' = [writer EXCEPT ![w].pc = "undo"]   \* any other error
           /\ UNCHANGED <<judgments, spec, answered>>
     /\ UNCHANGED <<phase, completed, pages, drawn, crashes, outcomeVars>>

RemovePage(w) ==
  /\ writer[w].pc = "undo"
  /\ pages' = pages \ {writer[w].id}
  /\ writer' = [writer EXCEPT ![w] =
       IF writer[w].clash THEN [writer[w] EXCEPT !.pc = "reread"] ELSE IdleWriter]
  /\ UNCHANGED <<phase, completed, judgments, spec, drawn, crashes,
                 outcomeVars, answered>>

\* The loser of a race reads the winner's row: its own request (the page is
\* verified), or a conflict.
Reread(w) ==
  LET s == writer[w]
      mine == {j \in SealedBy(s.actor, s.forecast) : SameRequest(j, s.request)}
  IN /\ s.pc = "reread"
     /\ \/ /\ \E j \in mine : j.id \in pages
           /\ Tell(s.actor, s.forecast, s.request, "sealed")
        \/ /\ mine = {}
           /\ Tell(s.actor, s.forecast, s.request, "conflict")
     /\ writer' = [writer EXCEPT ![w] = IdleWriter]
     /\ UNCHANGED <<phase, completed, judgments, pages, spec, drawn, crashes,
                    outcomeVars>>

Kill(w) ==
  /\ writer[w].pc # "idle" /\ crashes < MaxCrashes
  /\ crashes' = crashes + 1
  /\ writer' = [writer EXCEPT ![w] = IdleWriter]
  /\ UNCHANGED <<phase, completed, judgments, pages, spec, drawn, outcomeVars,
                 answered>>

-----------------------------------------------------------------------------
(* Evaluating the matured forecasts.                                       *)

Due == {f \in Forecasts : Live(f) /\ RunOf[f] \in completed
                          /\ evaluation[f] # Nothing}
Pending == {f \in Forecasts : Live(f) /\ RunOf[f] \in completed}

Mature(f) == Live(f) /\ RunOf[f] \in completed /\ phase = "mature"

\* A price that is not compared with the one recorded.
PriceAgreesAny(i, c) == TRUE

\* The immutable price of an index, as a command carrying close c may use it.
PriceAgrees(i, c) == price[i] \in {Nothing, c}

\* The first forecast of a command is read, with its prices, before the
\* flush that takes the write lock.
BeginRecord(o, obs) ==
  \E f \in DOMAIN obs :
    /\ PriceAgrees(IndexOf[f], obs[f])
    /\ oper' = [oper EXCEPT ![o] =
         [IdleOper EXCEPT !.pc = "record", !.obs = obs, !.first = f,
                          !.seen = price[IndexOf[f]]]]

\* POST /evaluations/run: any forecasts, each with the closes it was sent.
RunEvaluations(o, obs) ==
  /\ oper[o].pc = "idle"
  /\ DOMAIN obs # {}
  /\ \A f \in DOMAIN obs : Mature(f) /\ evaluation[f] = Nothing
  /\ BeginRecord(o, obs)
  /\ UNCHANGED <<phase, completed, judgmentVars, evaluation, price, batches,
                 scores, answered>>

\* The import of a sealed bundle: every pending forecast, the evaluated ones
\* compared with the bundle and left alone.
ImportSnapshot(o, b) ==
  LET open == {f \in Pending : evaluation[f] = Nothing}
  IN /\ oper[o].pc = "idle"
     /\ phase = "mature"
     /\ \A f \in Pending \ open : evaluation[f] = Close[b][IndexOf[f]]
     /\ BeginRecord(o, [f \in open |-> Close[b][IndexOf[f]]])
     /\ UNCHANGED <<phase, completed, judgmentVars, evaluation, price, batches,
                    scores, answered>>

\* The first flush fails if the row or the price it read as missing has
\* appeared; the later observations are read under the write lock.
Recordable(s) ==
  /\ \A f \in DOMAIN s.obs : evaluation[f] = Nothing
  /\ s.seen = Nothing => price[IndexOf[s.first]] = Nothing
  /\ \A f \in DOMAIN s.obs : PriceAgrees(IndexOf[f], s.obs[f])
  /\ \A f, g \in DOMAIN s.obs : IndexOf[f] = IndexOf[g] => s.obs[f] = s.obs[g]

CommitRecord(o) ==
  LET s == oper[o]
  IN /\ s.pc = "record"
     /\ IF Recordable(s)
        THEN /\ evaluation' = [f \in Forecasts |->
                  IF f \in DOMAIN s.obs THEN s.obs[f] ELSE evaluation[f]]
             /\ price' = [i \in Indexes |->
                  IF \E f \in DOMAIN s.obs : IndexOf[f] = i
                  THEN s.obs[CHOOSE f \in DOMAIN s.obs : IndexOf[f] = i]
                  ELSE price[i]]
        ELSE UNCHANGED <<evaluation, price>>
     /\ oper' = [oper EXCEPT ![o] = IdleOper]
     /\ UNCHANGED <<phase, completed, judgmentVars, batches, scores, answered>>

-----------------------------------------------------------------------------
(* Batches: what preparing a reflection makes of the evaluated forecasts.  *)

Completed(D) == {b \in batches : b.status = "completed" /\ b.due = D}

Told(r, D) == answered' = answered \cup {[kind |-> "prepared", run |-> r, due |-> D]}

\* The row that records an upstream block; it shares no identity with the
\* completed batch of the same forecasts.
BlockedRow(D) == [status |-> "blocked_upstream", due |-> D, bundle |-> Nothing]

\* prepare_reflection for run r, every forecast of which must be evaluated.
\* A batch of the same evaluation set is used again if its source is the same;
\* another source is refused, and recorded as a block.
ReadDue(o, r, b) ==
  LET batch == Completed(Due)
  IN /\ oper[o].pc = "idle"
     /\ phase = "mature"
     /\ r \in LiveRuns \cap completed
     /\ ForecastsOf(r) \subseteq Due
     /\ \/ /\ batch = {}
           /\ oper' = [oper EXCEPT ![o] =
                [IdleOper EXCEPT !.pc = "batch", !.run = r, !.bundle = b,
                                 !.due = Due]]
           /\ UNCHANGED <<batches, answered>>
        \/ /\ \E x \in batch : x.bundle = b
           /\ Told(r, Due)
           /\ UNCHANGED <<batches, oper>>
        \/ /\ \E x \in batch : x.bundle # b
           /\ batches' = batches \cup {BlockedRow(Due)}
           /\ UNCHANGED <<oper, answered>>
     /\ UNCHANGED <<phase, completed, judgmentVars, evaluation, price, scores>>

\* The bundle's facts must be the evaluations', and the snapshots it adds (one
\* per forecast) unique in their batch, by index, and in the table, by content.
Materialisable(D, b) ==
  /\ \A f \in D : evaluation[f] = Close[b][IndexOf[f]]
  /\ Completed(D) = {}
  /\ \A f, g \in D : IndexOf[f] = IndexOf[g] => f = g
  /\ \A x \in batches : x.bundle = b =>
       {IndexOf[f] : f \in x.due} \cap {IndexOf[f] : f \in D} = {}

SignCorrect(q, x) == IF x = 0 THEN Nothing ELSE Up[q] = (x > 0)

EligibleOn(D) == {j \in judgments : j.forecast \in D /\ j.eligible}

ScoreOf(j, D) == [judgment |-> j.id, due |-> D, return |-> evaluation[j.forecast],
                  correct |-> SignCorrect(j.request, evaluation[j.forecast])]

\* A judgment scored before must have been scored in this very batch.
Unscored(D) == \A j \in EligibleOn(D), x \in scores : x.judgment # j.id

\* One transaction: batch, snapshots, diagnostics and scores; any exception
\* rolls it back and records a blocked batch for what is due by then.
CommitBatch(o) ==
  LET s == oper[o]
  IN /\ s.pc = "batch"
     /\ IF Materialisable(s.due, s.bundle) /\ Unscored(s.due)
        THEN /\ batches' = batches \cup
                  {[status |-> "completed", due |-> s.due, bundle |-> s.bundle]}
             /\ scores' = scores \cup {ScoreOf(j, s.due) : j \in EligibleOn(s.due)}
             /\ Told(s.run, s.due)
        ELSE /\ batches' = batches \cup {BlockedRow(Due)}
             /\ UNCHANGED <<scores, answered>>
     /\ oper' = [oper EXCEPT ![o] = IdleOper]
     /\ UNCHANGED <<phase, completed, judgmentVars, evaluation, price>>

\* scripts/market_outcome.py block: the operator reports that the upstream
\* has no outcome for the pending forecasts.
RecordBlocked(o) ==
  /\ oper[o].pc = "idle" /\ Pending # {}
  /\ batches' = batches \cup {BlockedRow(Pending)}
  /\ UNCHANGED <<phase, completed, judgmentVars, evaluation, price, scores,
                 oper, answered>>

-----------------------------------------------------------------------------
Observations == UNION {[S -> Returns] : S \in SUBSET Forecasts}

Seal(w) ==
  \/ \E a \in Actors, f \in Forecasts, q \in Requests :
       Submit(w, a, f, q) \/ Replay(w, a, f, q)
  \/ PublishPage(w) \/ ReadSpec(w) \/ CommitJudgment(w)
  \/ RemovePage(w) \/ Reread(w) \/ Kill(w)

Operate(o) ==
  \/ \E obs \in Observations : RunEvaluations(o, obs)
  \/ \E b \in Bundles : ImportSnapshot(o, b)
  \/ CommitRecord(o)
  \/ \E r \in Runs, b \in Bundles : ReadDue(o, r, b)
  \/ CommitBatch(o)
  \/ RecordBlocked(o)

Next ==
  \/ Advance
  \/ \E r \in Runs : CompleteRun(r)
  \/ \E w \in Writers : Seal(w)
  \/ \E o \in Operators : Operate(o)

Spec == Init /\ [][Next]_vars

-----------------------------------------------------------------------------
(* Properties.                                                             *)

TypeOK ==
  /\ phase \in {"open", "session", "mature"}
  /\ completed \subseteq Runs
  /\ judgments \subseteq Judgment
  /\ pages \subseteq Ids
  /\ spec \in BOOLEAN
  /\ drawn \in 0..MaxJudgments
  /\ evaluation \in [Forecasts -> Returns \cup {Nothing}]
  /\ price \in [Indexes -> Returns \cup {Nothing}]
  /\ batches \subseteq Batch
  /\ scores \subseteq Score
  /\ writer \in [Writers -> Writer]
  /\ oper \in [Operators -> Oper]
  /\ crashes \in 0..MaxCrashes

\* A request that was told its judgment is sealed has a row with its own
\* content and a page, for ever, whoever it raced with and whatever was killed
\* (create_user_judgment publishes the page first and only a request whose
\* insert failed removes one), and the row is the actor's only one on the
\* forecast (uq_user_judgment_actor_forecast decides the race).
SealedForGood ==
  /\ \A j \in judgments : j.id \in pages
  /\ \A x \in answered : x.kind = "sealed" =>
       \E j \in judgments :
         SealedBy(x.actor, x.forecast) = {j} /\ j.request = x.request

\* The judgments on live forecasts that exist, are on their way, or were
\* acknowledged.
Claimed ==
  {<<x.actor, x.forecast, x.request>> : x \in
     {j \in judgments : Live(j.forecast)}
     \cup {writer[w] : w \in {u \in Writers :
              writer[u].pc # "idle" /\ Live(writer[u].forecast)}}
     \cup {y \in answered : y.kind = "sealed" /\ Live(y.forecast)}}

\* Once the session has opened, no request that was not already being served
\* becomes a judgment on a live forecast or is told that it is one: not by a new
\* row, not by a replay of an earlier one, not by losing a race to one.  A row may
\* well be committed after the outcome is known, since the window is only checked
\* before its page is published, but what it predicts was asked before
\* (create_user_judgment).
NoHindsight == [][phase # "open" => Claimed' \subseteq Claimed]_vars

\* Forecasts on the same index are settled by one and the same price, whatever
\* commands evaluated them (price_observations is immutable and unique).
OnePricePerIndex ==
  \A f \in Forecasts : evaluation[f] # Nothing => price[IndexOf[f]] = evaluation[f]

\* A completed batch scores every eligible judgment on its forecasts that was
\* committed before they matured (a later one may find its batch completed), and
\* any judgment at most once, against the return of the forecast's own index: a
\* flat close decides nothing, any other close one of the two directions.
BatchScoresAll ==
  /\ \A b \in batches, j \in judgments :
       b.status = "completed" /\ j.forecast \in b.due /\ j.eligible /\ ~j.late =>
         \E x \in scores : x.judgment = j.id /\ x.due = b.due
  /\ \A x \in scores :
       /\ \E b \in batches : b.status = "completed" /\ b.due = x.due
       /\ \E j \in judgments :
            /\ j.id = x.judgment /\ j.forecast \in x.due
            /\ Live(j.forecast) /\ j.request \in Blind
            /\ x.return = price[IndexOf[j.forecast]]
            /\ x.correct = Nothing <=> x.return = 0
            /\ x.correct = TRUE <=>
                 x.return # 0 /\ Up[j.request] = (x.return > 0)
  /\ \A x, y \in scores : x.judgment = y.judgment => x = y

\* A reflection that was prepared rests on a completed batch that holds every
\* forecast of its run, all of them evaluated.
PreparedOnOutcome ==
  \A x \in answered : x.kind = "prepared" =>
    /\ ForecastsOf(x.run) \subseteq x.due
    /\ \E b \in batches : b.status = "completed" /\ b.due = x.due
    /\ \A f \in x.due : evaluation[f] # Nothing

\* One outcome stands behind everything that is scored: forecasts on an index
\* share its price, a prepared reflection rests on a batch of evaluated
\* forecasts, and the batch scores the eligible judgments on them
\* (evaluate_forecast, materialize_evaluation_batch, prepare_reflection).
ScoredOnOneOutcome == OnePricePerIndex /\ PreparedOnOutcome /\ BatchScoresAll

\* Every completed live run whose forecasts are evaluated can be reflected
\* upon: the evaluation set that is due has its batch or can get it from a
\* bundle with the evaluations' closes (materialize_evaluation_batch: "Persist
\* deterministic diagnostics for all matured formal forecasts").
Reflectable ==
  \A r \in LiveRuns \cap completed : ForecastsOf(r) \subseteq Due =>
    \A b \in Bundles :
      (\A f \in Due : evaluation[f] = Close[b][IndexOf[f]]) =>
        Completed(Due) # {} \/ Materialisable(Due, b)
=============================================================================
