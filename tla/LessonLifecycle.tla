--------------------------- MODULE LessonLifecycle ---------------------------
(***************************************************************************)
(* The lifecycle of the lessons of one recurrence cluster                  *)
(* (backend/app/services/lesson_lifecycle.py): candidates proposed by      *)
(* reflections, replay batches, human approval with supersession, due      *)
(* revalidations, and the audit that recomputes it all.                    *)
(*                                                                         *)
(* An operator command (scripts/lesson_lifecycle.py) is one ORM session    *)
(* without autoflush on SQLite: its reads are separate statements outside  *)
(* any transaction, its writes one transaction at the end.  A step is one  *)
(* read or that final transaction, which writes the columns the session    *)
(* changed with the values it computed from the rows it had read.          *)
(*                                                                         *)
(* A replay observation is its target date; the frozen outcome and the     *)
(* lesson's deterministic transform make each date an improvement          *)
(* (GoodDates) or a regression.  Hashes are the values they are taken of:  *)
(* replay_set_hash is the set of dates.                                    *)
(***************************************************************************)
EXTENDS Naturals, Sequences, FiniteSets

CONSTANTS Lessons,      \* lesson proposals of the cluster
          Checklists,   \* those that are an extreme event's checklist
          Operators,    \* operator commands that may overlap
          Dates,        \* target dates with a frozen outcome
          GoodDates,    \* those on which the candidate rule scores better
          Nothing,      \* NULL
          MinDates,     \* MIN_REPLAY_TARGET_DATES
          DueDates,     \* LESSON_REVALIDATION_EPISODES
          Month,        \* a calendar month
          Backdating,   \* operators may pass --recorded-at
          MaxClock      \* bound: commands

ASSUME LessonConfiguration ==
    /\ Checklists \subseteq Lessons /\ GoodDates \subseteq Dates
    /\ Nothing \notin Lessons /\ IsFiniteSet(Dates)
    /\ {MinDates, DueDates, Month} \subseteq Nat \ {0}
    /\ Backdating \in BOOLEAN /\ MaxClock \in Nat

VARIABLES
    row,      \* lesson_proposals
    batches,  \* batches[l]: lesson_replay_batches in insertion order
    events,   \* events[l]: lesson_lifecycle_events by sequence_number
    mature,   \* enough shadow target dates and independent episodes
    clock,    \* time of the last command
    tx        \* tx[o]: the session of operator o

vars == <<row, batches, events, mature, clock, tx>>
db == <<row, batches, events>>

Status == {"absent", "candidate", "active", "challenged", "retired", "superseded"}
Heads == {"active", "challenged"}
EventTypes == {"replay_recorded", "approved", "revalidated", "challenged", "retired",
               "superseded"}

\* The replay_metrics column, one JSON value, as far as the code reads it.
Metrics == [agg : SUBSET Dates, ready : BOOLEAN, failures : Nat,
            lastAt : Nat, lastDates : Nat, lastAgg : SUBSET Dates,
            successor : Lessons \cup {Nothing}]
Row == [status : Status, dates : Nat, supersedes : Lessons \cup {Nothing}, metrics : Metrics]
NoMetrics == [agg |-> {}, ready |-> FALSE, failures |-> 0, lastAt |-> 0, lastDates |-> 0,
              lastAgg |-> {}, successor |-> Nothing]
NoRow == [status |-> "absent", dates |-> 0, supersedes |-> Nothing, metrics |-> NoMetrics]
Batch == [at : Nat, obs : SUBSET Dates, agg : SUBSET Dates]
Event == [type : EventTypes, from : Status, to : Status]

Commands == {"none", "replay", "approve", "revalidate"}
Session == [step : {"idle", "batches", "heads", "sequence", "commit"}, command : Commands,
            lesson : Lessons \cup {Nothing}, at : Nat, snap : Row, obs : SUBSET Dates,
            agg : SUBSET Dates, head : Lessons \cup {Nothing}, headSnap : Row,
            passed : BOOLEAN, sequence : Nat]
Closed == [step |-> "idle", command |-> "none", lesson |-> Nothing, at |-> 0, snap |-> NoRow,
           obs |-> {}, agg |-> {}, head |-> Nothing, headSnap |-> NoRow, passed |-> FALSE,
           sequence |-> 0]

TypeOK ==
    /\ row \in [Lessons -> Row]
    /\ batches \in [Lessons -> Seq(Batch)]
    /\ events \in [Lessons -> Seq(Event)]
    /\ mature \in BOOLEAN
    /\ clock \in 0..MaxClock
    /\ tx \in [Operators -> Session]

Init ==
    /\ row = [l \in Lessons |-> NoRow]
    /\ batches = [l \in Lessons |-> <<>>]
    /\ events = [l \in Lessons |-> <<>>]
    /\ mature = FALSE
    /\ clock = 0
    /\ tx = [o \in Operators |-> Closed]

-----------------------------------------------------------------------------
(* Policy.                                                                 *)

\* compute_replay_metrics: average Brier, calibration and subgroups improve.
Improves(agg) == Cardinality(agg \cap GoodDates) > Cardinality(agg \ GoodDates)

\* assess_lesson_policy: no blocker.
Ready(l, dates, agg) ==
    /\ mature
    /\ l \in Checklists \/ (dates >= MinDates /\ Improves(agg))

\* lesson_revalidation_due_reasons: a month or enough new dates since the last
\* validation.  The 60-session reason implies the 20-date one.
Due(r, at) ==
    \/ at >= r.metrics.lastAt + Month
    \/ r.dates >= r.metrics.lastDates + DueDates

FreshReplayAny(r) == TRUE

\* Evidence that the last validation had not seen.
FreshReplay(r) == r.dates > r.metrics.lastDates /\ r.metrics.agg # r.metrics.lastAgg

\* The verdict of a revalidation.
Passes(l, r, valid) ==
    IF l \in Checklists THEN valid
    ELSE Ready(l, Cardinality(r.metrics.agg), r.metrics.agg) /\ FreshReplay(r)

\* The status a revalidation projects.
NextStatus(r, passed) ==
    IF passed THEN "active"
    ELSE IF r.status = "challenged" \/ r.metrics.failures + 1 >= 2 THEN "retired"
    ELSE "challenged"

EligibleByBatch(l, r) == l \in Checklists \/ batches[l] # <<>>

\* _validate_activation_eligibility, against the projection the row holds.
Eligible(l, r) ==
    /\ r.metrics.ready
    /\ l \in Checklists
       \/ (batches[l] # <<>> /\ r.dates >= MinDates /\ Improves(r.metrics.agg))

-----------------------------------------------------------------------------
(* Reflections propose candidates; market time goes on.                    *)

\* _persist_findings_and_lessons: a candidate inherits the cluster's replay dates.
\* An ordinary lesson's first batch replaces its assessment before an approval can
\* depend on it, so only a checklist's is kept.
Propose(l) ==
    /\ row[l].status = "absent"
    /\ \E inherited \in {row[k].dates : k \in Lessons} :
        /\ \A k \in Lessons : row[k].dates <= inherited
        /\ row' = [row EXCEPT ![l] =
                      [status |-> "candidate", dates |-> inherited, supersedes |-> Nothing,
                       metrics |-> [NoMetrics EXCEPT !.ready = (mature /\ l \in Checklists)]]]
    /\ UNCHANGED <<batches, events, mature, clock, tx>>

\* External: shadow target dates and independent episodes reach their minimum.
Mature ==
    /\ ~mature /\ mature' = TRUE
    /\ UNCHANGED <<db, clock, tx>>

-----------------------------------------------------------------------------
(* Commands: the reads.                                                    *)

\* The time a command records: now, or what the operator passes.
Times == IF Backdating THEN 1..(clock + 1) ELSE {clock + 1}

Open(o, session) ==
    /\ tx[o].step = "idle" /\ clock < MaxClock
    /\ tx' = [tx EXCEPT ![o] = session]
    /\ clock' = clock + 1
    /\ UNCHANGED <<db, mature>>

\* record_lesson_replay: session.get and the frozen outcomes of the bundle.
LoadReplay(o, l, obs, at) ==
    /\ row[l].status \in {"candidate", "active", "challenged"}
    /\ Open(o, [Closed EXCEPT !.step = "batches", !.command = "replay", !.lesson = l,
                              !.at = at, !.snap = row[l], !.obs = obs])

\* approve_lesson: an eligible candidate.
LoadApprove(o, l, at) ==
    /\ row[l].status = "candidate" /\ Eligible(l, row[l])
    /\ Open(o, [Closed EXCEPT !.step = "heads", !.command = "approve", !.lesson = l,
                              !.at = at, !.snap = row[l]])

\* revalidate_lesson: a head that is due.
LoadRevalidate(o, l, valid, at) ==
    /\ row[l].status \in Heads /\ Due(row[l], at)
    /\ Open(o, [Closed EXCEPT !.step = "sequence", !.command = "revalidate", !.lesson = l,
                              !.at = at, !.snap = row[l],
                              !.passed = Passes(l, row[l], valid)])

Recorded(l) == UNION {batches[l][i].obs : i \in DOMAIN batches[l]}

\* The batches recorded so far must not hold one of the dates.
ReadBatches(o) ==
    /\ tx[o].step = "batches"
    /\ tx' = IF tx[o].obs \cap Recorded(tx[o].lesson) # {}
             THEN [tx EXCEPT ![o] = Closed]
             ELSE [tx EXCEPT ![o].step = "commit",
                             ![o].agg = tx[o].obs \cup Recorded(tx[o].lesson)]
    /\ UNCHANGED <<db, mature, clock>>

HeadsOf(l) == {h \in Lessons \ {l} : row[h].status \in Heads}

\* The active head, which the approval must name with --supersedes; an operator who
\* names another one is refused and nothing changes.
ReadHeads(o) ==
    /\ tx[o].step = "heads"
    /\ \/ /\ HeadsOf(tx[o].lesson) = {}
          /\ tx' = [tx EXCEPT ![o].step = "sequence"]
       \/ \E h \in HeadsOf(tx[o].lesson) :
          /\ HeadsOf(tx[o].lesson) = {h}
          /\ tx' = [tx EXCEPT ![o].step = "sequence", ![o].head = h, ![o].headSnap = row[h]]
    /\ UNCHANGED <<db, mature, clock>>

\* _append_event reads max(sequence_number) before it flushes.
ReadSequence(o) ==
    /\ tx[o].step = "sequence"
    /\ tx' = [tx EXCEPT ![o].step = "commit", ![o].sequence = Len(events[tx[o].lesson])]
    /\ UNCHANGED <<db, mature, clock>>

-----------------------------------------------------------------------------
(* Commands: the transaction.                                              *)

EventOf(type, from, to) == [type |-> type, from |-> from, to |-> to]
Close(o) == tx' = [tx EXCEPT ![o] = Closed] /\ UNCHANGED <<mature, clock>>

\* The batch, its event and the projection.  The flush of the batch takes the write
\* lock before the sequence number is read.  The same content twice is refused.
CommitReplay(o) ==
    LET t == tx[o]
        l == t.lesson
        metrics == [t.snap.metrics EXCEPT
                       !.agg = t.agg, !.ready = Ready(l, Cardinality(t.agg), t.agg)] IN
    /\ t.step = "commit" /\ t.command = "replay"
    /\ IF \E i \in DOMAIN batches[l] : batches[l][i].obs = t.obs
       THEN UNCHANGED db
       ELSE /\ row' = [row EXCEPT ![l].dates = Cardinality(t.agg), ![l].metrics = metrics]
            /\ batches' = [batches EXCEPT ![l] =
                              Append(@, [at |-> t.at, obs |-> t.obs, agg |-> t.agg])]
            /\ events' = [events EXCEPT ![l] =
                              Append(@, EventOf("replay_recorded", t.snap.status, t.snap.status))]
    /\ Close(o)

\* uq_lesson_lifecycle_event_sequence: another command has used the number.
SequenceTaken(t) == Len(events[t.lesson]) # t.sequence

\* uq_lesson_active_cluster_head.
HeadIndex(rows) == Cardinality({l \in Lessons : rows[l].status \in Heads}) <= 1

\* approve_lesson: activate the lesson, supersede the head, one event for each.
CommitApprove(o) ==
    LET t == tx[o]
        l == t.lesson
        h == t.head
        activated == [status |-> "active", dates |-> row[l].dates, supersedes |-> h,
                      metrics |-> [t.snap.metrics EXCEPT
                          !.lastAt = t.at, !.lastDates = t.snap.dates,
                          !.lastAgg = t.snap.metrics.agg, !.failures = 0]]
        superseded == [row[h] EXCEPT !.status = "superseded",
                                     !.metrics = [t.headSnap.metrics EXCEPT !.successor = l]]
        rows == IF h = Nothing THEN [row EXCEPT ![l] = activated]
                ELSE [row EXCEPT ![l] = activated, ![h] = superseded]
        approved == [events EXCEPT ![l] = Append(@, EventOf("approved", "candidate", "active"))] IN
    /\ t.step = "commit" /\ t.command = "approve"
    /\ IF SequenceTaken(t) \/ ~HeadIndex(rows)
       THEN UNCHANGED db
       ELSE /\ row' = rows
            /\ events' = IF h = Nothing THEN approved
                         ELSE [approved EXCEPT ![h] =
                                 Append(@, EventOf("superseded", t.headSnap.status, "superseded"))]
            /\ UNCHANGED batches
    /\ Close(o)

\* revalidate_lesson: the new status, when it differs from the one read, and the
\* projection computed from the row read.
CommitRevalidate(o) ==
    LET t == tx[o]
        l == t.lesson
        next == NextStatus(t.snap, t.passed)
        metrics == [t.snap.metrics EXCEPT
                       !.ready = IF l \in Checklists THEN @ ELSE t.passed,
                       !.lastAt = t.at, !.lastDates = t.snap.dates,
                       !.lastAgg = t.snap.metrics.agg,
                       !.failures = IF t.passed THEN 0 ELSE @ + 1]
        rows == [row EXCEPT
                    ![l].status = IF next = t.snap.status THEN @ ELSE next,
                    ![l].metrics = metrics] IN
    /\ t.step = "commit" /\ t.command = "revalidate"
    /\ IF SequenceTaken(t) \/ ~HeadIndex(rows)
       THEN UNCHANGED db
       ELSE /\ row' = rows
            /\ events' = [events EXCEPT ![l] = Append(@,
                   EventOf(IF t.passed THEN "revalidated" ELSE next, t.snap.status, next))]
            /\ UNCHANGED batches
    /\ Close(o)

\* The process is killed: the transaction is rolled back.
Crash(o) ==
    /\ tx[o].step # "idle"
    /\ Close(o)
    /\ UNCHANGED db

Next ==
    \/ \E l \in Lessons : Propose(l)
    \/ Mature
    \/ \E o \in Operators :
        \/ \E l \in Lessons, at \in Times :
            \/ \E obs \in (SUBSET Dates) \ {{}} : LoadReplay(o, l, obs, at)
            \/ LoadApprove(o, l, at)
            \/ \E valid \in BOOLEAN : LoadRevalidate(o, l, valid, at)
        \/ ReadBatches(o) \/ ReadHeads(o) \/ ReadSequence(o)
        \/ CommitReplay(o) \/ CommitApprove(o) \/ CommitRevalidate(o)
        \/ Crash(o)

Spec == Init /\ [][Next]_vars

\* Commands that take turns: one starts when no other one is running.
TakeTurns == \A o, q \in Operators : tx[o].step # "idle" /\ tx[q].step # "idle" => o = q
InTurnSpec == Init /\ [][Next /\ TakeTurns']_vars

-----------------------------------------------------------------------------
(* verify_lesson_audit.                                                    *)

\* Batches in the order of the audit's query: created_at, then id.
Before(l, i, j) ==
    LET b == batches[l] IN b[i].at < b[j].at \/ (b[i].at = b[j].at /\ i <= j)

\* No date counted twice; every aggregate is the union of the batches up to it;
\* the row projects the last one.
BatchesVerify(l) ==
    LET b == batches[l] IN
    /\ \A i, j \in DOMAIN b : i # j => b[i].obs \cap b[j].obs = {}
    /\ \A j \in DOMAIN b : b[j].agg = UNION {b[i].obs : i \in {k \in DOMAIN b : Before(l, k, j)}}
    /\ \A j \in DOMAIN b : (\A i \in DOMAIN b : Before(l, i, j)) =>
           row[l].metrics.agg = b[j].agg /\ row[l].dates = Cardinality(b[j].agg)
    /\ b = <<>> /\ row[l].status \notin {"absent", "candidate"} => l \in Checklists

\* _validate_event_transition.
Allowed == [replay_recorded |-> {<<s, s>> : s \in {"candidate", "active", "challenged"}},
            approved |-> {<<"candidate", "active">>},
            revalidated |-> {<<"active", "active">>, <<"challenged", "active">>},
            challenged |-> {<<"active", "challenged">>},
            retired |-> {<<"challenged", "retired">>},
            superseded |-> {<<s, "superseded">> : s \in Heads}]

\* The events lead from candidate to the row's status, one replay event per batch.
EventsVerify(l) ==
    LET e == events[l] IN
    /\ \A i \in DOMAIN e :
        /\ <<e[i].from, e[i].to>> \in Allowed[e[i].type]
        /\ e[i].from = IF i = 1 THEN "candidate" ELSE e[i - 1].to
    /\ row[l].status = IF e = <<>> THEN "candidate" ELSE e[Len(e)].to
    /\ Cardinality({i \in DOMAIN e : e[i].type = "replay_recorded"}) = Len(batches[l])

\* _verify_lineage: predecessor and successor point at each other.
LineageVerifies(l) ==
    LET p == row[l].supersedes
        s == row[l].metrics.successor IN
    /\ p # Nothing => row[p].status = "superseded" /\ row[p].metrics.successor = l
    /\ row[l].status = "superseded" => s # Nothing /\ row[s].supersedes = l

-----------------------------------------------------------------------------
(* Properties.                                                             *)

\* AuditVerifies: whatever the commands did, verify_lesson_audit accepts every lesson:
\* it rejects tampering only, never the records of the code itself.
AuditVerifies ==
    \A l \in Lessons : row[l].status # "absent" =>
        BatchesVerify(l) /\ EventsVerify(l) /\ LineageVerifies(l)

\* OneHead: the cluster has at most one lesson in force, however approvals and
\* revalidations interleave.
OneHead == Cardinality({l \in Lessons : row[l].status \in Heads}) <= 1

\* EarnedByReplay: an ordinary lesson in force has passed its last validation on
\* at least MinDates dates that it improves on, or is challenged since.
EarnedByReplay ==
    \A l \in Lessons \ Checklists : row[l].status = "active" =>
        /\ Cardinality(row[l].metrics.lastAgg) >= MinDates
        /\ Improves(row[l].metrics.lastAgg)

\* A step that confirms an ordinary lesson does so only on dates that the previous
\* validation had not seen.
ConfirmsAfresh ==
    \A l \in Lessons \ Checklists :
        (Len(events'[l]) > Len(events[l]) /\ events'[l][Len(events'[l])].type = "revalidated")
            => Cardinality(row'[l].metrics.lastAgg) > Cardinality(row[l].metrics.lastAgg)

\* No command puts a retired or superseded lesson back in force; _validate_event_transition
\* allows no event from either.  No run checks it: of two revalidations that overlap, the
\* later writes over the earlier one's retirement, so TLC refutes it.
RetiredStaysRetired ==
    [][\A l \in Lessons : row[l].status \in {"retired", "superseded"} =>
          row'[l].status = row[l].status]_vars
=============================================================================
