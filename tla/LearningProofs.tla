--------------------------- MODULE LearningProofs ---------------------------
(***************************************************************************)
(* Proofs about what the system learns from its outcomes: the believability *)
(* evidence a run is sealed with (Believability) and the lessons of a       *)
(* cluster (LessonLifecycle).                                               *)
(***************************************************************************)
EXTENDS MCLessonLifecycle, FiniteSetTheorems, TLAPS

-----------------------------------------------------------------------------
(* Believability: a past cutoff yields what it yielded.                    *)

Decisions == {"approved", "rejected"}

\* What the tables hold is dated: nothing is from the future, a reflection is
\* completed after its session, and a snapshot is of a day that has passed.
Dated ==
  /\ day \in Nat \ {0}
  /\ reflectedOn \in [Reflections -> 0..day]
  /\ \A r \in Reflections : reflectedOn[r] # 0 => ReflectionDay[r] <= reflectedOn[r]
  /\ DOMAIN reviews = Reflections
  /\ \A s \in seals : s.cutoff \in 1..(day - 1)

EvidenceInv == Dated /\ SealReplays

\* What the snapshot of a cutoff reads of the tables.
SameEvidence(c) ==
  /\ Completions(c)' = Completions(c)
  /\ \A r \in Reflections : ReviewAsOf(r, c)' = ReviewAsOf(r, c)
  /\ AppraisalsBy(c)' = AppraisalsBy(c)

\* build_believability_snapshot depends on nothing else.
LEMMA ViewIsOfEvidence ==
  ASSUME NEW c, SameEvidence(c)
  PROVE  View(c)' = View(c)
  <1>1. CurrentHeads(c)' = CurrentHeads(c)
    BY DEF CurrentHeads, SameEvidence
  <1>2. Performance(c)' = Performance(c)
    BY DEF Performance, SameEvidence
  <1>3. CurrentHeads(c) \subseteq Reflections
    BY DEF CurrentHeads, Completions
  <1>4. ASSUME NEW heads \in SUBSET Reflections
        PROVE  ApprovedCurrent(heads, c)' = ApprovedCurrent(heads, c)
    BY DEF ApprovedCurrent, SameEvidence
  <1>5. ApprovedCurrent(CurrentHeads(c), c)' = ApprovedCurrent(CurrentHeads(c), c)
    BY <1>1, <1>3, <1>4
  <1>6. {<<r, ReviewAsOf(r, c)>> : r \in CurrentHeads(c)}' = {<<r, ReviewAsOf(r, c)>> : r \in CurrentHeads(c)}
    BY <1>1, <1>3 DEF SameEvidence
  <1> QED BY <1>1, <1>2, <1>5, <1>6 DEF View

LEMMA EvidenceKept ==
  ASSUME EvidenceInv, day' \in Nat \ {0}, day <= day', seals' = seals, Dated',
         \A c \in 1..(day - 1) : SameEvidence(c)
  PROVE  EvidenceInv'
  <1>1. ASSUME NEW s \in seals PROVE s.view = View(s.cutoff)'
    <2>1. s.cutoff \in 1..(day - 1) /\ s.view = View(s.cutoff)
      BY DEF EvidenceInv, Dated, SealReplays
    <2> QED BY <2>1, ViewIsOfEvidence
  <1> QED BY <1>1 DEF EvidenceInv, SealReplays

LEMMA EvidenceInitHolds == BelievabilityInit => EvidenceInv
  BY DEF BelievabilityInit, EvidenceInv, Dated, SealReplays

LEMMA AppraiseKeeps ==
  ASSUME EvidenceInv, NEW o \in Opinions, Appraise(o)
  PROVE  EvidenceInv'
  <1>1. UNCHANGED <<day, reflectedOn, reviews, seals>>
    BY DEF Appraise
  <1>2. Dated'
    BY <1>1 DEF EvidenceInv, Dated
  <1>3. ASSUME NEW c \in 1..(day - 1) PROVE SameEvidence(c)
    <2>1. PICK x : x.at = day /\ appraisals' = appraisals \cup {x}
      BY DEF Appraise
    <2>2. ~KnownBy(x.at, c)
      BY <2>1 DEF KnownBy, EvidenceInv, Dated
    <2>3. AppraisalsBy(c)' = AppraisalsBy(c)
      BY <2>1, <2>2 DEF AppraisalsBy
    <2> QED BY <1>1, <2>3 DEF SameEvidence, Completions, ReviewAsOf
  <1> QED BY <1>1, <1>2, <1>3, EvidenceKept DEF EvidenceInv, Dated

LEMMA ReflectKeeps ==
  ASSUME EvidenceInv, NEW r \in Reflections, Reflect(r)
  PROVE  EvidenceInv'
  <1>1. /\ UNCHANGED <<day, appraisals, reviews, seals>>
        /\ reflectedOn[r] = 0 /\ ReflectionDay[r] <= day
        /\ reflectedOn' = [reflectedOn EXCEPT ![r] = day]
    BY DEF Reflect
  <1>2. Dated'
    BY <1>1 DEF EvidenceInv, Dated
  <1>3. ASSUME NEW c \in 1..(day - 1) PROVE SameEvidence(c)
    <2>1. ASSUME NEW q \in Reflections PROVE KnownBy(reflectedOn'[q], c) <=> KnownBy(reflectedOn[q], c)
      BY <1>1 DEF EvidenceInv, Dated, KnownBy
    <2>2. Completions(c)' = Completions(c)
      BY <2>1 DEF Completions
    <2> QED BY <1>1, <2>2 DEF SameEvidence, AppraisalsBy, ReviewAsOf
  <1> QED BY <1>1, <1>2, <1>3, EvidenceKept DEF EvidenceInv, Dated

LEMMA ReviewKeeps ==
  ASSUME EvidenceInv, ~Predating, NEW r \in Reflections, NEW d \in Decisions, NEW at \in 1..MaxDays,
         Review(r, d, at)
  PROVE  EvidenceInv'
  <1>1. /\ UNCHANGED <<day, appraisals, reflectedOn, seals>>
        /\ at = day /\ reviews[r] = Undecided
        /\ reviews' = [reviews EXCEPT ![r] = [decision |-> d, at |-> day]]
    BY DEF Review
  <1>2. Dated'
    BY <1>1 DEF EvidenceInv, Dated
  <1>3. ASSUME NEW c \in 1..(day - 1) PROVE SameEvidence(c)
    <2>1. ReviewAsOf(r, c) = Undecided /\ ReviewAsOf(r, c)' = Undecided
      BY <1>1 DEF ReviewAsOf, EvidenceInv, Dated
    <2>2. ASSUME NEW q \in Reflections PROVE ReviewAsOf(q, c)' = ReviewAsOf(q, c)
      BY <1>1, <2>1 DEF ReviewAsOf, EvidenceInv, Dated
    <2> QED BY <1>1, <2>2 DEF SameEvidence, AppraisalsBy, Completions
  <1> QED BY <1>1, <1>2, <1>3, EvidenceKept DEF EvidenceInv, Dated

LEMMA SealKeeps ==
  ASSUME EvidenceInv, NEW c \in 1..MaxDays, SealEvidence(c)
  PROVE  EvidenceInv'
  <1>1. /\ UNCHANGED <<day, appraisals, reflectedOn, reviews>> /\ c \in 1..(day - 1)
        /\ seals' = seals \cup {[cutoff |-> c, view |-> View(c)]}
    BY DEF SealEvidence
  <1>2. \A k : View(k)' = View(k)
    BY <1>1, ViewIsOfEvidence DEF SameEvidence, Completions, ReviewAsOf, AppraisalsBy
  <1>3. Dated'
    BY <1>1 DEF EvidenceInv, Dated
  <1>4. SealReplays'
    BY <1>1, <1>2 DEF EvidenceInv, SealReplays
  <1> QED BY <1>3, <1>4 DEF EvidenceInv

LEMMA EvidenceStepKeeps ==
  ASSUME EvidenceInv, ~Predating, [BelievabilityNext]_believabilityVars
  PROVE  EvidenceInv'
  <1>1. CASE NextDay \/ UNCHANGED believabilityVars
    <2>1. UNCHANGED <<appraisals, reflectedOn, reviews, seals>> /\ (day' = day \/ day' = day + 1)
      BY <1>1 DEF NextDay, believabilityVars
    <2>2. Dated'
      BY <2>1 DEF EvidenceInv, Dated
    <2>3. \A c : SameEvidence(c)
      BY <2>1 DEF SameEvidence, Completions, ReviewAsOf, AppraisalsBy
    <2> QED BY <2>1, <2>2, <2>3, EvidenceKept DEF EvidenceInv, Dated
  <1> QED BY <1>1, AppraiseKeeps, ReflectKeeps, ReviewKeeps, SealKeeps DEF BelievabilityNext, Decisions

\* The gate of a snapshot, from what the tables say of its cutoff.
LEMMA GateReadsTheTables ==
  ASSUME EvidenceInv
  PROVE  ReviewedFromTheFirst
  <1> SUFFICES ASSUME NEW s \in seals
      PROVE LET done == {r \in Reflections : reflectedOn[r] \in 1..s.cutoff}
                yes(r) == reviews[r] # Undecided /\ reviews[r].decision = "approved"
                          /\ reviews[r].at <= s.cutoff
            IN /\ \A r \in s.view.prefix, q \in done :
                    /\ yes(r)
                    /\ Place[q] < Place[r] => yes(q) \/ \E z \in done : Successor[z] = q
                    /\ \A z \in done : z # r /\ Lineage[z] = Lineage[r] =>
                         \E y \in done : Successor[y] = z
               /\ s.view.phase = "governance_review_required" =>
                    /\ Cardinality({ReflectionDay[r] : r \in done}) >= RequiredDates
                    /\ Cardinality({r \in done : yes(r)}) >= RequiredReviews
    BY DEF ReviewedFromTheFirst
  <1> DEFINE c == s.cutoff
             done == {r \in Reflections : reflectedOn[r] \in 1..c}
             yes(r) == reviews[r] # Undecided /\ reviews[r].decision = "approved" /\ reviews[r].at <= c
             heads == CurrentHeads(c)
             approved == ApprovedCurrent(heads, c)
             prefix == ApprovedPrefix(heads, approved)
             rows == Performance(c)
  <1>1. c \in 1..(day - 1) /\ s.view = View(c)
    BY DEF EvidenceInv, Dated, SealReplays
  <1>2. Completions(c) = done
    BY <1>1, BelievabilityConfiguration DEF Completions, KnownBy, EvidenceInv, Dated, BelievabilityConfiguration
  <1>3. heads = {r \in done : \A q \in done : Successor[q] # r}
    BY <1>2 DEF CurrentHeads
  <1>4. \A r \in approved : r \in heads /\ yes(r) /\ LineageConflicts(heads) = {}
    BY DEF ApprovedCurrent, ReviewAsOf
  <1>5. \A r \in prefix : r \in approved /\ \A q \in heads : Place[q] < Place[r] => q \in approved
    BY DEF ApprovedPrefix
  <1>6. \A r \in heads, q \in heads : LineageConflicts(heads) = {} /\ q # r => Lineage[q] # Lineage[r]
    BY DEF LineageConflicts
  <1>7. s.view.prefix = prefix /\ s.view.phase = Phase(Blockers(heads, approved, rows))
    BY <1>1 DEF View
  <1> HIDE DEF done, heads, approved, prefix, rows
  <1>8. ASSUME NEW r \in prefix, NEW q \in done
        PROVE  /\ yes(r)
               /\ Place[q] < Place[r] => yes(q) \/ \E z \in done : Successor[z] = q
               /\ \A z \in done : z # r /\ Lineage[z] = Lineage[r] => \E y \in done : Successor[y] = z
    BY <1>3, <1>4, <1>5, <1>6
  <1>9. IsFiniteSet(done) /\ done \subseteq Reflections
    BY FS_Subset, BelievabilityConfiguration DEF done, BelievabilityConfiguration
  <1>10. ASSUME s.view.phase = "governance_review_required"
         PROVE  /\ Cardinality({ReflectionDay[r] : r \in done}) >= RequiredDates
                /\ Cardinality({r \in done : yes(r)}) >= RequiredReviews
    <2>1. Blockers(heads, approved, rows) = {}
      BY <1>7, <1>10 DEF Phase
    <2>2. ~(Cardinality(DaysOf(heads)) < RequiredDates) /\ ~(Cardinality(prefix) < RequiredReviews)
      BY <2>1 DEF Blockers, prefix
    <2>3. heads \subseteq done /\ prefix \subseteq {r \in done : yes(r)}
      BY <1>3, <1>4, <1>5
    <2>4. IsFiniteSet({ReflectionDay[r] : r \in done}) /\ IsFiniteSet({r \in done : yes(r)})
      <3> DEFINE days == {ReflectionDay[r] : r \in done}
                 f == [r \in done |-> ReflectionDay[r]]
      <3>1. f \in Surjection(done, days)
        BY DEF Surjection
      <3> HIDE DEF days, f
      <3>2. IsFiniteSet(days)
        BY <1>9, <3>1, FS_Surjection
      <3> QED BY <1>9, <3>2, FS_Subset DEF days
    <2>5. DaysOf(heads) \subseteq {ReflectionDay[r] : r \in done}
      BY <2>3 DEF DaysOf
    <2>6. /\ Cardinality(DaysOf(heads)) <= Cardinality({ReflectionDay[r] : r \in done})
          /\ IsFiniteSet(DaysOf(heads))
      BY <2>4, <2>5, FS_Subset
    <2>7. /\ Cardinality(prefix) <= Cardinality({r \in done : yes(r)})
          /\ IsFiniteSet(prefix)
      BY <2>3, <2>4, FS_Subset
    <2>8. /\ Cardinality(DaysOf(heads)) \in Nat /\ Cardinality(prefix) \in Nat
          /\ Cardinality({ReflectionDay[r] : r \in done}) \in Nat /\ Cardinality({r \in done : yes(r)}) \in Nat
      BY <2>4, <2>6, <2>7, FS_CardinalityType
    <2> QED BY <2>2, <2>6, <2>7, <2>8, BelievabilityConfiguration DEF BelievabilityConfiguration
  <1> QED BY <1>7, <1>8, <1>10 DEF done, yes

\* Whatever is evaluated again, corrected or reviewed after a run was sealed, the tables
\* yield for its cutoff what it was sealed with, and no approval in it passes over an
\* earlier reflection; reviewers must date their reviews when they make them
\* (build_believability_snapshot, reflection_review_gate_state).
THEOREM SealedEvidenceStands == ~Predating /\ BelievabilitySpec => []EvidenceSealed
  <1> SUFFICES ASSUME ~Predating PROVE BelievabilitySpec => []EvidenceSealed
    OBVIOUS
  <1>1. EvidenceInv => EvidenceSealed
    BY GateReadsTheTables DEF EvidenceInv, EvidenceSealed
  <1>2. EvidenceInv /\ [BelievabilityNext]_believabilityVars => EvidenceInv'
    BY EvidenceStepKeeps
  <1> QED BY <1>1, <1>2, EvidenceInitHolds, PTL DEF BelievabilitySpec

-----------------------------------------------------------------------------
(* Lessons.  What holds of one lesson, of its row r, its batches b and its  *)
(* events e, at the clock c.                                                *)

\* Batches in the order of time, each with the union of all dates so far; the row
\* projects the last one.
BatchesOK(l, r, b, c) ==
  /\ \A i, j \in DOMAIN b : i < j => b[i].at < b[j].at /\ b[i].obs \cap b[j].obs = {}
  /\ \A i \in DOMAIN b : b[i].at <= c
  /\ \A j \in DOMAIN b : b[j].agg = UNION {b[i].obs : i \in 1..j}
  /\ b # <<>> => r.metrics.agg = b[Len(b)].agg /\ r.dates = Cardinality(r.metrics.agg)
  /\ b = <<>> /\ r.status \notin {"absent", "candidate"} => l \in Checklists

\* Events lead from candidate to the row's status, and n of them are replays.
EventsOK(r, e, n) ==
  /\ \A i \in DOMAIN e :
       /\ <<e[i].from, e[i].to>> \in Allowed[e[i].type]
       /\ e[i].from = IF i = 1 THEN "candidate" ELSE e[i - 1].to
  /\ r.status = "absent" => e = <<>> /\ n = 0
  /\ r.status # "absent" => r.status = IF e = <<>> THEN "candidate" ELSE e[Len(e)].to
  /\ Cardinality({i \in DOMAIN e : e[i].type = "replay_recorded"}) = n

\* A lesson in force has not failed since its last success, and an ordinary one was
\* last validated on enough dates that it improves on.
RowOK(l, r) ==
  /\ r.status \in {"absent", "candidate"} => r.supersedes = Nothing
  /\ r.status = "active" => r.metrics.failures = 0
  /\ l \notin Checklists /\ r.status \in Heads => r.metrics.lastDates = Cardinality(r.metrics.lastAgg)
  /\ l \notin Checklists /\ r.status = "active" =>
       Cardinality(r.metrics.lastAgg) >= MinDates /\ Improves(r.metrics.lastAgg)

LessonOK(l) ==
  /\ BatchesOK(l, row[l], batches[l], clock)
  /\ EventsOK(row[l], events[l], Len(batches[l]))
  /\ RowOK(l, row[l])

\* What a command that runs alone may rely on: nothing it read has changed.
SessionOK(o) ==
  LET t == tx[o]
      l == t.lesson IN
  t.step # "idle" =>
    /\ l \in Lessons /\ t.snap = row[l] /\ t.at <= clock
    /\ \A i \in DOMAIN batches[l] : batches[l][i].at < t.at
    /\ \/ /\ t.command = "replay" /\ t.step \in {"batches", "commit"}
          /\ row[l].status \in {"candidate", "active", "challenged"}
          /\ t.step = "commit" => t.agg = t.obs \cup Recorded(l) /\ t.obs \cap Recorded(l) = {}
       \/ /\ t.command = "approve" /\ t.step \in {"heads", "sequence", "commit"}
          /\ row[l].status = "candidate" /\ Eligible(l, row[l])
          /\ t.head # Nothing => t.head \in HeadsOf(l) /\ t.headSnap = row[t.head]
       \/ /\ t.command = "revalidate" /\ t.step \in {"sequence", "commit"}
          /\ row[l].status \in Heads
          /\ t.passed /\ l \notin Checklists =>
               /\ FreshReplay(row[l])
               /\ Cardinality(row[l].metrics.agg) >= MinDates /\ Improves(row[l].metrics.agg)

\* A command that has begun is about a lesson.
AboutLesson == \A o \in Operators : tx[o].step # "idle" => tx[o].lesson \in Lessons

LessonsInv == TypeOK /\ AboutLesson /\ OneHead
TurnsInv ==
  /\ TakeTurns
  /\ \A l \in Lessons : LessonOK(l) /\ LineageVerifies(l)
  /\ \A o \in Operators : SessionOK(o)

-----------------------------------------------------------------------------
(* Records that differ in some fields.                                      *)

LEMMA EmptyRecords == NoMetrics \in Metrics /\ NoRow \in Row /\ Closed \in Session
  <1>1. NoMetrics \in Metrics
    BY DEF NoMetrics, Metrics
  <1>2. NoRow \in Row
    BY <1>1 DEF NoRow, Row, Status
  <1>3. Closed \in Session
    BY <1>2 DEF Closed, Session, Commands
  <1> QED BY <1>1, <1>2, <1>3

LEMMA LessonFacts ==
  ASSUME TypeOK
  PROVE  /\ row \in [Lessons -> Row] /\ batches \in [Lessons -> Seq(Batch)]
         /\ events \in [Lessons -> Seq(Event)] /\ tx \in [Operators -> Session]
         /\ mature \in BOOLEAN /\ clock \in 0..MaxClock /\ MaxClock \in Nat
         /\ \A l \in Lessons :
              /\ row[l] \in Row /\ row[l].status \in Status /\ row[l].dates \in Nat
              /\ row[l].metrics \in Metrics /\ row[l].supersedes \in Lessons \cup {Nothing}
              /\ batches[l] \in Seq(Batch) /\ events[l] \in Seq(Event)
              /\ Recorded(l) \subseteq Dates
         /\ \A o \in Operators :
              /\ tx[o] \in Session /\ tx[o].lesson \in Lessons \cup {Nothing}
              /\ tx[o].snap \in Row /\ tx[o].headSnap \in Row /\ tx[o].at \in Nat
              /\ tx[o].obs \subseteq Dates /\ tx[o].agg \subseteq Dates
              /\ tx[o].head \in Lessons \cup {Nothing} /\ tx[o].passed \in BOOLEAN
  <1>1. \A l \in Lessons : batches[l] \in Seq(Batch) /\ Recorded(l) \subseteq Dates
    <2> SUFFICES ASSUME NEW l \in Lessons PROVE batches[l] \in Seq(Batch) /\ Recorded(l) \subseteq Dates
      OBVIOUS
    <2>1. batches[l] \in Seq(Batch)
      BY DEF TypeOK
    <2>2. \A i \in DOMAIN batches[l] : batches[l][i] \in Batch
      BY <2>1
    <2>3. \A i \in DOMAIN batches[l] : batches[l][i].obs \subseteq Dates
      BY <2>2 DEF Batch
    <2> QED BY <2>1, <2>3 DEF Recorded
  <1> QED BY <1>1, LessonConfiguration DEF TypeOK, Row, Session, LessonConfiguration

-----------------------------------------------------------------------------
(* Types, and one head.                                                     *)

LEMMA LessonsInitHolds == Init => LessonsInv
  <1> SUFFICES ASSUME Init PROVE LessonsInv
    OBVIOUS
  <1>1. TypeOK
    <2>1. row \in [Lessons -> Row] /\ tx \in [Operators -> Session]
      BY EmptyRecords DEF Init
    <2>2. batches \in [Lessons -> Seq(Batch)] /\ events \in [Lessons -> Seq(Event)]
      BY DEF Init
    <2>3. clock \in 0..MaxClock
      BY LessonConfiguration DEF Init, LessonConfiguration
    <2>4. mature \in BOOLEAN
      BY DEF Init
    <2> QED BY <2>1, <2>2, <2>3, <2>4 DEF TypeOK
  <1>2. \A l \in Lessons : row[l].status \notin Heads
    BY DEF Init, NoRow, Heads
  <1>3. OneHead
    BY <1>2, FS_EmptySet DEF OneHead
  <1> QED BY <1>1, <1>3 DEF LessonsInv, AboutLesson, Init, Closed

\* A step of one session that leaves the tables alone.
LEMMA SessionMoves ==
  ASSUME LessonsInv, NEW o \in Operators, NEW t \in Session, t.step # "idle" => t.lesson \in Lessons,
         tx' = [tx EXCEPT ![o] = t], UNCHANGED <<db, mature>>, clock' \in 0..MaxClock
  PROVE  LessonsInv'
  <1>1. TypeOK'
    BY DEF LessonsInv, TypeOK, db
  <1>2. AboutLesson'
    BY DEF LessonsInv, TypeOK, AboutLesson
  <1>3. OneHead'
    BY DEF LessonsInv, OneHead, db
  <1> QED BY <1>1, <1>2, <1>3 DEF LessonsInv

\* The end of a command: the tables keep their types and the index.
LEMMA SessionCloses ==
  ASSUME LessonsInv, NEW o \in Operators, Close(o), row' \in [Lessons -> Row],
         batches' \in [Lessons -> Seq(Batch)], events' \in [Lessons -> Seq(Event)], OneHead'
  PROVE  LessonsInv'
  <1>1. TypeOK'
    BY EmptyRecords DEF LessonsInv, TypeOK, Close
  <1>2. AboutLesson'
    BY DEF LessonsInv, TypeOK, AboutLesson, Close, Closed
  <1> QED BY <1>1, <1>2 DEF LessonsInv

\* A reflection proposes a candidate without a predecessor or a successor.
LEMMA ProposeWrites ==
  ASSUME LessonsInv, NEW l \in Lessons, Propose(l)
  PROVE  \E inherited \in Nat, x \in Metrics :
           /\ row[l].status = "absent" /\ x.successor = Nothing
           /\ row' = [row EXCEPT ![l] = [status |-> "candidate", dates |-> inherited,
                                         supersedes |-> Nothing, metrics |-> x]]
           /\ UNCHANGED <<batches, events, mature, clock, tx>>
  <1>1. PICK d \in {row[k].dates : k \in Lessons} :
          row' = [row EXCEPT ![l] = [status |-> "candidate", dates |-> d, supersedes |-> Nothing,
                                     metrics |-> [NoMetrics EXCEPT !.ready = (mature /\ l \in Checklists)]]]
    BY DEF Propose
  <1>2. PICK x : x = [NoMetrics EXCEPT !.ready = (mature /\ l \in Checklists)]
    OBVIOUS
  <1>3. x \in Metrics /\ x.successor = Nothing
    <2>1. (mature /\ l \in Checklists) \in BOOLEAN
      OBVIOUS
    <2> QED BY <1>2, <2>1 DEF NoMetrics, Metrics
  <1>4. d \in Nat
    BY <1>1, LessonFacts DEF LessonsInv
  <1>5. row[l].status = "absent" /\ UNCHANGED <<batches, events, mature, clock, tx>>
    BY DEF Propose
  <1> QED BY <1>1, <1>2, <1>3, <1>4, <1>5

LEMMA ProposeKeeps ==
  ASSUME LessonsInv, NEW l \in Lessons, Propose(l)
  PROVE  LessonsInv'
  <1>1. PICK inherited \in Nat, x \in Metrics :
          /\ row[l].status = "absent"
          /\ row' = [row EXCEPT ![l] = [status |-> "candidate", dates |-> inherited,
                                        supersedes |-> Nothing, metrics |-> x]]
          /\ UNCHANGED <<batches, events, mature, clock, tx>>
    BY ProposeWrites
  <1>2. row' \in [Lessons -> Row]
    <2>1. [status |-> "candidate", dates |-> inherited, supersedes |-> Nothing, metrics |-> x] \in Row
      BY <1>1 DEF Row, Status
    <2> QED BY <1>1, <2>1, LessonFacts DEF LessonsInv
  <1>3. \A k \in Lessons : row'[k].status \in Heads <=> row[k].status \in Heads
    BY <1>1, LessonFacts DEF Heads, LessonsInv
  <1>4. OneHead'
    <2>1. {k \in Lessons : row'[k].status \in Heads} = {k \in Lessons : row[k].status \in Heads}
      BY <1>3
    <2> QED BY <2>1 DEF OneHead, LessonsInv
  <1> QED BY <1>1, <1>2, <1>4 DEF LessonsInv, TypeOK, AboutLesson

\* A command begins: the session it opens.
LEMMA OpenKeeps ==
  ASSUME LessonsInv, NEW o \in Operators, NEW t \in Session, t.lesson \in Lessons, Open(o, t)
  PROVE  LessonsInv'
  <1>1. /\ tx' = [tx EXCEPT ![o] = t] /\ UNCHANGED <<db, mature>>
        /\ clock < MaxClock /\ clock' = clock + 1
    BY DEF Open
  <1>2. clock' \in 0..MaxClock
    BY <1>1, LessonFacts DEF LessonsInv
  <1> QED BY <1>1, <1>2, SessionMoves

LEMMA TimesAreNat == ASSUME TypeOK, NEW at \in Times PROVE at \in Nat
  BY LessonFacts DEF Times

LEMMA LoadsOpen ==
  ASSUME LessonsInv, NEW o \in Operators, NEW l \in Lessons, NEW at \in Times
  PROVE  /\ \A obs \in (SUBSET Dates) \ {{}} : LoadReplay(o, l, obs, at) =>
              \E t \in Session : /\ Open(o, t) /\ t.step = "batches" /\ t.command = "replay"
                                 /\ t.lesson = l /\ t.at = at /\ t.snap = row[l]
                                 /\ row[l].status \in {"candidate", "active", "challenged"}
         /\ LoadApprove(o, l, at) =>
              \E t \in Session : /\ Open(o, t) /\ t.step = "heads" /\ t.command = "approve"
                                 /\ t.lesson = l /\ t.at = at /\ t.snap = row[l] /\ t.head = Nothing
                                 /\ row[l].status = "candidate" /\ Eligible(l, row[l])
         /\ \A valid \in BOOLEAN : LoadRevalidate(o, l, valid, at) =>
              \E t \in Session : /\ Open(o, t) /\ t.step = "sequence" /\ t.command = "revalidate"
                                 /\ t.lesson = l /\ t.at = at /\ t.snap = row[l] /\ row[l].status \in Heads
                                 /\ t.passed = Passes(l, row[l], valid)
  <1>1. at \in Nat /\ row[l] \in Row
    BY TimesAreNat, LessonFacts DEF LessonsInv
  <1>2. ASSUME NEW obs \in (SUBSET Dates) \ {{}}, LoadReplay(o, l, obs, at)
        PROVE  \E t \in Session : /\ Open(o, t) /\ t.step = "batches" /\ t.command = "replay"
                                  /\ t.lesson = l /\ t.at = at /\ t.snap = row[l]
                                  /\ row[l].status \in {"candidate", "active", "challenged"}
    <2>1. PICK t : t = [Closed EXCEPT !.step = "batches", !.command = "replay", !.lesson = l,
                                      !.at = at, !.snap = row[l], !.obs = obs]
      OBVIOUS
    <2>11. PICK p \in BOOLEAN : p = FALSE
      OBVIOUS
    <2>2. t \in [step : {"batches"}, command : {"replay"}, lesson : {l}, at : {at}, snap : {row[l]},
                 obs : {obs}, agg : {{}}, head : {Nothing}, headSnap : {NoRow}, passed : {p},
                 sequence : {0}]
      BY <2>1, <2>11 DEF Closed
    <2>3. t \in Session
      BY <1>1, <2>2, EmptyRecords DEF Session, Commands
    <2>4. Open(o, t) /\ row[l].status \in {"candidate", "active", "challenged"}
      BY <1>2, <2>1 DEF LoadReplay
    <2> QED BY <2>2, <2>3, <2>4
  <1>3. ASSUME LoadApprove(o, l, at)
        PROVE  \E t \in Session : /\ Open(o, t) /\ t.step = "heads" /\ t.command = "approve"
                                  /\ t.lesson = l /\ t.at = at /\ t.snap = row[l] /\ t.head = Nothing
                                  /\ row[l].status = "candidate" /\ Eligible(l, row[l])
    <2>1. PICK t : t = [Closed EXCEPT !.step = "heads", !.command = "approve", !.lesson = l,
                                      !.at = at, !.snap = row[l]]
      OBVIOUS
    <2>11. PICK p \in BOOLEAN : p = FALSE
      OBVIOUS
    <2>2. t \in [step : {"heads"}, command : {"approve"}, lesson : {l}, at : {at}, snap : {row[l]},
                 obs : {{}}, agg : {{}}, head : {Nothing}, headSnap : {NoRow}, passed : {p},
                 sequence : {0}]
      BY <2>1, <2>11 DEF Closed
    <2>3. t \in Session
      BY <1>1, <2>2, EmptyRecords DEF Session, Commands
    <2>4. Open(o, t) /\ row[l].status = "candidate" /\ Eligible(l, row[l])
      BY <1>3, <2>1 DEF LoadApprove
    <2> QED BY <2>2, <2>3, <2>4
  <1>4. ASSUME NEW valid \in BOOLEAN, LoadRevalidate(o, l, valid, at)
        PROVE  \E t \in Session : /\ Open(o, t) /\ t.step = "sequence" /\ t.command = "revalidate"
                                  /\ t.lesson = l /\ t.at = at /\ t.snap = row[l] /\ row[l].status \in Heads
                                  /\ t.passed = Passes(l, row[l], valid)
    <2>1. PICK t : t = [Closed EXCEPT !.step = "sequence", !.command = "revalidate", !.lesson = l,
                                      !.at = at, !.snap = row[l], !.passed = Passes(l, row[l], valid)]
      OBVIOUS
    <2>2. Passes(l, row[l], valid) \in BOOLEAN
      BY DEF Passes, Ready, FreshReplay
    <2>3. PICK p \in BOOLEAN : p = Passes(l, row[l], valid)
      BY <2>2
    <2>4. t \in [step : {"sequence"}, command : {"revalidate"}, lesson : {l}, at : {at}, snap : {row[l]},
                 obs : {{}}, agg : {{}}, head : {Nothing}, headSnap : {NoRow}, passed : {p},
                 sequence : {0}]
      BY <2>1, <2>3 DEF Closed
    <2>5. t \in Session
      BY <1>1, <2>4, EmptyRecords DEF Session, Commands
    <2>6. Open(o, t) /\ row[l].status \in Heads
      BY <1>4, <2>1 DEF LoadRevalidate
    <2> QED BY <2>3, <2>4, <2>5, <2>6
  <1> QED BY <1>2, <1>3, <1>4

\* The reads in the middle of a command.
LEMMA ReadsMove ==
  ASSUME LessonsInv, NEW o \in Operators
  PROVE  /\ ReadBatches(o) =>
              \E t \in Session :
                /\ tx[o].step = "batches" /\ tx' = [tx EXCEPT ![o] = t] /\ UNCHANGED <<db, mature, clock>>
                /\ \/ t = Closed
                   \/ /\ t.step = "commit" /\ t.command = tx[o].command /\ t.lesson = tx[o].lesson
                      /\ t.at = tx[o].at /\ t.snap = tx[o].snap /\ t.obs = tx[o].obs
                      /\ t.agg = t.obs \cup Recorded(t.lesson) /\ t.obs \cap Recorded(t.lesson) = {}
         /\ ReadHeads(o) =>
              \E t \in Session :
                /\ tx[o].step = "heads" /\ tx' = [tx EXCEPT ![o] = t] /\ UNCHANGED <<db, mature, clock>>
                /\ t.step = "sequence" /\ t.command = tx[o].command /\ t.lesson = tx[o].lesson
                /\ t.at = tx[o].at /\ t.snap = tx[o].snap
                /\ \/ t.head = tx[o].head /\ t.headSnap = tx[o].headSnap
                   \/ t.head \in HeadsOf(t.lesson) /\ t.headSnap = row[t.head]
         /\ ReadSequence(o) =>
              \E t \in Session :
                /\ tx[o].step = "sequence" /\ tx' = [tx EXCEPT ![o] = t] /\ UNCHANGED <<db, mature, clock>>
                /\ t.step = "commit" /\ t.command = tx[o].command /\ t.lesson = tx[o].lesson
                /\ t.at = tx[o].at /\ t.snap = tx[o].snap /\ t.passed = tx[o].passed
                /\ t.head = tx[o].head /\ t.headSnap = tx[o].headSnap
  <1>0. PICK s \in Session : s = tx[o]
    BY LessonFacts DEF LessonsInv
  <1>1. ASSUME ReadBatches(o)
        PROVE  \E t \in Session :
                /\ tx[o].step = "batches" /\ tx' = [tx EXCEPT ![o] = t] /\ UNCHANGED <<db, mature, clock>>
                /\ \/ t = Closed
                   \/ /\ t.step = "commit" /\ t.command = tx[o].command /\ t.lesson = tx[o].lesson
                      /\ t.at = tx[o].at /\ t.snap = tx[o].snap /\ t.obs = tx[o].obs
                      /\ t.agg = t.obs \cup Recorded(t.lesson) /\ t.obs \cap Recorded(t.lesson) = {}
    <2>1. CASE tx[o].obs \cap Recorded(tx[o].lesson) # {}
      BY <1>1, <2>1, EmptyRecords DEF ReadBatches
    <2>2. CASE tx[o].obs \cap Recorded(tx[o].lesson) = {}
      <3>1. PICK a : a = s.obs \cup Recorded(s.lesson)
        OBVIOUS
      <3>2. a \in SUBSET Dates
        BY <1>0, <1>1, <3>1, LessonFacts DEF LessonsInv, AboutLesson, ReadBatches
      <3>3. PICK t : t = [s EXCEPT !.step = "commit", !.agg = a]
        OBVIOUS
      <3>4. t \in [step : {"commit"}, command : {s.command}, lesson : {s.lesson}, at : {s.at},
                   snap : {s.snap}, obs : {s.obs}, agg : {a}, head : {s.head}, headSnap : {s.headSnap},
                   passed : {s.passed}, sequence : {s.sequence}]
        BY <3>2, <3>3 DEF Session
      <3>5. t \in Session
        BY <3>2, <3>4 DEF Session
      <3>6. tx[o].step = "batches" /\ tx' = [tx EXCEPT ![o] = t] /\ UNCHANGED <<db, mature, clock>>
        BY <1>0, <1>1, <2>2, <3>1, <3>3, LessonFacts DEF ReadBatches, LessonsInv
      <3> QED BY <1>0, <2>2, <3>1, <3>4, <3>5, <3>6
    <2> QED BY <2>1, <2>2
  <1>2. ASSUME ReadHeads(o)
        PROVE  \E t \in Session :
                /\ tx[o].step = "heads" /\ tx' = [tx EXCEPT ![o] = t] /\ UNCHANGED <<db, mature, clock>>
                /\ t.step = "sequence" /\ t.command = tx[o].command /\ t.lesson = tx[o].lesson
                /\ t.at = tx[o].at /\ t.snap = tx[o].snap
                /\ \/ t.head = tx[o].head /\ t.headSnap = tx[o].headSnap
                   \/ t.head \in HeadsOf(t.lesson) /\ t.headSnap = row[t.head]
    <2>1. CASE tx' = [tx EXCEPT ![o].step = "sequence"]
      <3>1. PICK t : t = [s EXCEPT !.step = "sequence"]
        OBVIOUS
      <3>2. t \in [step : {"sequence"}, command : {s.command}, lesson : {s.lesson}, at : {s.at},
                   snap : {s.snap}, obs : {s.obs}, agg : {s.agg}, head : {s.head},
                   headSnap : {s.headSnap}, passed : {s.passed}, sequence : {s.sequence}]
        BY <3>1 DEF Session
      <3>3. t \in Session
        BY <3>2 DEF Session
      <3>4. tx[o].step = "heads" /\ tx' = [tx EXCEPT ![o] = t] /\ UNCHANGED <<db, mature, clock>>
        BY <1>0, <1>2, <2>1, <3>1, LessonFacts DEF ReadHeads, LessonsInv
      <3> QED BY <1>0, <3>2, <3>3, <3>4
    <2>2. ASSUME NEW h \in HeadsOf(tx[o].lesson),
                 tx' = [tx EXCEPT ![o].step = "sequence", ![o].head = h, ![o].headSnap = row[h]]
          PROVE  \E t \in Session :
                /\ tx[o].step = "heads" /\ tx' = [tx EXCEPT ![o] = t] /\ UNCHANGED <<db, mature, clock>>
                /\ t.step = "sequence" /\ t.command = tx[o].command /\ t.lesson = tx[o].lesson
                /\ t.at = tx[o].at /\ t.snap = tx[o].snap
                /\ t.head \in HeadsOf(t.lesson) /\ t.headSnap = row[t.head]
      <3>1. PICK x \in Row : x = row[h] /\ h \in Lessons
        BY <2>2, LessonFacts DEF HeadsOf, LessonsInv
      <3>2. PICK t : t = [s EXCEPT !.step = "sequence", !.head = h, !.headSnap = x]
        OBVIOUS
      <3>3. t \in [step : {"sequence"}, command : {s.command}, lesson : {s.lesson}, at : {s.at},
                   snap : {s.snap}, obs : {s.obs}, agg : {s.agg}, head : {h},
                   headSnap : {x}, passed : {s.passed}, sequence : {s.sequence}]
        BY <3>2 DEF Session
      <3>4. t \in Session
        BY <3>1, <3>3 DEF Session
      <3>5. tx[o].step = "heads" /\ tx' = [tx EXCEPT ![o] = t] /\ UNCHANGED <<db, mature, clock>>
        BY <1>0, <1>2, <2>2, <3>1, <3>2, LessonFacts DEF ReadHeads, LessonsInv
      <3> QED BY <1>0, <3>1, <3>3, <3>4, <3>5, <2>2
    <2> QED BY <1>2, <2>1, <2>2 DEF ReadHeads
  <1>3. ASSUME ReadSequence(o)
        PROVE  \E t \in Session :
                /\ tx[o].step = "sequence" /\ tx' = [tx EXCEPT ![o] = t] /\ UNCHANGED <<db, mature, clock>>
                /\ t.step = "commit" /\ t.command = tx[o].command /\ t.lesson = tx[o].lesson
                /\ t.at = tx[o].at /\ t.snap = tx[o].snap /\ t.passed = tx[o].passed
                /\ t.head = tx[o].head /\ t.headSnap = tx[o].headSnap
    <2>1. PICK n : n = Len(events[s.lesson])
      OBVIOUS
    <2>2. n \in Nat
      BY <1>0, <1>3, <2>1, LessonFacts DEF LessonsInv, AboutLesson, ReadSequence
    <2>3. PICK t : t = [s EXCEPT !.step = "commit", !.sequence = n]
      OBVIOUS
    <2>4. t \in [step : {"commit"}, command : {s.command}, lesson : {s.lesson}, at : {s.at},
                 snap : {s.snap}, obs : {s.obs}, agg : {s.agg}, head : {s.head},
                 headSnap : {s.headSnap}, passed : {s.passed}, sequence : {n}]
      BY <2>3 DEF Session
    <2>5. t \in Session
      BY <2>2, <2>4 DEF Session
    <2>6. tx[o].step = "sequence" /\ tx' = [tx EXCEPT ![o] = t] /\ UNCHANGED <<db, mature, clock>>
      BY <1>0, <1>3, <2>1, <2>3, LessonFacts DEF ReadSequence, LessonsInv
    <2> QED BY <1>0, <2>4, <2>5, <2>6
  <1> QED BY <1>1, <1>2, <1>3

LEMMA DatesCounted ==
  ASSUME NEW a \in SUBSET Dates
  PROVE  IsFiniteSet(a) /\ Cardinality(a) \in Nat
  BY FS_Subset, FS_CardinalityType, LessonConfiguration DEF LessonConfiguration

\* What the transaction of a command writes, when it writes anything.
LEMMA ReplayWrites ==
  ASSUME LessonsInv, NEW o \in Operators, CommitReplay(o), ~UNCHANGED db
  PROVE  \E l \in Lessons, x \in Row, b \in Batch, e \in Event :
           /\ tx[o].step = "commit" /\ tx[o].command = "replay" /\ l = tx[o].lesson
           /\ row' = [row EXCEPT ![l] = x]
           /\ batches' = [batches EXCEPT ![l] = Append(batches[l], b)]
           /\ events' = [events EXCEPT ![l] = Append(events[l], e)]
           /\ x.status = row[l].status /\ x.dates = Cardinality(tx[o].agg) /\ x.supersedes = row[l].supersedes
           /\ x.metrics.agg = tx[o].agg /\ x.metrics.failures = tx[o].snap.metrics.failures
           /\ x.metrics.lastDates = tx[o].snap.metrics.lastDates
           /\ x.metrics.lastAgg = tx[o].snap.metrics.lastAgg
           /\ x.metrics.successor = tx[o].snap.metrics.successor
           /\ b.at = tx[o].at /\ b.obs = tx[o].obs /\ b.agg = tx[o].agg
           /\ e.type = "replay_recorded" /\ e.from = tx[o].snap.status /\ e.to = tx[o].snap.status
  <1>0. PICK l \in Lessons : l = tx[o].lesson
    BY DEF LessonsInv, AboutLesson, CommitReplay
  <1>1. PICK s \in Session : s = tx[o]
    BY LessonFacts DEF LessonsInv
  <1>2. PICK x0 \in Metrics : x0 = s.snap.metrics
    BY DEF Session, Row
  <1>3. PICK d \in Nat : d = Cardinality(s.agg)
    BY DatesCounted DEF Session
  <1>4. PICK rdy \in BOOLEAN : rdy = Ready(l, Cardinality(s.agg), s.agg)
    BY DEF Ready
  <1>5. PICK y : y = [x0 EXCEPT !.agg = s.agg, !.ready = rdy]
    OBVIOUS
  <1>6. y \in [agg : {s.agg}, ready : {rdy}, failures : {x0.failures}, lastAt : {x0.lastAt},
               lastDates : {x0.lastDates}, lastAgg : {x0.lastAgg}, successor : {x0.successor}]
    BY <1>5, <1>2 DEF Metrics
  <1>7. y \in Metrics
    BY <1>6, <1>2 DEF Metrics, Session
  <1>8. PICK r \in Row : r = row[l]
    BY LessonFacts DEF LessonsInv
  <1>9. PICK x : x = [r EXCEPT !.dates = d, !.metrics = y]
    OBVIOUS
  <1>10. x \in [status : {r.status}, dates : {d}, supersedes : {r.supersedes}, metrics : {y}]
    BY <1>8, <1>9 DEF Row
  <1>11. x \in Row
    BY <1>7, <1>8, <1>10 DEF Row
  <1>12. PICK b \in Batch : b = [at |-> s.at, obs |-> s.obs, agg |-> s.agg]
    BY DEF Batch, Session
  <1>13. PICK e \in Event : e = EventOf("replay_recorded", s.snap.status, s.snap.status)
    BY DEF Event, EventOf, EventTypes, Session, Row
  <1>14. /\ tx[o].step = "commit" /\ tx[o].command = "replay"
         /\ row' = [row EXCEPT ![l].dates = Cardinality(s.agg),
                               ![l].metrics = [s.snap.metrics EXCEPT !.agg = s.agg,
                                                 !.ready = Ready(l, Cardinality(s.agg), s.agg)]]
         /\ batches' = [batches EXCEPT ![l] = Append(batches[l], [at |-> s.at, obs |-> s.obs, agg |-> s.agg])]
         /\ events' = [events EXCEPT ![l] =
                         Append(events[l], EventOf("replay_recorded", s.snap.status, s.snap.status))]
    BY <1>0, <1>1 DEF CommitReplay
  <1>15. row' = [row EXCEPT ![l] = x]
    BY <1>2, <1>3, <1>4, <1>5, <1>8, <1>9, <1>14, LessonFacts DEF LessonsInv
  <1>16. /\ batches' = [batches EXCEPT ![l] = Append(batches[l], b)]
         /\ events' = [events EXCEPT ![l] = Append(events[l], e)]
    BY <1>12, <1>13, <1>14
  <1>17. e.type = "replay_recorded" /\ e.from = s.snap.status /\ e.to = s.snap.status
    BY <1>13 DEF EventOf
  <1>18. b.at = s.at /\ b.obs = s.obs /\ b.agg = s.agg
    BY <1>12
  <1>19. /\ x.status = r.status /\ x.dates = d /\ x.supersedes = r.supersedes /\ x.metrics = y
         /\ y.agg = s.agg /\ y.failures = x0.failures /\ y.lastDates = x0.lastDates
         /\ y.lastAgg = x0.lastAgg /\ y.successor = x0.successor
    BY <1>6, <1>10
  <1>20. /\ x.status = row[l].status /\ x.dates = Cardinality(tx[o].agg) /\ x.supersedes = row[l].supersedes
         /\ x.metrics.agg = tx[o].agg /\ x.metrics.failures = tx[o].snap.metrics.failures
         /\ x.metrics.lastDates = tx[o].snap.metrics.lastDates
         /\ x.metrics.lastAgg = tx[o].snap.metrics.lastAgg
         /\ x.metrics.successor = tx[o].snap.metrics.successor
         /\ b.at = tx[o].at /\ b.obs = tx[o].obs /\ b.agg = tx[o].agg
         /\ e.type = "replay_recorded" /\ e.from = tx[o].snap.status /\ e.to = tx[o].snap.status
    BY <1>1, <1>2, <1>3, <1>8, <1>17, <1>18, <1>19
  <1>21. tx[o].step = "commit" /\ tx[o].command = "replay"
    BY <1>14
  <1> QED BY <1>0, <1>11, <1>12, <1>13, <1>15, <1>16, <1>20, <1>21

LEMMA ApproveWrites ==
  ASSUME LessonsInv, NEW o \in Operators, CommitApprove(o), ~UNCHANGED db
  PROVE  \E l \in Lessons, x \in Row, e \in Event :
           /\ tx[o].step = "commit" /\ tx[o].command = "approve" /\ l = tx[o].lesson
           /\ x.status = "active" /\ x.dates = row[l].dates /\ x.supersedes = tx[o].head
           /\ x.metrics.agg = tx[o].snap.metrics.agg /\ x.metrics.failures = 0
           /\ x.metrics.lastDates = tx[o].snap.dates /\ x.metrics.lastAgg = tx[o].snap.metrics.agg
           /\ x.metrics.successor = tx[o].snap.metrics.successor
           /\ e.type = "approved" /\ e.from = "candidate" /\ e.to = "active"
           /\ UNCHANGED batches
           /\ \/ /\ tx[o].head = Nothing
                 /\ row' = [row EXCEPT ![l] = x]
                 /\ events' = [events EXCEPT ![l] = Append(events[l], e)]
              \/ \E h \in Lessons, y \in Row, g \in Event :
                   /\ tx[o].head = h
                   /\ row' = [row EXCEPT ![l] = x, ![h] = y]
                   /\ events' = [[events EXCEPT ![l] = Append(events[l], e)] EXCEPT ![h] = Append(@, g)]
                   /\ y.status = "superseded" /\ y.dates = row[h].dates /\ y.supersedes = row[h].supersedes
                   /\ y.metrics.agg = tx[o].headSnap.metrics.agg /\ y.metrics.successor = l
                   /\ g.type = "superseded" /\ g.from = tx[o].headSnap.status /\ g.to = "superseded"
           /\ OneHead'
  <1>0. PICK l \in Lessons : l = tx[o].lesson
    BY DEF LessonsInv, AboutLesson, CommitApprove
  <1>1. PICK s \in Session : s = tx[o]
    BY LessonFacts DEF LessonsInv
  <1>2. PICK x0 \in Metrics : x0 = s.snap.metrics
    BY DEF Session, Row
  <1>3. PICK d \in Nat : d = s.snap.dates
    BY DEF Session, Row
  <1>4. PICK h : h = s.head
    OBVIOUS
  <1>5. PICK m : m = [x0 EXCEPT !.lastAt = s.at, !.lastDates = d, !.lastAgg = x0.agg, !.failures = 0]
    OBVIOUS
  <1>6. m \in [agg : {x0.agg}, ready : {x0.ready}, failures : {0}, lastAt : {s.at}, lastDates : {d},
               lastAgg : {x0.agg}, successor : {x0.successor}]
    BY <1>2, <1>5 DEF Metrics
  <1>7. m \in Metrics
    BY <1>2, <1>6 DEF Metrics, Session
  <1>8. PICK r \in Row : r = row[l]
    BY LessonFacts DEF LessonsInv
  <1>9. PICK x : x = [status |-> "active", dates |-> r.dates, supersedes |-> h, metrics |-> m]
    OBVIOUS
  <1>10. x \in Row
    BY <1>4, <1>7, <1>8, <1>9 DEF Row, Status, Session
  <1>11. /\ x.status = "active" /\ x.dates = r.dates /\ x.supersedes = h /\ x.metrics = m
         /\ m.agg = x0.agg /\ m.failures = 0 /\ m.lastDates = d /\ m.lastAgg = x0.agg /\ m.successor = x0.successor
    BY <1>6, <1>9
  <1>12. PICK e \in Event : e = EventOf("approved", "candidate", "active")
    BY DEF Event, EventOf, EventTypes, Status
  <1>13. e.type = "approved" /\ e.from = "candidate" /\ e.to = "active"
    BY <1>12 DEF EventOf
  <1>14. PICK z : z = [row[h] EXCEPT !.status = "superseded", !.metrics = [s.headSnap.metrics EXCEPT !.successor = l]]
    OBVIOUS
  <1>15. PICK g : g = EventOf("superseded", s.headSnap.status, "superseded")
    OBVIOUS
  <1>16. PICK rows : rows = IF h = Nothing THEN [row EXCEPT ![l] = x] ELSE [row EXCEPT ![l] = x, ![h] = z]
    OBVIOUS
  <1>17. /\ tx[o].step = "commit" /\ tx[o].command = "approve" /\ HeadIndex(rows) /\ row' = rows
         /\ events' = IF h = Nothing THEN [events EXCEPT ![l] = Append(events[l], e)]
                      ELSE [[events EXCEPT ![l] = Append(events[l], e)] EXCEPT ![h] = Append(@, g)]
         /\ UNCHANGED batches
    BY <1>0, <1>1, <1>2, <1>3, <1>4, <1>5, <1>8, <1>9, <1>12, <1>14, <1>15, <1>16 DEF CommitApprove
  <1>18. OneHead'
    BY <1>17 DEF OneHead, HeadIndex
  <1>19. CASE h = Nothing
    BY <1>0, <1>1, <1>2, <1>3, <1>4, <1>8, <1>10, <1>11, <1>13, <1>16, <1>17, <1>18, <1>19
  <1>20. CASE h # Nothing
    <2>1. h \in Lessons
      BY <1>4, <1>20 DEF Session
    <2>2. PICK q \in Row : q = row[h]
      BY <2>1, LessonFacts DEF LessonsInv
    <2>3. PICK u \in Metrics : u = s.headSnap.metrics
      BY DEF Session, Row
    <2>4. PICK w : w = [u EXCEPT !.successor = l]
      OBVIOUS
    <2>5. w \in [agg : {u.agg}, ready : {u.ready}, failures : {u.failures}, lastAt : {u.lastAt},
                 lastDates : {u.lastDates}, lastAgg : {u.lastAgg}, successor : {l}]
      BY <2>3, <2>4 DEF Metrics
    <2>6. w \in Metrics
      BY <2>3, <2>5 DEF Metrics
    <2>7. z = [q EXCEPT !.status = "superseded", !.metrics = w]
      BY <1>14, <2>2, <2>3, <2>4
    <2>8. z \in [status : {"superseded"}, dates : {q.dates}, supersedes : {q.supersedes}, metrics : {w}]
      BY <2>2, <2>7 DEF Row
    <2>9. z \in Row
      BY <2>2, <2>6, <2>8 DEF Row, Status
    <2>10. g \in Event /\ g.type = "superseded" /\ g.from = s.headSnap.status /\ g.to = "superseded"
      BY <1>15 DEF Event, EventOf, EventTypes, Status, Session, Row
    <2>11. z.status = "superseded" /\ z.dates = q.dates /\ z.supersedes = q.supersedes /\ z.metrics = w
           /\ w.agg = u.agg /\ w.successor = l
      BY <2>5, <2>8
    <2>12. /\ row' = [row EXCEPT ![l] = x, ![h] = z]
           /\ events' = [[events EXCEPT ![l] = Append(events[l], e)] EXCEPT ![h] = Append(@, g)]
      BY <1>16, <1>17, <1>20
    <2>13. /\ tx[o].head = h
           /\ row' = [row EXCEPT ![l] = x, ![h] = z]
           /\ events' = [[events EXCEPT ![l] = Append(events[l], e)] EXCEPT ![h] = Append(@, g)]
           /\ z.status = "superseded" /\ z.dates = row[h].dates /\ z.supersedes = row[h].supersedes
           /\ z.metrics.agg = tx[o].headSnap.metrics.agg /\ z.metrics.successor = l
           /\ g.type = "superseded" /\ g.from = tx[o].headSnap.status /\ g.to = "superseded"
      BY <1>1, <1>4, <2>2, <2>3, <2>10, <2>11, <2>12
    <2>14. /\ tx[o].step = "commit" /\ tx[o].command = "approve" /\ l = tx[o].lesson
           /\ x.status = "active" /\ x.dates = row[l].dates /\ x.supersedes = tx[o].head
           /\ x.metrics.agg = tx[o].snap.metrics.agg /\ x.metrics.failures = 0
           /\ x.metrics.lastDates = tx[o].snap.dates /\ x.metrics.lastAgg = tx[o].snap.metrics.agg
           /\ x.metrics.successor = tx[o].snap.metrics.successor
           /\ e.type = "approved" /\ e.from = "candidate" /\ e.to = "active"
           /\ UNCHANGED batches
      BY <1>0, <1>1, <1>2, <1>3, <1>4, <1>8, <1>11, <1>13, <1>17
    <2> HIDE <1>9, <1>14, <1>15, <1>16, <1>17
    <2> QED BY <1>10, <1>12, <1>18, <2>1, <2>9, <2>10, <2>13, <2>14
  <1> QED BY <1>19, <1>20

LEMMA RevalidateWrites ==
  ASSUME LessonsInv, NEW o \in Operators, CommitRevalidate(o), ~UNCHANGED db
  PROVE  \E l \in Lessons, x \in Row, e \in Event :
           /\ tx[o].step = "commit" /\ tx[o].command = "revalidate" /\ l = tx[o].lesson
           /\ row' = [row EXCEPT ![l] = x]
           /\ events' = [events EXCEPT ![l] = Append(events[l], e)]
           /\ UNCHANGED batches
           /\ e.from = tx[o].snap.status /\ e.to = NextStatus(tx[o].snap, tx[o].passed)
           /\ e.type = IF tx[o].passed THEN "revalidated" ELSE e.to
           /\ x.status = IF e.to = tx[o].snap.status THEN row[l].status ELSE e.to
           /\ x.dates = row[l].dates /\ x.supersedes = row[l].supersedes
           /\ x.metrics.agg = tx[o].snap.metrics.agg
           /\ x.metrics.failures = IF tx[o].passed THEN 0 ELSE tx[o].snap.metrics.failures + 1
           /\ x.metrics.lastDates = tx[o].snap.dates /\ x.metrics.lastAgg = tx[o].snap.metrics.agg
           /\ x.metrics.successor = tx[o].snap.metrics.successor
           /\ OneHead'
  <1>0. PICK l \in Lessons : l = tx[o].lesson
    BY DEF LessonsInv, AboutLesson, CommitRevalidate
  <1>1. PICK s \in Session : s = tx[o]
    BY LessonFacts DEF LessonsInv
  <1>2. PICK x0 \in Metrics : x0 = s.snap.metrics
    BY DEF Session, Row
  <1>3. PICK d \in Nat : d = s.snap.dates
    BY DEF Session, Row
  <1>4. PICK rdy \in BOOLEAN : rdy = IF l \in Checklists THEN x0.ready ELSE s.passed
    BY <1>2 DEF Metrics, Session
  <1>5. PICK f \in Nat : f = IF s.passed THEN 0 ELSE x0.failures + 1
    BY <1>2 DEF Metrics
  <1>6. PICK m : m = [x0 EXCEPT !.ready = rdy, !.lastAt = s.at, !.lastDates = d, !.lastAgg = x0.agg, !.failures = f]
    OBVIOUS
  <1>7. m \in [agg : {x0.agg}, ready : {rdy}, failures : {f}, lastAt : {s.at}, lastDates : {d},
               lastAgg : {x0.agg}, successor : {x0.successor}]
    BY <1>2, <1>6 DEF Metrics
  <1>8. m \in Metrics
    BY <1>2, <1>7 DEF Metrics, Session
  <1>9. PICK n : n = NextStatus(s.snap, s.passed)
    OBVIOUS
  <1>10. n \in {"active", "retired", "challenged"} /\ (~s.passed => n \in {"retired", "challenged"})
    BY <1>9 DEF NextStatus
  <1>11. PICK r \in Row : r = row[l]
    BY LessonFacts DEF LessonsInv
  <1>12. PICK st : st = IF n = s.snap.status THEN r.status ELSE n
    OBVIOUS
  <1>13. PICK x : x = [r EXCEPT !.status = st, !.metrics = m]
    OBVIOUS
  <1>14. x \in [status : {st}, dates : {r.dates}, supersedes : {r.supersedes}, metrics : {m}]
    BY <1>11, <1>13 DEF Row
  <1>15. x \in Row
    BY <1>8, <1>10, <1>11, <1>12, <1>14 DEF Row, Status
  <1>16. PICK e : e = EventOf(IF s.passed THEN "revalidated" ELSE n, s.snap.status, n)
    OBVIOUS
  <1>17. /\ e \in Event /\ e.from = s.snap.status /\ e.to = n
         /\ e.type = IF s.passed THEN "revalidated" ELSE n
    <2>1. PICK ty \in EventTypes : ty = IF s.passed THEN "revalidated" ELSE n
      BY <1>10 DEF EventTypes
    <2>2. e = [type |-> ty, from |-> s.snap.status, to |-> n]
      BY <1>16, <2>1 DEF EventOf
    <2> QED BY <1>10, <2>1, <2>2 DEF Event, Status, Session, Row
  <1>18. /\ x.status = st /\ x.dates = r.dates /\ x.supersedes = r.supersedes /\ x.metrics = m
         /\ m.agg = x0.agg /\ m.failures = f /\ m.lastDates = d /\ m.lastAgg = x0.agg /\ m.successor = x0.successor
    BY <1>7, <1>14
  <1>19. m = [s.snap.metrics EXCEPT
                !.ready = IF l \in Checklists THEN @ ELSE s.passed,
                !.lastAt = s.at, !.lastDates = s.snap.dates,
                !.lastAgg = s.snap.metrics.agg,
                !.failures = IF s.passed THEN 0 ELSE @ + 1]
    BY <1>2, <1>3, <1>4, <1>5, <1>6 DEF Metrics
  <1>20. PICK rows : rows = [row EXCEPT ![l].status = IF n = s.snap.status THEN @ ELSE n, ![l].metrics = m]
    OBVIOUS
  <1>21. /\ tx[o].step = "commit" /\ tx[o].command = "revalidate" /\ HeadIndex(rows) /\ row' = rows
         /\ events' = [events EXCEPT ![l] = Append(events[l], e)]
         /\ UNCHANGED batches
    BY <1>0, <1>1, <1>9, <1>16, <1>19, <1>20 DEF CommitRevalidate
  <1>22. rows = [row EXCEPT ![l] = x]
    BY <1>11, <1>12, <1>13, <1>20, LessonFacts DEF LessonsInv
  <1>23. OneHead'
    BY <1>21 DEF OneHead, HeadIndex
  <1>24. /\ l = tx[o].lesson /\ row' = [row EXCEPT ![l] = x]
         /\ e.from = tx[o].snap.status /\ e.to = NextStatus(tx[o].snap, tx[o].passed)
         /\ e.type = IF tx[o].passed THEN "revalidated" ELSE e.to
         /\ x.status = IF e.to = tx[o].snap.status THEN row[l].status ELSE e.to
         /\ x.dates = row[l].dates /\ x.supersedes = row[l].supersedes
         /\ x.metrics.agg = tx[o].snap.metrics.agg
         /\ x.metrics.failures = IF tx[o].passed THEN 0 ELSE tx[o].snap.metrics.failures + 1
         /\ x.metrics.lastDates = tx[o].snap.dates /\ x.metrics.lastAgg = tx[o].snap.metrics.agg
         /\ x.metrics.successor = tx[o].snap.metrics.successor
    BY <1>0, <1>1, <1>2, <1>3, <1>5, <1>9, <1>11, <1>12, <1>17, <1>18, <1>21, <1>22
  <1> QED BY <1>15, <1>17, <1>21, <1>23, <1>24

LEMMA CommitsClose ==
  ASSUME NEW o, CommitReplay(o) \/ CommitApprove(o) \/ CommitRevalidate(o) \/ Crash(o)
  PROVE  Close(o)
  BY DEF CommitReplay, CommitApprove, CommitRevalidate, Crash

LEMMA CommitsKeep ==
  ASSUME LessonsInv, NEW o \in Operators,
         CommitReplay(o) \/ CommitApprove(o) \/ CommitRevalidate(o) \/ Crash(o)
  PROVE  LessonsInv'
  <1>1. Close(o)
    BY CommitsClose
  <1>2. CASE UNCHANGED db
    BY <1>1, <1>2, SessionCloses DEF db, LessonsInv, TypeOK, OneHead
  <1>3. CASE CommitReplay(o) /\ ~UNCHANGED db
    <2>1. PICK l \in Lessons, x \in Row, b \in Batch, e \in Event :
            /\ row' = [row EXCEPT ![l] = x]
            /\ batches' = [batches EXCEPT ![l] = Append(batches[l], b)]
            /\ events' = [events EXCEPT ![l] = Append(events[l], e)]
            /\ x.status = row[l].status
      BY <1>3, ReplayWrites
    <2>2. row' \in [Lessons -> Row]
      BY <2>1, LessonFacts DEF LessonsInv
    <2>3. batches' \in [Lessons -> Seq(Batch)] /\ events' \in [Lessons -> Seq(Event)]
      BY <2>1, LessonFacts DEF LessonsInv
    <2>4. {k \in Lessons : row'[k].status \in Heads} = {k \in Lessons : row[k].status \in Heads}
      BY <2>1, LessonFacts DEF LessonsInv
    <2>5. OneHead'
      BY <2>4 DEF OneHead, LessonsInv
    <2> QED BY <1>1, <2>2, <2>3, <2>5, SessionCloses
  <1>4. CASE CommitApprove(o) /\ ~UNCHANGED db
    <2>1. PICK l \in Lessons, x \in Row, e \in Event :
            /\ UNCHANGED batches /\ OneHead'
            /\ \/ /\ row' = [row EXCEPT ![l] = x]
                  /\ events' = [events EXCEPT ![l] = Append(events[l], e)]
               \/ \E h \in Lessons, y \in Row, g \in Event :
                    /\ row' = [row EXCEPT ![l] = x, ![h] = y]
                    /\ events' = [[events EXCEPT ![l] = Append(events[l], e)] EXCEPT ![h] = Append(@, g)]
      BY <1>4, ApproveWrites
    <2>2. row' \in [Lessons -> Row]
      BY <2>1, LessonFacts DEF LessonsInv
    <2>3. batches' \in [Lessons -> Seq(Batch)]
      BY <2>1, LessonFacts DEF LessonsInv
    <2>4. PICK ev : ev = [events EXCEPT ![l] = Append(events[l], e)]
      OBVIOUS
    <2>5. ev \in [Lessons -> Seq(Event)]
      BY <2>4, LessonFacts DEF LessonsInv
    <2>6. events' \in [Lessons -> Seq(Event)]
      <3>1. CASE events' = ev
        BY <2>5, <3>1
      <3>2. ASSUME NEW h \in Lessons, NEW g \in Event, events' = [ev EXCEPT ![h] = Append(@, g)]
            PROVE  events' \in [Lessons -> Seq(Event)]
        BY <2>5, <3>2
      <3> QED BY <2>1, <2>4, <3>1, <3>2
    <2> QED BY <1>1, <2>1, <2>2, <2>3, <2>6, SessionCloses
  <1>5. CASE CommitRevalidate(o) /\ ~UNCHANGED db
    <2>1. PICK l \in Lessons, x \in Row, e \in Event :
            /\ row' = [row EXCEPT ![l] = x]
            /\ events' = [events EXCEPT ![l] = Append(events[l], e)]
            /\ UNCHANGED batches /\ OneHead'
      BY <1>5, RevalidateWrites
    <2>2. row' \in [Lessons -> Row] /\ batches' \in [Lessons -> Seq(Batch)]
      BY <2>1, LessonFacts DEF LessonsInv
    <2>3. events' \in [Lessons -> Seq(Event)]
      BY <2>1, LessonFacts DEF LessonsInv
    <2> QED BY <1>1, <2>1, <2>2, <2>3, SessionCloses
  <1> QED BY <1>2, <1>3, <1>4, <1>5 DEF Crash

LEMMA LessonsNextKeeps == LessonsInv /\ [Next]_vars => LessonsInv'
  <1> SUFFICES ASSUME LessonsInv, [Next]_vars PROVE LessonsInv'
    OBVIOUS
  <1>1. ASSUME NEW o \in Operators, ReadBatches(o) \/ ReadHeads(o) \/ ReadSequence(o)
        PROVE  LessonsInv'
    <2>1. tx[o].lesson \in Lessons
      BY <1>1 DEF LessonsInv, AboutLesson, ReadBatches, ReadHeads, ReadSequence
    <2>2. PICK t \in Session : /\ tx' = [tx EXCEPT ![o] = t] /\ UNCHANGED <<db, mature, clock>>
                               /\ t = Closed \/ t.lesson = tx[o].lesson
      BY <1>1, ReadsMove
    <2>3. t.step # "idle" => t.lesson \in Lessons
      BY <2>1, <2>2 DEF Closed
    <2>4. clock' \in 0..MaxClock
      BY <2>2, LessonFacts DEF LessonsInv
    <2> QED BY <2>2, <2>3, <2>4, SessionMoves
  <1>2. ASSUME NEW o \in Operators, NEW l \in Lessons, NEW at \in Times,
               \/ \E obs \in (SUBSET Dates) \ {{}} : LoadReplay(o, l, obs, at)
               \/ LoadApprove(o, l, at)
               \/ \E valid \in BOOLEAN : LoadRevalidate(o, l, valid, at)
        PROVE  LessonsInv'
    <2>1. \E t \in Session : Open(o, t) /\ t.lesson = l
      BY <1>2, LoadsOpen
    <2> QED BY <2>1, OpenKeeps
  <1>3. CASE Mature
    BY <1>3 DEF Mature, db, LessonsInv, TypeOK, AboutLesson, OneHead
  <1>4. CASE UNCHANGED vars
    BY <1>4 DEF vars, LessonsInv, TypeOK, AboutLesson, OneHead
  <1> QED BY <1>1, <1>2, <1>3, <1>4, ProposeKeeps, CommitsKeep DEF Next

\* However commands overlap and wherever they are killed, the cluster has at most one
\* lesson in force (uq_lesson_active_cluster_head).
THEOREM OneLessonInForce == Spec => []OneHead
  <1>1. LessonsInv => OneHead
    BY DEF LessonsInv
  <1> QED BY <1>1, LessonsInitHolds, LessonsNextKeeps, PTL DEF Spec

-----------------------------------------------------------------------------
(* Commands in turn: what an append keeps.                                  *)

LEMMA BatchesAppended ==
  ASSUME NEW l, NEW r, NEW q, NEW b \in Seq(Batch), NEW x \in Batch, NEW c \in Nat,
         BatchesOK(l, r, b, c), \A i \in DOMAIN b : b[i].at < x.at, x.at <= c,
         x.agg = x.obs \cup UNION {b[i].obs : i \in DOMAIN b},
         x.obs \cap UNION {b[i].obs : i \in DOMAIN b} = {},
         q.metrics.agg = x.agg, q.dates = Cardinality(x.agg)
  PROVE  BatchesOK(l, q, Append(b, x), c)
  <1>1. PICK n \in Nat : n = Len(b) /\ DOMAIN b = 1..n
    OBVIOUS
  <1>2. PICK d : d = Append(b, x)
    OBVIOUS
  <1>3. /\ d \in Seq(Batch) /\ Len(d) = n + 1 /\ DOMAIN d = 1..(n + 1) /\ d # <<>>
        /\ d[n + 1] = x /\ \A i \in 1..n : d[i] = b[i]
    BY <1>1, <1>2
  <1>4. \A i \in DOMAIN b : b[i] \in Batch
    OBVIOUS
  <1>5. x.at \in Nat /\ \A i \in DOMAIN b : b[i].at \in Nat
    BY <1>4 DEF Batch
  <1> HIDE <1>2
  <1>6. \A i, j \in DOMAIN d : i < j => d[i].at < d[j].at /\ d[i].obs \cap d[j].obs = {}
    <2> SUFFICES ASSUME NEW i \in 1..(n + 1), NEW j \in 1..(n + 1), i < j
                 PROVE  d[i].at < d[j].at /\ d[i].obs \cap d[j].obs = {}
      BY <1>3
    <2>1. CASE j = n + 1
      BY <1>1, <1>3, <2>1
    <2>2. CASE j \in 1..n
      BY <1>1, <1>3, <2>2 DEF BatchesOK
    <2> QED BY <2>1, <2>2
  <1>7. \A i \in DOMAIN d : d[i].at <= c
    BY <1>1, <1>3 DEF BatchesOK
  <1>8. \A j \in DOMAIN d : d[j].agg = UNION {d[i].obs : i \in 1..j}
    <2> SUFFICES ASSUME NEW j \in 1..(n + 1) PROVE d[j].agg = UNION {d[i].obs : i \in 1..j}
      BY <1>3
    <2>1. CASE j \in 1..n
      <3>1. {d[i].obs : i \in 1..j} = {b[i].obs : i \in 1..j}
        BY <1>3, <2>1
      <3> QED BY <1>1, <1>3, <2>1, <3>1 DEF BatchesOK
    <2>2. CASE j = n + 1
      <3>1. {d[i].obs : i \in 1..j} = {b[i].obs : i \in 1..n} \cup {x.obs}
        <4>1. \A i \in 1..j : i \in 1..n \/ i = n + 1
          BY <2>2
        <4>2. 1..n \subseteq 1..j /\ n + 1 \in 1..j
          BY <2>2
        <4> QED BY <1>3, <4>1, <4>2
      <3> QED BY <1>1, <1>3, <2>2, <3>1
    <2> QED BY <2>1, <2>2
  <1> QED BY <1>2, <1>3, <1>6, <1>7, <1>8 DEF BatchesOK

LEMMA EventsAppended ==
  ASSUME NEW r, NEW q, NEW e \in Seq(Event), NEW g \in Event, NEW n \in Nat,
         EventsOK(r, e, n), r.status # "absent", g.from = r.status, q.status = g.to, g.to # "absent",
         <<g.from, g.to>> \in Allowed[g.type]
  PROVE  EventsOK(q, Append(e, g), IF g.type = "replay_recorded" THEN n + 1 ELSE n)
  <1>1. PICK k \in Nat : k = Len(e) /\ DOMAIN e = 1..k /\ (e = <<>> <=> k = 0)
    OBVIOUS
  <1>2. PICK d : d = Append(e, g)
    OBVIOUS
  <1>3. /\ Len(d) = k + 1 /\ DOMAIN d = 1..(k + 1) /\ d # <<>>
        /\ d[k + 1] = g /\ \A i \in 1..k : d[i] = e[i]
    BY <1>1, <1>2
  <1> HIDE <1>2
  <1>4. ASSUME NEW i \in DOMAIN d
        PROVE  /\ <<d[i].from, d[i].to>> \in Allowed[d[i].type]
               /\ d[i].from = IF i = 1 THEN "candidate" ELSE d[i - 1].to
    <2>1. CASE i \in 1..k
      <3>1. i = 1 \/ i - 1 \in 1..k
        BY <2>1
      <3>2. d[i] = e[i] /\ (i # 1 => d[i - 1] = e[i - 1])
        BY <1>3, <2>1, <3>1
      <3>3. /\ <<e[i].from, e[i].to>> \in Allowed[e[i].type]
            /\ e[i].from = IF i = 1 THEN "candidate" ELSE e[i - 1].to
        BY <1>1, <2>1 DEF EventsOK
      <3> QED BY <3>2, <3>3
    <2>2. CASE i = k + 1
      <3>1. d[i] = g /\ g.from = IF e = <<>> THEN "candidate" ELSE e[Len(e)].to
        BY <1>3, <2>2 DEF EventsOK
      <3>2. CASE k = 0
        BY <1>1, <2>2, <3>1, <3>2
      <3>3. CASE k # 0
        <4>1. i # 1 /\ i - 1 = k /\ k \in 1..k
          BY <2>2, <3>3
        <4>2. d[i - 1] = e[k] /\ g.from = e[k].to
          BY <1>1, <1>3, <3>1, <3>3, <4>1
        <4> QED BY <3>1, <4>1, <4>2
      <3> QED BY <3>2, <3>3
    <2> QED BY <1>3, <2>1, <2>2
  <1>5. Cardinality({i \in DOMAIN d : d[i].type = "replay_recorded"})
          = IF g.type = "replay_recorded" THEN n + 1 ELSE n
    <2> DEFINE old == {i \in DOMAIN e : e[i].type = "replay_recorded"}
    <2>1. IsFiniteSet(1..k)
      BY FS_Interval
    <2>2. IsFiniteSet(old) /\ Cardinality(old) = n /\ k + 1 \notin old
      BY <1>1, <2>1, FS_Subset DEF EventsOK
    <2>3. {i \in DOMAIN d : d[i].type = "replay_recorded"}
            = IF g.type = "replay_recorded" THEN old \cup {k + 1} ELSE old
      <3>1. \A i : i \in DOMAIN d <=> i \in DOMAIN e \/ i = k + 1
        BY <1>1, <1>3
      <3>2. k + 1 \notin DOMAIN e
        BY <1>1
      <3> QED BY <1>1, <1>3, <3>1, <3>2
    <2> HIDE DEF old
    <2>4. Cardinality(old \cup {k + 1}) = n + 1
      BY <2>2, FS_AddElement
    <2> QED BY <2>2, <2>3, <2>4
  <1> QED BY ZenonT(40), <1>2, <1>3, <1>4, <1>5 DEF EventsOK

LEMMA LineageStands ==
  ASSUME TypeOK, \A k \in Lessons : LineageVerifies(k),
         \A k \in Lessons : /\ row'[k].supersedes = row[k].supersedes
                            /\ row'[k].metrics.successor = row[k].metrics.successor
                            /\ row'[k].status = "superseded" <=> row[k].status = "superseded"
  PROVE  \A k \in Lessons : LineageVerifies(k)'
  <1> SUFFICES ASSUME NEW k \in Lessons PROVE LineageVerifies(k)'
    OBVIOUS
  <1>1. row[k].supersedes \in Lessons \cup {Nothing} /\ row[k].metrics.successor \in Lessons \cup {Nothing}
    BY LessonFacts DEF Metrics
  <1> QED BY <1>1 DEF LineageVerifies

LEMMA TurnsInitHolds == Init => TurnsInv
  <1> SUFFICES ASSUME Init PROVE TurnsInv
    OBVIOUS
  <1>1. ASSUME NEW l \in Lessons PROVE LessonOK(l) /\ LineageVerifies(l)
    <2>1. row[l] = NoRow /\ batches[l] = <<>> /\ events[l] = <<>> /\ clock = 0
      BY DEF Init
    <2>2. /\ NoRow.status = "absent" /\ NoRow.supersedes = Nothing
      BY DEF NoRow
    <2>3. Cardinality({i \in DOMAIN events[l] : events[l][i].type = "replay_recorded"}) = 0
      <3>1. {i \in DOMAIN events[l] : events[l][i].type = "replay_recorded"} = {}
        BY <2>1
      <3> QED BY <3>1, FS_EmptySet
    <2>4. BatchesOK(l, row[l], batches[l], clock)
      BY <2>1, <2>2 DEF BatchesOK
    <2>5. EventsOK(row[l], events[l], Len(batches[l]))
      BY <2>1, <2>2, <2>3 DEF EventsOK
    <2>6. RowOK(l, row[l]) /\ LineageVerifies(l)
      BY <2>1, <2>2 DEF RowOK, Heads, LineageVerifies
    <2> QED BY <2>4, <2>5, <2>6 DEF LessonOK
  <1>2. \A o \in Operators : tx[o].step = "idle"
    BY DEF Init, Closed
  <1> QED BY <1>1, <1>2 DEF TurnsInv, TakeTurns, SessionOK

LEMMA TablesStand ==
  ASSUME LessonsInv, TurnsInv, UNCHANGED db, clock' \in Nat, clock <= clock'
  PROVE  \A l \in Lessons : LessonOK(l)' /\ LineageVerifies(l)'
  <1> SUFFICES ASSUME NEW l \in Lessons PROVE LessonOK(l)' /\ LineageVerifies(l)'
    OBVIOUS
  <1>1. row' = row /\ batches' = batches /\ events' = events
    BY DEF db
  <1>2. \A i \in DOMAIN batches[l] : batches[l][i] \in Batch
    BY LessonFacts DEF LessonsInv
  <1>3. \A i \in DOMAIN batches[l] : batches[l][i].at \in Nat
    BY <1>2 DEF Batch
  <1>4. BatchesOK(l, row[l], batches[l], clock')
    BY <1>3, LessonFacts DEF LessonsInv, TurnsInv, LessonOK, BatchesOK
  <1>5. LessonOK(l)'
    BY <1>1, <1>4 DEF TurnsInv, LessonOK
  <1>6. LineageVerifies(l)'
    BY <1>1 DEF TurnsInv, LineageVerifies
  <1> QED BY <1>5, <1>6

LEMMA OthersIdle ==
  ASSUME LessonsInv, TakeTurns, TakeTurns', NEW o \in Operators, NEW t, tx' = [tx EXCEPT ![o] = t],
         tx[o].step # "idle" \/ t.step # "idle"
  PROVE  \A q \in Operators \ {o} : tx'[q].step = "idle"
  BY LessonFacts DEF TakeTurns, LessonsInv

\* A read of a command that runs alone.
LEMMA TurnMoves ==
  ASSUME LessonsInv, TurnsInv, TakeTurns', UNCHANGED db, clock' \in Nat, clock <= clock',
         NEW o \in Operators, NEW t, tx' = [tx EXCEPT ![o] = t],
         tx[o].step # "idle" \/ t.step # "idle", SessionOK(o)'
  PROVE  TurnsInv'
  <1>1. \A q \in Operators \ {o} : SessionOK(q)'
    BY OthersIdle DEF TurnsInv, SessionOK
  <1> QED BY <1>1, TablesStand DEF TurnsInv

\* The transaction of a command that runs alone.
LEMMA TurnEnds ==
  ASSUME LessonsInv, TurnsInv, TakeTurns', NEW o \in Operators, Close(o), tx[o].step # "idle",
         \A l \in Lessons : LessonOK(l)' /\ LineageVerifies(l)'
  PROVE  TurnsInv'
  <1>1. \A q \in Operators : tx'[q].step = "idle"
    BY OthersIdle, LessonFacts DEF Close, Closed, LessonsInv, TurnsInv
  <1> QED BY <1>1 DEF TurnsInv, SessionOK

LEMMA LoadsInTurn ==
  ASSUME LessonsInv, TurnsInv, TakeTurns', ~Backdating, NEW o \in Operators, NEW l \in Lessons, NEW at \in Times,
         \/ \E obs \in (SUBSET Dates) \ {{}} : LoadReplay(o, l, obs, at)
         \/ LoadApprove(o, l, at)
         \/ \E valid \in BOOLEAN : LoadRevalidate(o, l, valid, at)
  PROVE  TurnsInv'
  <1>1. PICK t \in Session :
          /\ Open(o, t) /\ t.lesson = l /\ t.at = at /\ t.snap = row[l] /\ t.step # "idle"
          /\ \/ /\ t.command = "replay" /\ t.step = "batches"
                /\ row[l].status \in {"candidate", "active", "challenged"}
             \/ /\ t.command = "approve" /\ t.step = "heads" /\ t.head = Nothing
                /\ row[l].status = "candidate" /\ Eligible(l, row[l])
             \/ /\ t.command = "revalidate" /\ t.step = "sequence" /\ row[l].status \in Heads
                /\ \E valid \in BOOLEAN : t.passed = Passes(l, row[l], valid)
    <2>1. CASE \E obs \in (SUBSET Dates) \ {{}} : LoadReplay(o, l, obs, at)
      <3>1. PICK t \in Session :
              /\ Open(o, t) /\ t.step = "batches" /\ t.command = "replay"
              /\ t.lesson = l /\ t.at = at /\ t.snap = row[l]
              /\ row[l].status \in {"candidate", "active", "challenged"}
        BY <2>1, LoadsOpen
      <3> QED BY <3>1
    <2>2. CASE LoadApprove(o, l, at)
      <3>1. PICK t \in Session :
              /\ Open(o, t) /\ t.step = "heads" /\ t.command = "approve"
              /\ t.lesson = l /\ t.at = at /\ t.snap = row[l] /\ t.head = Nothing
              /\ row[l].status = "candidate" /\ Eligible(l, row[l])
        BY <2>2, LoadsOpen
      <3> QED BY <3>1
    <2>3. CASE \E valid \in BOOLEAN : LoadRevalidate(o, l, valid, at)
      <3>1. PICK valid \in BOOLEAN : LoadRevalidate(o, l, valid, at)
        BY <2>3
      <3>2. PICK t \in Session :
              /\ Open(o, t) /\ t.step = "sequence" /\ t.command = "revalidate"
              /\ t.lesson = l /\ t.at = at /\ t.snap = row[l] /\ row[l].status \in Heads
              /\ t.passed = Passes(l, row[l], valid)
        BY <3>1, LoadsOpen
      <3> QED BY <3>2
    <2> QED BY <2>1, <2>2, <2>3
  <1>2. /\ tx' = [tx EXCEPT ![o] = t] /\ UNCHANGED db /\ clock' = clock + 1 /\ at = clock + 1
        /\ clock \in Nat /\ tx'[o] = t
    BY <1>1, LessonFacts DEF Open, Times, LessonsInv
  <1>3. \A i \in DOMAIN batches[l] : batches[l][i].at < at
    <2>1. \A i \in DOMAIN batches[l] : batches[l][i] \in Batch
      BY LessonFacts DEF LessonsInv
    <2>2. \A i \in DOMAIN batches[l] : batches[l][i].at \in Nat
      BY <2>1 DEF Batch
    <2> QED BY <1>2, <2>2 DEF TurnsInv, LessonOK, BatchesOK
  <1>4. row' = row /\ batches' = batches
    BY <1>2 DEF db
  <1>5. t.command = "revalidate" /\ t.passed /\ l \notin Checklists =>
          /\ FreshReplay(row[l])
          /\ Cardinality(row[l].metrics.agg) >= MinDates /\ Improves(row[l].metrics.agg)
    BY <1>1 DEF Passes, Ready
  <1>6. SessionOK(o)'
    <2>1. Eligible(l, row[l])' <=> Eligible(l, row[l])
      BY <1>4 DEF Eligible
    <2> QED BY <1>1, <1>2, <1>3, <1>4, <1>5, <2>1 DEF SessionOK
  <1>7. clock' \in Nat /\ clock <= clock'
    BY <1>2
  <1> QED BY <1>1, <1>2, <1>6, <1>7, TurnMoves

LEMMA ReadsInTurn ==
  ASSUME LessonsInv, TurnsInv, TakeTurns', NEW o \in Operators,
         ReadBatches(o) \/ ReadHeads(o) \/ ReadSequence(o)
  PROVE  TurnsInv'
  <1>1. SessionOK(o) /\ tx[o].step # "idle" /\ tx[o].lesson \in Lessons
    BY DEF TurnsInv, ReadBatches, ReadHeads, ReadSequence, LessonsInv, AboutLesson
  <1>2. PICK t \in Session :
          /\ tx' = [tx EXCEPT ![o] = t] /\ UNCHANGED <<db, mature, clock>>
          /\ \/ t = Closed
             \/ /\ tx[o].step = "batches" /\ t.step = "commit" /\ t.command = tx[o].command
                /\ t.lesson = tx[o].lesson /\ t.at = tx[o].at /\ t.snap = tx[o].snap
                /\ t.agg = t.obs \cup Recorded(t.lesson) /\ t.obs \cap Recorded(t.lesson) = {}
             \/ /\ tx[o].step = "heads" /\ t.step = "sequence" /\ t.command = tx[o].command
                /\ t.lesson = tx[o].lesson /\ t.at = tx[o].at /\ t.snap = tx[o].snap
                /\ \/ t.head = tx[o].head /\ t.headSnap = tx[o].headSnap
                   \/ t.head \in HeadsOf(t.lesson) /\ t.headSnap = row[t.head]
             \/ /\ tx[o].step = "sequence" /\ t.step = "commit" /\ t.command = tx[o].command
                /\ t.lesson = tx[o].lesson /\ t.at = tx[o].at /\ t.snap = tx[o].snap
                /\ t.passed = tx[o].passed /\ t.head = tx[o].head /\ t.headSnap = tx[o].headSnap
    <2>1. CASE ReadBatches(o)
      BY <2>1, ReadsMove
    <2>2. CASE ReadHeads(o)
      BY <2>2, ReadsMove
    <2>3. CASE ReadSequence(o)
      BY <2>3, ReadsMove
    <2> QED BY <2>1, <2>2, <2>3
  <1>3. row' = row /\ batches' = batches /\ events' = events /\ clock' = clock /\ tx'[o] = t
    BY <1>2, LessonFacts DEF db, LessonsInv
  <1>4. PICK l \in Lessons : l = tx[o].lesson
    BY <1>1
  <1>5. /\ Eligible(l, row[l])' <=> Eligible(l, row[l])
        /\ HeadsOf(l)' = HeadsOf(l) /\ Recorded(l)' = Recorded(l)
    BY <1>3 DEF Eligible, HeadsOf, Recorded
  <1>6. SessionOK(o)'
    <2>1. CASE t = Closed
      BY <1>3, <2>1 DEF SessionOK, Closed
    <2>2. CASE tx[o].step = "batches" /\ t # Closed
      BY <1>1, <1>2, <1>3, <1>4, <1>5, <2>2 DEF SessionOK
    <2>3. CASE tx[o].step = "heads" /\ t # Closed
      BY <1>1, <1>2, <1>3, <1>4, <1>5, <2>3 DEF SessionOK
    <2>4. CASE tx[o].step = "sequence" /\ t # Closed
      BY <1>1, <1>2, <1>3, <1>4, <1>5, <2>4 DEF SessionOK
    <2> QED BY <1>2, <2>1, <2>2, <2>3, <2>4
  <1>7. clock' \in Nat /\ clock <= clock'
    BY <1>3, LessonFacts DEF LessonsInv
  <1> QED BY <1>1, <1>2, <1>6, <1>7, TurnMoves

LEMMA ReplayInTurn ==
  ASSUME LessonsInv, TurnsInv, TakeTurns', NEW o \in Operators, CommitReplay(o), ~UNCHANGED db
  PROVE  TurnsInv'
  <1>1. PICK l \in Lessons, x \in Row, b \in Batch, e \in Event :
           /\ tx[o].step = "commit" /\ tx[o].command = "replay" /\ l = tx[o].lesson
           /\ row' = [row EXCEPT ![l] = x]
           /\ batches' = [batches EXCEPT ![l] = Append(batches[l], b)]
           /\ events' = [events EXCEPT ![l] = Append(events[l], e)]
           /\ x.status = row[l].status /\ x.dates = Cardinality(tx[o].agg) /\ x.supersedes = row[l].supersedes
           /\ x.metrics.agg = tx[o].agg /\ x.metrics.failures = tx[o].snap.metrics.failures
           /\ x.metrics.lastDates = tx[o].snap.metrics.lastDates
           /\ x.metrics.lastAgg = tx[o].snap.metrics.lastAgg
           /\ x.metrics.successor = tx[o].snap.metrics.successor
           /\ b.at = tx[o].at /\ b.obs = tx[o].obs /\ b.agg = tx[o].agg
           /\ e.type = "replay_recorded" /\ e.from = tx[o].snap.status /\ e.to = tx[o].snap.status
    BY ReplayWrites
  <1>2. Close(o) /\ tx[o].step # "idle" /\ clock' = clock
    BY <1>1, CommitsClose DEF Close
  <1>3. /\ tx[o].snap = row[l] /\ tx[o].at <= clock
        /\ \A i \in DOMAIN batches[l] : batches[l][i].at < tx[o].at
        /\ row[l].status \in {"candidate", "active", "challenged"}
        /\ tx[o].agg = tx[o].obs \cup Recorded(l) /\ tx[o].obs \cap Recorded(l) = {}
    BY <1>1 DEF TurnsInv, SessionOK
  <1>4. PICK r \in Row, c \in Nat, bs \in Seq(Batch), es \in Seq(Event) :
          r = row[l] /\ c = clock /\ bs = batches[l] /\ es = events[l]
    BY LessonFacts DEF LessonsInv
  <1>written. /\ x.status = r.status /\ x.supersedes = r.supersedes
              /\ x.metrics.successor = r.metrics.successor
              /\ r.status \in {"candidate", "active", "challenged"}
              /\ e.type = "replay_recorded" /\ e.from = r.status /\ e.to = r.status
    <2>1. tx[o].snap = r
      BY <1>3, <1>4
    <2>2. row[l].status = r.status /\ row[l].supersedes = r.supersedes
      BY <1>4
    <2>3. r.status \in {"candidate", "active", "challenged"}
      BY <1>3, <1>4
    <2> QED BY <1>1, <2>1, <2>2, <2>3
  <1>5. BatchesOK(l, r, bs, c) /\ EventsOK(r, es, Len(bs)) /\ RowOK(l, r)
    BY <1>4 DEF TurnsInv, LessonOK
  <1>6. BatchesOK(l, x, Append(bs, b), c)
    <2>1. Recorded(l) = UNION {bs[i].obs : i \in DOMAIN bs}
      BY <1>4 DEF Recorded
    <2>2. /\ \A i \in DOMAIN bs : bs[i].at < b.at
          /\ b.at <= c
          /\ b.agg = b.obs \cup UNION {bs[i].obs : i \in DOMAIN bs}
          /\ b.obs \cap UNION {bs[i].obs : i \in DOMAIN bs} = {}
      BY <1>1, <1>3, <1>4, <2>1
    <2>3. x.metrics.agg = b.agg /\ x.dates = Cardinality(b.agg)
      BY <1>1
    <2> QED BY <1>5, <2>2, <2>3, BatchesAppended
  <1>7. EventsOK(x, Append(es, e), Len(bs) + 1)
    <2>1. <<e.from, e.to>> \in Allowed[e.type]
      BY <1>written DEF Allowed
    <2>2. Len(bs) \in Nat
      OBVIOUS
    <2>3. EventsOK(x, Append(es, e), IF e.type = "replay_recorded" THEN Len(bs) + 1 ELSE Len(bs))
      BY <1>written, <1>5, <2>1, <2>2, EventsAppended
    <2> QED BY <1>written, <2>3
  <1>8. RowOK(l, x)
    BY <1>1, <1>3, <1>4, <1>5 DEF RowOK
  <1>9. /\ row'[l] = x /\ batches'[l] = Append(bs, b) /\ events'[l] = Append(es, e)
        /\ \A k \in Lessons \ {l} : row'[k] = row[k] /\ batches'[k] = batches[k] /\ events'[k] = events[k]
    BY <1>1, <1>4, LessonFacts DEF LessonsInv
  <1>10. Len(Append(bs, b)) = Len(bs) + 1
    OBVIOUS
  <1>11. LessonOK(l)'
    BY <1>2, <1>4, <1>6, <1>7, <1>8, <1>9, <1>10 DEF LessonOK
  <1>12. \A k \in Lessons \ {l} : LessonOK(k)'
    BY <1>2, <1>9 DEF TurnsInv, LessonOK
  <1>13. \A k \in Lessons : /\ row'[k].supersedes = row[k].supersedes
                            /\ row'[k].metrics.successor = row[k].metrics.successor
                            /\ row'[k].status = "superseded" <=> row[k].status = "superseded"
    BY <1>written, <1>4, <1>9
  <1>14. \A k \in Lessons : LineageVerifies(k)'
    BY <1>13, LineageStands DEF LessonsInv, TurnsInv
  <1> QED BY <1>2, <1>11, <1>12, <1>14, TurnEnds

LEMMA ApproveInTurn ==
  ASSUME LessonsInv, TurnsInv, TakeTurns', NEW o \in Operators, CommitApprove(o), ~UNCHANGED db
  PROVE  TurnsInv'
  <1>1. PICK l \in Lessons, x \in Row, e \in Event :
           /\ tx[o].step = "commit" /\ tx[o].command = "approve" /\ l = tx[o].lesson
           /\ x.status = "active" /\ x.dates = row[l].dates /\ x.supersedes = tx[o].head
           /\ x.metrics.agg = tx[o].snap.metrics.agg /\ x.metrics.failures = 0
           /\ x.metrics.lastDates = tx[o].snap.dates /\ x.metrics.lastAgg = tx[o].snap.metrics.agg
           /\ x.metrics.successor = tx[o].snap.metrics.successor
           /\ e.type = "approved" /\ e.from = "candidate" /\ e.to = "active"
           /\ UNCHANGED batches
           /\ \/ /\ tx[o].head = Nothing
                 /\ row' = [row EXCEPT ![l] = x]
                 /\ events' = [events EXCEPT ![l] = Append(events[l], e)]
              \/ \E h \in Lessons, y \in Row, g \in Event :
                   /\ tx[o].head = h
                   /\ row' = [row EXCEPT ![l] = x, ![h] = y]
                   /\ events' = [[events EXCEPT ![l] = Append(events[l], e)] EXCEPT ![h] = Append(@, g)]
                   /\ y.status = "superseded" /\ y.dates = row[h].dates /\ y.supersedes = row[h].supersedes
                   /\ y.metrics.agg = tx[o].headSnap.metrics.agg /\ y.metrics.successor = l
                   /\ g.type = "superseded" /\ g.from = tx[o].headSnap.status /\ g.to = "superseded"
    BY ApproveWrites
  <1>2. Close(o) /\ tx[o].step # "idle" /\ clock' = clock
    BY <1>1, CommitsClose DEF Close
  <1>3. /\ tx[o].snap = row[l] /\ row[l].status = "candidate" /\ Eligible(l, row[l])
        /\ tx[o].head # Nothing => tx[o].head \in HeadsOf(l) /\ tx[o].headSnap = row[tx[o].head]
    BY <1>1 DEF TurnsInv, SessionOK
  <1>4. PICK r \in Row, c \in Nat, bs \in Seq(Batch), es \in Seq(Event) :
          r = row[l] /\ c = clock /\ bs = batches[l] /\ es = events[l]
    BY LessonFacts DEF LessonsInv
  <1>written. /\ x.status = "active" /\ x.dates = r.dates /\ x.metrics.agg = r.metrics.agg
              /\ x.metrics.failures = 0 /\ x.metrics.lastDates = r.dates
              /\ x.metrics.lastAgg = r.metrics.agg /\ r.status = "candidate"
              /\ e.type = "approved" /\ e.from = "candidate" /\ e.to = "active"
    <2>1. tx[o].snap = r
      BY <1>3, <1>4
    <2>2. r.status = "candidate" /\ row[l].dates = r.dates
      BY <1>3, <1>4
    <2> QED BY <1>1, <2>1, <2>2
  <1>5. BatchesOK(l, r, bs, c) /\ EventsOK(r, es, Len(bs)) /\ RowOK(l, r)
    BY <1>4 DEF TurnsInv, LessonOK
  <1>6. l \notin Checklists => /\ bs # <<>> /\ r.dates = Cardinality(r.metrics.agg)
                               /\ r.dates >= MinDates /\ Improves(r.metrics.agg)
    BY <1>3, <1>4, <1>5 DEF Eligible, BatchesOK
  <1>7. BatchesOK(l, x, bs, c)
    BY <1>written, <1>5, <1>6 DEF BatchesOK
  <1>8. EventsOK(x, Append(es, e), Len(bs))
    <2>1. <<e.from, e.to>> \in Allowed[e.type]
      BY <1>written DEF Allowed
    <2>2. Len(bs) \in Nat
      OBVIOUS
    <2>3. EventsOK(x, Append(es, e), IF e.type = "replay_recorded" THEN Len(bs) + 1 ELSE Len(bs))
      BY <1>written, <1>5, <2>1, <2>2, EventsAppended
    <2> QED BY <1>written, <2>3
  <1>9. RowOK(l, x)
    BY <1>written, <1>6 DEF RowOK
  <1>10. row[l].supersedes = Nothing /\ Nothing \notin Lessons
    BY <1>3, <1>4, <1>5, LessonConfiguration DEF RowOK, LessonConfiguration
  <1>11. \A k \in Lessons : row[k].metrics.successor \in Lessons \cup {Nothing}
    BY LessonFacts DEF LessonsInv, Metrics
  <1>12. CASE tx[o].head = Nothing
    <2>0. /\ row' = [row EXCEPT ![l] = x] /\ events' = [events EXCEPT ![l] = Append(events[l], e)]
          /\ batches' = batches
      <3>1. \A h \in Lessons : tx[o].head # h
        BY <1>10, <1>12
      <3> QED BY <1>1, <3>1
    <2>1. /\ row'[l] = x /\ events'[l] = Append(es, e) /\ batches' = batches
          /\ \A k \in Lessons \ {l} : row'[k] = row[k] /\ events'[k] = events[k]
      BY <1>4, <2>0, LessonFacts DEF LessonsInv
    <2>2. LessonOK(l)'
      BY <1>2, <1>4, <1>7, <1>8, <1>9, <2>1 DEF LessonOK
    <2>3. \A k \in Lessons \ {l} : LessonOK(k)'
      BY <1>2, <2>1 DEF TurnsInv, LessonOK
    <2>4. \A k \in Lessons : /\ row'[k].supersedes = row[k].supersedes
                             /\ row'[k].metrics.successor = row[k].metrics.successor
                             /\ row'[k].status = "superseded" <=> row[k].status = "superseded"
      <3>1. x.supersedes = Nothing /\ x.metrics.successor = r.metrics.successor
        BY <1>1, <1>3, <1>4, <1>12
      <3> QED BY <1>written, <1>4, <1>10, <2>1, <3>1
    <2>5. \A k \in Lessons : LineageVerifies(k)'
      BY <2>4, LineageStands DEF LessonsInv, TurnsInv
    <2> QED BY <1>2, <2>2, <2>3, <2>5, TurnEnds
  <1>13. CASE tx[o].head # Nothing
    <2>1. PICK h \in Lessons, y \in Row, g \in Event :
            /\ tx[o].head = h
            /\ row' = [row EXCEPT ![l] = x, ![h] = y]
            /\ events' = [[events EXCEPT ![l] = Append(events[l], e)] EXCEPT ![h] = Append(@, g)]
            /\ y.status = "superseded" /\ y.dates = row[h].dates /\ y.supersedes = row[h].supersedes
            /\ y.metrics.agg = tx[o].headSnap.metrics.agg /\ y.metrics.successor = l
            /\ g.type = "superseded" /\ g.from = tx[o].headSnap.status /\ g.to = "superseded"
      BY <1>1, <1>13
    <2>2. h # l /\ row[h].status \in Heads /\ tx[o].headSnap = row[h]
      BY <1>3, <1>13, <2>1 DEF HeadsOf
    <2>3. PICK fs \in Seq(Event), ds \in Seq(Batch), q \in Row : fs = events[h] /\ ds = batches[h] /\ q = row[h]
      BY LessonFacts DEF LessonsInv
    <2>4. /\ row'[l] = x /\ row'[h] = y /\ events'[l] = Append(es, e) /\ events'[h] = Append(fs, g)
          /\ batches' = batches
          /\ \A k \in Lessons \ {l, h} : row'[k] = row[k] /\ events'[k] = events[k]
      BY ZenonT(40), <1>1, <1>4, <2>1, <2>2, <2>3, LessonFacts DEF LessonsInv
    <2>5. LessonOK(l)'
      BY <1>2, <1>4, <1>7, <1>8, <1>9, <2>4 DEF LessonOK
    <2>6. LessonOK(h)'
      <3>1. BatchesOK(h, q, ds, c) /\ EventsOK(q, fs, Len(ds))
        BY <1>4, <2>3 DEF TurnsInv, LessonOK
      <3>2. BatchesOK(h, y, ds, c)
        BY <2>1, <2>2, <2>3, <3>1 DEF BatchesOK, Heads
      <3>3. <<g.from, g.to>> \in Allowed[g.type]
        BY <2>1, <2>2 DEF Allowed
      <3>4. EventsOK(y, Append(fs, g), IF g.type = "replay_recorded" THEN Len(ds) + 1 ELSE Len(ds))
        <4>1. q.status # "absent" /\ g.from = q.status /\ y.status = g.to /\ g.to # "absent" /\ Len(ds) \in Nat
          BY <2>1, <2>2, <2>3 DEF Heads
        <4> QED BY <3>1, <3>3, <4>1, EventsAppended
      <3>5. RowOK(h, y)
        BY <2>1 DEF RowOK, Heads
      <3> QED BY <1>2, <1>4, <2>1, <2>3, <2>4, <3>2, <3>4, <3>5 DEF LessonOK
    <2>7. \A k \in Lessons \ {l, h} : LessonOK(k)'
      BY <1>2, <2>4 DEF TurnsInv, LessonOK
    <2>8. ASSUME NEW k \in Lessons PROVE LineageVerifies(k)'
      <3>1. row'[k].supersedes # Nothing =>
              row'[row'[k].supersedes].status = "superseded" /\ row'[row'[k].supersedes].metrics.successor = k
        <4>1. CASE k = l
          <5>1. x.supersedes = h
            BY <1>1, <2>1
          <5> QED BY <2>1, <2>4, <4>1, <5>1
        <4>2. CASE k # l
          <5>1. row'[k].supersedes = row[k].supersedes
            BY <2>1, <2>4, <4>2
          <5>2. PICK p : p = row[k].supersedes
            OBVIOUS
          <5>3. p # Nothing => row[p].status = "superseded" /\ row[p].metrics.successor = k
            BY <5>2 DEF TurnsInv, LineageVerifies
          <5>4. p # Nothing => p \in Lessons
            BY <5>2, LessonFacts DEF LessonsInv
          <5>5. p # Nothing => row'[p] = row[p]
            BY <1>3, <2>2, <2>4, <5>3, <5>4 DEF Heads
          <5> QED BY <5>1, <5>2, <5>3, <5>5
        <4> QED BY <4>1, <4>2
      <3>2. row'[k].status = "superseded" =>
              row'[k].metrics.successor # Nothing /\ row'[row'[k].metrics.successor].supersedes = k
        <4>1. CASE k = l
          BY <1>written, <2>4, <4>1
        <4>2. CASE k = h
          <5>1. x.supersedes = h
            BY <1>1, <2>1
          <5> QED BY <1>10, <2>1, <2>4, <4>2, <5>1
        <4>3. CASE k # l /\ k # h
          <5>1. row'[k] = row[k]
            BY <2>4, <4>3
          <5>2. PICK s : s = row[k].metrics.successor
            OBVIOUS
          <5>3. row[k].status = "superseded" => s # Nothing /\ row[s].supersedes = k /\ s \in Lessons
            BY <5>2, <1>11 DEF TurnsInv, LineageVerifies
          <5>4. row[k].status = "superseded" => row'[s].supersedes = row[s].supersedes
            BY <1>10, <2>1, <2>4, <5>3
          <5> QED BY <5>1, <5>2, <5>3, <5>4
        <4> QED BY <4>1, <4>2, <4>3
      <3> QED BY <3>1, <3>2 DEF LineageVerifies
    <2> QED BY <1>2, <2>5, <2>6, <2>7, <2>8, TurnEnds
  <1> QED BY <1>12, <1>13

LEMMA RevalidateInTurn ==
  ASSUME LessonsInv, TurnsInv, TakeTurns', NEW o \in Operators, CommitRevalidate(o), ~UNCHANGED db
  PROVE  TurnsInv' /\ ConfirmsAfresh
  <1>1. PICK l \in Lessons, x \in Row, e \in Event :
           /\ tx[o].step = "commit" /\ tx[o].command = "revalidate" /\ l = tx[o].lesson
           /\ row' = [row EXCEPT ![l] = x]
           /\ events' = [events EXCEPT ![l] = Append(events[l], e)]
           /\ UNCHANGED batches
           /\ e.from = tx[o].snap.status /\ e.to = NextStatus(tx[o].snap, tx[o].passed)
           /\ e.type = IF tx[o].passed THEN "revalidated" ELSE e.to
           /\ x.status = IF e.to = tx[o].snap.status THEN row[l].status ELSE e.to
           /\ x.dates = row[l].dates /\ x.supersedes = row[l].supersedes
           /\ x.metrics.agg = tx[o].snap.metrics.agg
           /\ x.metrics.failures = IF tx[o].passed THEN 0 ELSE tx[o].snap.metrics.failures + 1
           /\ x.metrics.lastDates = tx[o].snap.dates /\ x.metrics.lastAgg = tx[o].snap.metrics.agg
           /\ x.metrics.successor = tx[o].snap.metrics.successor
    BY RevalidateWrites
  <1>2. Close(o) /\ tx[o].step # "idle" /\ clock' = clock
    BY <1>1, CommitsClose DEF Close
  <1>3. /\ tx[o].snap = row[l] /\ row[l].status \in Heads
        /\ tx[o].passed /\ l \notin Checklists =>
               /\ FreshReplay(row[l])
               /\ Cardinality(row[l].metrics.agg) >= MinDates /\ Improves(row[l].metrics.agg)
    BY <1>1 DEF TurnsInv, SessionOK
  <1>4. PICK r \in Row, c \in Nat, bs \in Seq(Batch), es \in Seq(Event), p \in BOOLEAN :
          r = row[l] /\ c = clock /\ bs = batches[l] /\ es = events[l] /\ p = tx[o].passed
    BY LessonFacts DEF LessonsInv
  <1>written. /\ e.from = r.status /\ e.to = NextStatus(r, p)
              /\ e.type = IF p THEN "revalidated" ELSE e.to
              /\ x.status = IF e.to = r.status THEN r.status ELSE e.to
              /\ x.dates = r.dates /\ x.supersedes = r.supersedes
              /\ x.metrics.agg = r.metrics.agg /\ x.metrics.successor = r.metrics.successor
              /\ r.status \in {"active", "challenged"}
    <2>1. tx[o].snap = r /\ tx[o].passed = p
      BY <1>3, <1>4
    <2>2. row[l].status = r.status /\ row[l].supersedes = r.supersedes /\ row[l].dates = r.dates
      BY <1>4
    <2>3. r.status \in {"active", "challenged"}
      BY <1>3, <1>4 DEF Heads
    <2> QED BY <1>1, <2>1, <2>2, <2>3
  <1>5. BatchesOK(l, r, bs, c) /\ EventsOK(r, es, Len(bs)) /\ RowOK(l, r)
    BY <1>4 DEF TurnsInv, LessonOK
  <1>6. l \notin Checklists => bs # <<>> /\ r.dates = Cardinality(r.metrics.agg)
    BY <1>3, <1>4, <1>5 DEF BatchesOK, Heads
  <1>7. /\ e.from = r.status /\ x.status = e.to
        /\ p => e.type = "revalidated" /\ e.to = "active"
        /\ ~p /\ r.status = "active" => e.type = "challenged" /\ e.to = "challenged"
        /\ ~p /\ r.status = "challenged" => e.type = "retired" /\ e.to = "retired"
        /\ r.status \in {"active", "challenged"}
    <2>1. r.status = "active" => r.metrics.failures = 0
      BY <1>5 DEF RowOK
    <2> QED BY <1>written, <2>1 DEF NextStatus
  <1>8. BatchesOK(l, x, bs, c)
    BY <1>written, <1>5, <1>6 DEF BatchesOK
  <1>9. EventsOK(x, Append(es, e), Len(bs))
    <2>1. <<e.from, e.to>> \in Allowed[e.type] /\ e.type # "replay_recorded" /\ e.to # "absent"
      <3>1. CASE p
        BY <1>7, <3>1 DEF Allowed
      <3>2. CASE ~p /\ r.status = "active"
        BY <1>7, <3>2 DEF Allowed
      <3>3. CASE ~p /\ r.status = "challenged"
        BY <1>7, <3>3 DEF Allowed
      <3> QED BY <1>7, <3>1, <3>2, <3>3
    <2>2. Len(bs) \in Nat
      OBVIOUS
    <2>3. EventsOK(x, Append(es, e), IF e.type = "replay_recorded" THEN Len(bs) + 1 ELSE Len(bs))
      BY <1>5, <1>7, <2>1, <2>2, EventsAppended
    <2> QED BY <2>1, <2>3
  <1>10. RowOK(l, x)
    BY <1>1, <1>3, <1>4, <1>6, <1>7 DEF RowOK, Heads
  <1>11. /\ row'[l] = x /\ events'[l] = Append(es, e) /\ batches' = batches
         /\ \A k \in Lessons \ {l} : row'[k] = row[k] /\ events'[k] = events[k]
    BY <1>1, <1>4, LessonFacts DEF LessonsInv
  <1>12. LessonOK(l)'
    BY <1>2, <1>4, <1>8, <1>9, <1>10, <1>11 DEF LessonOK
  <1>13. \A k \in Lessons \ {l} : LessonOK(k)'
    BY <1>2, <1>11 DEF TurnsInv, LessonOK
  <1>14. \A k \in Lessons : /\ row'[k].supersedes = row[k].supersedes
                            /\ row'[k].metrics.successor = row[k].metrics.successor
                            /\ row'[k].status = "superseded" <=> row[k].status = "superseded"
    BY <1>written, <1>4, <1>7, <1>11
  <1>15. \A k \in Lessons : LineageVerifies(k)'
    BY <1>14, LineageStands DEF LessonsInv, TurnsInv
  <1>16. ConfirmsAfresh
    <2> SUFFICES ASSUME NEW k \in Lessons \ Checklists, Len(events'[k]) > Len(events[k]),
                        events'[k][Len(events'[k])].type = "revalidated"
                 PROVE  Cardinality(row'[k].metrics.lastAgg) > Cardinality(row[k].metrics.lastAgg)
      BY DEF ConfirmsAfresh
    <2>1. k = l
      BY <1>11, LessonFacts DEF LessonsInv
    <2>2. Append(es, e)[Len(Append(es, e))] = e
      OBVIOUS
    <2>3. p
      BY <1>7, <1>11, <2>1, <2>2
    <2>4. r.dates > r.metrics.lastDates
      BY <1>3, <1>4, <2>1, <2>3 DEF FreshReplay
    <2>5. r.metrics.lastDates = Cardinality(r.metrics.lastAgg) /\ r.dates = Cardinality(r.metrics.agg)
      BY <1>3, <1>4, <1>5, <1>6, <2>1 DEF RowOK
    <2>6. row'[l].metrics.lastAgg = r.metrics.agg
      BY <1>1, <1>3, <1>4, <1>11
    <2> QED BY <1>4, <2>1, <2>4, <2>5, <2>6
  <1> QED BY <1>2, <1>12, <1>13, <1>15, <1>16, TurnEnds

LEMMA ProposeInTurn ==
  ASSUME LessonsInv, TurnsInv, NEW l \in Lessons, Propose(l)
  PROVE  TurnsInv'
  <1>1. PICK inherited \in Nat, m \in Metrics :
          /\ row[l].status = "absent" /\ m.successor = Nothing
          /\ row' = [row EXCEPT ![l] = [status |-> "candidate", dates |-> inherited,
                                        supersedes |-> Nothing, metrics |-> m]]
          /\ UNCHANGED <<batches, events, mature, clock, tx>>
    BY ProposeWrites
  <1>2. PICK x : x = [status |-> "candidate", dates |-> inherited, supersedes |-> Nothing, metrics |-> m]
    OBVIOUS
  <1>3. x.status = "candidate" /\ x.supersedes = Nothing /\ x.metrics.successor = Nothing
    BY <1>1, <1>2
  <1>4. row'[l] = x /\ \A k \in Lessons \ {l} : row'[k] = row[k]
    BY <1>1, <1>2, LessonFacts DEF LessonsInv
  <1>5. PICK c \in Nat, bs \in Seq(Batch), es \in Seq(Event), r \in Row :
          c = clock /\ bs = batches[l] /\ es = events[l] /\ r = row[l]
    BY LessonFacts DEF LessonsInv
  <1>6. BatchesOK(l, r, bs, c) /\ EventsOK(r, es, Len(bs)) /\ RowOK(l, r) /\ r.status = "absent"
    BY <1>1, <1>5 DEF TurnsInv, LessonOK
  <1>7. es = <<>> /\ bs = <<>>
    BY <1>6 DEF EventsOK
  <1>8. BatchesOK(l, x, bs, c)
    BY <1>3, <1>6, <1>7 DEF BatchesOK
  <1>9. EventsOK(x, es, Len(bs))
    BY <1>3, <1>6, <1>7 DEF EventsOK
  <1>10. RowOK(l, x)
    BY <1>3 DEF RowOK, Heads
  <1>11. LessonOK(l)'
    BY <1>1, <1>4, <1>5, <1>8, <1>9, <1>10 DEF LessonOK
  <1>12. \A k \in Lessons \ {l} : LessonOK(k)'
    BY <1>1, <1>4 DEF TurnsInv, LessonOK
  <1>13. ASSUME NEW k \in Lessons PROVE LineageVerifies(k)'
    <2>1. CASE k = l
      BY <1>3, <1>4, <2>1 DEF LineageVerifies
    <2>2. CASE k # l
      <3>1. PICK p, s : p = row[k].supersedes /\ s = row[k].metrics.successor
        OBVIOUS
      <3>2. p \in Lessons \cup {Nothing} /\ s \in Lessons \cup {Nothing}
        BY <3>1, LessonFacts DEF LessonsInv, Metrics
      <3>3. /\ p # Nothing => row[p].status = "superseded" /\ row[p].metrics.successor = k
            /\ row[k].status = "superseded" => s # Nothing /\ row[s].supersedes = k
        BY <3>1 DEF TurnsInv, LineageVerifies
      <3>4. row[l].supersedes = Nothing /\ k # Nothing
        BY <1>5, <1>6, LessonConfiguration DEF RowOK, LessonConfiguration
      <3>5. p # Nothing => row'[p] = row[p]
        BY <1>1, <1>4, <3>2, <3>3
      <3>6. row[k].status = "superseded" => row'[s] = row[s]
        BY <1>1, <1>4, <3>2, <3>3, <3>4
      <3>7. row'[k] = row[k]
        BY <1>4, <2>2
      <3> QED BY <3>1, <3>3, <3>5, <3>6, <3>7 DEF LineageVerifies
    <2> QED BY <2>1, <2>2
  <1>14. ASSUME NEW q \in Operators PROVE SessionOK(q)'
    <2>1. SUFFICES ASSUME tx[q].step # "idle" PROVE SessionOK(q)'
      BY <1>1 DEF SessionOK
    <2>2. PICK k \in Lessons : k = tx[q].lesson
      BY <2>1 DEF LessonsInv, AboutLesson
    <2>3. SessionOK(q) /\ tx[q].snap = row[k]
      BY <2>1, <2>2 DEF TurnsInv, SessionOK
    <2>4. row[k].status # "absent"
      BY <2>1, <2>2, <2>3 DEF SessionOK, Heads
    <2>5. row'[k] = row[k]
      BY <1>1, <1>4, <2>4
    <2>6. HeadsOf(k)' = HeadsOf(k) /\ \A h \in HeadsOf(k) : row'[h] = row[h]
      BY <1>1, <1>3, <1>4 DEF HeadsOf, Heads
    <2>7. Recorded(k)' = Recorded(k) /\ (Eligible(k, row[k])' <=> Eligible(k, row[k]))
      BY <1>1, <2>5 DEF Recorded, Eligible
    <2> QED BY <1>1, <2>1, <2>2, <2>3, <2>5, <2>6, <2>7 DEF SessionOK
  <1> QED BY <1>1, <1>11, <1>12, <1>13, <1>14 DEF TurnsInv, TakeTurns

\* Every step but a revalidation confirms nothing.
LEMMA NothingConfirmed ==
  ASSUME LessonsInv, UNCHANGED events
  PROVE  ConfirmsAfresh
  BY LessonFacts DEF ConfirmsAfresh, LessonsInv

LEMMA OtherEvents ==
  ASSUME LessonsInv, TurnsInv, NEW o \in Operators, CommitReplay(o) \/ CommitApprove(o)
  PROVE  ConfirmsAfresh
  <1>1. CASE UNCHANGED db
    BY <1>1, NothingConfirmed DEF db
  <1>2. ASSUME NEW k \in Lessons, ~UNCHANGED db
        PROVE  \/ events'[k] = events[k]
               \/ \E e \in Event : events'[k] = Append(events[k], e) /\ e.type # "revalidated"
    <2>1. CASE CommitReplay(o)
      <3>1. PICK l \in Lessons, e \in Event :
              events' = [events EXCEPT ![l] = Append(events[l], e)] /\ e.type = "replay_recorded"
        BY <1>2, <2>1, ReplayWrites
      <3> QED BY <3>1, LessonFacts DEF LessonsInv
    <2>2. CASE CommitApprove(o) /\ tx[o].head = Nothing
      <3>1. PICK l \in Lessons, e \in Event :
              events' = [events EXCEPT ![l] = Append(events[l], e)] /\ e.type = "approved"
        BY <1>2, <2>2, ApproveWrites, LessonConfiguration DEF LessonConfiguration
      <3> QED BY <3>1, LessonFacts DEF LessonsInv
    <2>3. CASE CommitApprove(o) /\ tx[o].head # Nothing
      <3>1. PICK l \in Lessons, e \in Event, h \in Lessons, g \in Event :
              /\ events' = [[events EXCEPT ![l] = Append(events[l], e)] EXCEPT ![h] = Append(@, g)]
              /\ e.type = "approved" /\ g.type = "superseded" /\ h # l
        <4>1. tx[o].command = "approve" /\ tx[o].step = "commit"
          BY <2>3 DEF CommitApprove
        <4>2. tx[o].head # tx[o].lesson
          BY <2>3, <4>1 DEF TurnsInv, SessionOK, HeadsOf
        <4> QED BY <1>2, <2>3, <4>2, ApproveWrites
      <3> QED BY <3>1, LessonFacts DEF LessonsInv
    <2> QED BY <2>1, <2>2, <2>3
  <1>3. ASSUME ~UNCHANGED db PROVE ConfirmsAfresh
    <2> SUFFICES ASSUME NEW k \in Lessons, Len(events'[k]) > Len(events[k])
                 PROVE  events'[k][Len(events'[k])].type # "revalidated"
      BY DEF ConfirmsAfresh
    <2>1. PICK es \in Seq(Event) : es = events[k]
      BY LessonFacts DEF LessonsInv
    <2>2. PICK e \in Event : events'[k] = Append(es, e) /\ e.type # "revalidated"
      BY <1>2, <1>3, <2>1
    <2>3. Append(es, e)[Len(Append(es, e))] = e
      OBVIOUS
    <2> QED BY <2>2, <2>3
  <1> QED BY <1>1, <1>3

LEMMA TurnsNextKeeps ==
  ~Backdating /\ LessonsInv /\ TurnsInv /\ [Next /\ TakeTurns']_vars => TurnsInv' /\ ConfirmsAfresh
  <1> SUFFICES ASSUME ~Backdating, LessonsInv, TurnsInv, [Next /\ TakeTurns']_vars
               PROVE  TurnsInv' /\ ConfirmsAfresh
    OBVIOUS
  <1>1. ASSUME NEW l \in Lessons, Propose(l) PROVE TurnsInv' /\ ConfirmsAfresh
    BY <1>1, ProposeInTurn, NothingConfirmed DEF Propose
  <1>2. ASSUME TakeTurns', NEW o \in Operators, NEW l \in Lessons, NEW at \in Times,
               \/ \E obs \in (SUBSET Dates) \ {{}} : LoadReplay(o, l, obs, at)
               \/ LoadApprove(o, l, at)
               \/ \E valid \in BOOLEAN : LoadRevalidate(o, l, valid, at)
        PROVE  TurnsInv' /\ ConfirmsAfresh
    <2>1. UNCHANGED events
      BY <1>2 DEF LoadReplay, LoadApprove, LoadRevalidate, Open, db
    <2> QED BY <1>2, <2>1, LoadsInTurn, NothingConfirmed
  <1>3. ASSUME TakeTurns', NEW o \in Operators, ReadBatches(o) \/ ReadHeads(o) \/ ReadSequence(o)
        PROVE  TurnsInv' /\ ConfirmsAfresh
    <2>1. UNCHANGED events
      BY <1>3 DEF ReadBatches, ReadHeads, ReadSequence, db
    <2> QED BY <1>3, <2>1, ReadsInTurn, NothingConfirmed
  <1>4. ASSUME TakeTurns', NEW o \in Operators, UNCHANGED db, Close(o), tx[o].step # "idle"
        PROVE  TurnsInv' /\ ConfirmsAfresh
    <2>1. UNCHANGED events /\ clock' \in Nat /\ clock <= clock'
      BY <1>4, LessonFacts DEF db, Close, LessonsInv
    <2>2. \A l \in Lessons : LessonOK(l)' /\ LineageVerifies(l)'
      BY <1>4, <2>1, TablesStand
    <2> QED BY <1>4, <2>1, <2>2, TurnEnds, NothingConfirmed
  <1>5. ASSUME TakeTurns', NEW o \in Operators,
               CommitReplay(o) \/ CommitApprove(o) \/ CommitRevalidate(o) \/ Crash(o)
        PROVE  TurnsInv' /\ ConfirmsAfresh
    <2>1. Close(o) /\ tx[o].step # "idle"
      BY <1>5 DEF CommitReplay, CommitApprove, CommitRevalidate, Crash
    <2>2. CASE UNCHANGED db
      BY <1>4, <1>5, <2>1, <2>2
    <2>3. CASE ~UNCHANGED db
      BY <1>5, <2>3, ReplayInTurn, ApproveInTurn, RevalidateInTurn, OtherEvents DEF Crash
    <2> QED BY <2>2, <2>3
  <1>6. CASE UNCHANGED <<row, batches, events, clock, tx>>
    <2>1. clock' \in Nat /\ clock <= clock' /\ UNCHANGED db
      BY <1>6, LessonFacts DEF LessonsInv, db
    <2>2. \A l \in Lessons : LessonOK(l)' /\ LineageVerifies(l)'
      BY <2>1, TablesStand
    <2>3. ASSUME NEW o \in Operators PROVE SessionOK(o)'
      <3>1. tx'[o] = tx[o] /\ row' = row /\ batches' = batches /\ clock' = clock /\ SessionOK(o)
        BY <1>6 DEF TurnsInv
      <3>2. PICK l : l = tx[o].lesson
        OBVIOUS
      <3>3. (Eligible(l, row[l])' <=> Eligible(l, row[l])) /\ HeadsOf(l)' = HeadsOf(l)
            /\ Recorded(l)' = Recorded(l)
        BY <1>6 DEF Eligible, HeadsOf, Recorded
      <3> QED BY <3>1, <3>2, <3>3 DEF SessionOK
    <2> QED BY <1>6, <2>2, <2>3, NothingConfirmed DEF TurnsInv, TakeTurns
  <1>7. Mature \/ UNCHANGED vars => UNCHANGED <<row, batches, events, clock, tx>>
    BY DEF Mature, db, vars
  <1> QED BY <1>1, <1>2, <1>3, <1>5, <1>6, <1>7 DEF Next

-----------------------------------------------------------------------------
(* What the audit recomputes follows from the invariant.                    *)

LEMMA AuditAccepts ==
  ASSUME LessonsInv, TurnsInv
  PROVE  AuditVerifies /\ EarnedByReplay
  <1>1. ASSUME NEW l \in Lessons, row[l].status # "absent" PROVE BatchesVerify(l)
    <2>1. PICK b \in Seq(Batch) : b = batches[l]
      BY LessonFacts DEF LessonsInv
    <2>2. BatchesOK(l, row[l], b, clock)
      BY <2>1 DEF TurnsInv, LessonOK
    <2>3. \A i \in DOMAIN b : b[i].at \in Nat
      <3>1. \A i \in DOMAIN b : b[i] \in Batch
        OBVIOUS
      <3> QED BY <3>1 DEF Batch
    <2>4. ASSUME NEW i \in DOMAIN b, NEW j \in DOMAIN b PROVE Before(l, i, j) <=> i <= j
      <3>1. i \in Nat /\ j \in Nat /\ b[i].at \in Nat /\ b[j].at \in Nat
        BY <2>3
      <3>2. i < j => b[i].at < b[j].at
        BY <2>2 DEF BatchesOK
      <3>3. j < i => b[j].at < b[i].at
        BY <2>2 DEF BatchesOK
      <3> QED BY <2>1, <3>1, <3>2, <3>3 DEF Before
    <2>5. \A i, j \in DOMAIN b : i # j => b[i].obs \cap b[j].obs = {}
      BY <2>2 DEF BatchesOK
    <2>6. ASSUME NEW j \in DOMAIN b
          PROVE  b[j].agg = UNION {b[i].obs : i \in {k \in DOMAIN b : Before(l, k, j)}}
      <3>1. {k \in DOMAIN b : Before(l, k, j)} = 1..j
        BY <2>4
      <3> QED BY <2>2, <3>1 DEF BatchesOK
    <2>7. ASSUME NEW j \in DOMAIN b, \A i \in DOMAIN b : Before(l, i, j)
          PROVE  row[l].metrics.agg = b[j].agg /\ row[l].dates = Cardinality(b[j].agg)
      <3>1. b # <<>> /\ Len(b) \in DOMAIN b
        OBVIOUS
      <3>2. Len(b) <= j
        BY <2>4, <2>7, <3>1
      <3>3. j = Len(b)
        BY <3>2
      <3> QED BY <2>2, <3>1, <3>3 DEF BatchesOK
    <2>8. b = <<>> /\ row[l].status \notin {"absent", "candidate"} => l \in Checklists
      BY <2>2 DEF BatchesOK
    <2> QED BY <2>1, <2>5, <2>6, <2>7, <2>8 DEF BatchesVerify
  <1>2. ASSUME NEW l \in Lessons, row[l].status # "absent" PROVE EventsVerify(l)
    BY <1>2 DEF TurnsInv, LessonOK, EventsOK, EventsVerify
  <1>3. EarnedByReplay
    BY DEF TurnsInv, LessonOK, RowOK, EarnedByReplay, Heads
  <1> QED BY <1>1, <1>2, <1>3 DEF AuditVerifies, TurnsInv

\* Commands that take turns and record their own time leave a ledger that
\* verify_lesson_audit accepts, and every ordinary lesson in force has passed its last
\* validation on enough dates that it improves on, for any lessons, dates and operators.
THEOREM AuditAcceptsItsRecords == ~Backdating /\ InTurnSpec => [](AuditVerifies /\ EarnedByReplay)
  <1> SUFFICES ASSUME ~Backdating PROVE InTurnSpec => [](AuditVerifies /\ EarnedByReplay)
    OBVIOUS
  <1>1. Init => LessonsInv /\ TurnsInv
    BY LessonsInitHolds, TurnsInitHolds
  <1>2. (LessonsInv /\ TurnsInv) /\ [Next /\ TakeTurns']_vars => (LessonsInv /\ TurnsInv)'
    BY LessonsNextKeeps, TurnsNextKeeps
  <1>3. LessonsInv /\ TurnsInv => AuditVerifies /\ EarnedByReplay
    BY AuditAccepts
  <1> QED BY <1>1, <1>2, <1>3, PTL DEF InTurnSpec

-----------------------------------------------------------------------------
(* Commands that take turns or overlap, beside the reviews of reflections.  *)

LEMMA CommandIsNext == Command => Next
  BY DEF Command, Next

\* A command starts, reads and commits in its turn only.
LEMMA CommandInTurn ==
  ASSUME LessonsInv, TakeTurns, alone, Command
  PROVE  TakeTurns'
  <1>1. CASE UNCHANGED tx
    BY <1>1 DEF TakeTurns
  <1>2. ASSUME NEW o \in Operators, Turn(o), \E t : tx' = [tx EXCEPT ![o] = t]
        PROVE  TakeTurns'
    BY <1>2, LessonFacts DEF Turn, TakeTurns, LessonsInv
  <1>3. ASSUME NEW o \in Operators, NEW l \in Lessons, NEW at \in Times,
               \/ \E obs \in (SUBSET Dates) \ {{}} : LoadReplay(o, l, obs, at)
               \/ LoadApprove(o, l, at)
               \/ \E valid \in BOOLEAN : LoadRevalidate(o, l, valid, at)
        PROVE  \E t : tx' = [tx EXCEPT ![o] = t]
    BY <1>3 DEF LoadReplay, LoadApprove, LoadRevalidate, Open
  <1>4. ASSUME NEW o \in Operators, ReadBatches(o) \/ ReadHeads(o) \/ ReadSequence(o)
        PROVE  \E t : tx' = [tx EXCEPT ![o] = t]
    <2>1. CASE ReadBatches(o)
      BY <2>1, ReadsMove
    <2>2. CASE ReadHeads(o)
      BY <2>2, ReadsMove
    <2>3. CASE ReadSequence(o)
      BY <2>3, ReadsMove
    <2> QED BY <1>4, <2>1, <2>2, <2>3
  <1>5. ASSUME NEW o \in Operators, CommitReplay(o) \/ CommitApprove(o) \/ CommitRevalidate(o) \/ Crash(o)
        PROVE  \E t : tx' = [tx EXCEPT ![o] = t]
    BY <1>5 DEF CommitReplay, CommitApprove, CommitRevalidate, Crash, Close
  <1>6. (\E l \in Lessons : Propose(l)) \/ Mature => UNCHANGED tx
    BY DEF Propose, Mature
  <1> QED BY <1>1, <1>2, <1>3, <1>4, <1>5, <1>6 DEF Command

MCLessonsInv == LessonsInv /\ (alone => TurnsInv)

LEMMA MCLessonsInitHolds == MCInit => MCLessonsInv
  BY LessonsInitHolds, TurnsInitHolds DEF MCInit, MCLessonsInv

LEMMA MCLessonsNextKeeps ==
  ASSUME ~Backdating, MCLessonsInv, [MCNext]_<<vars, believabilityVars, alone, topic>>
  PROVE  MCLessonsInv' /\ [alone => ConfirmsAfresh]_vars
  <1>1. alone' = alone
    BY DEF MCNext
  <1>2. [Next]_vars
    BY CommandIsNext DEF MCNext
  <1>3. ASSUME alone PROVE [Next /\ TakeTurns']_vars
    BY <1>3, CommandIsNext, CommandInTurn DEF MCNext, MCLessonsInv, TurnsInv
  <1>4. LessonsInv'
    BY <1>2, LessonsNextKeeps DEF MCLessonsInv
  <1>5. alone => TurnsInv' /\ ConfirmsAfresh
    BY <1>3, TurnsNextKeeps DEF MCLessonsInv
  <1> QED BY <1>1, <1>4, <1>5 DEF MCLessonsInv

\* Whether commands overlap or take turns, the cluster has one head at most; if they
\* take turns, the audit accepts all that they have written and lessons in force have
\* earned it on replay evidence (approve_lesson, revalidate_lesson, verify_lesson_audit).
THEOREM AuditAlwaysStands == ~Backdating /\ MCSpec => []AuditStands
  <1> SUFFICES ASSUME ~Backdating PROVE MCSpec => []AuditStands
    OBVIOUS
  <1>1. MCLessonsInv /\ [MCNext]_<<vars, believabilityVars, alone, topic>> => MCLessonsInv'
    BY MCLessonsNextKeeps
  <1>2. MCLessonsInv => AuditStands
    BY AuditAccepts DEF MCLessonsInv, LessonsInv, AuditStands
  <1> QED BY <1>1, <1>2, MCLessonsInitHolds, PTL DEF MCSpec

\* If commands take turns, no step confirms an ordinary lesson on dates that the
\* previous validation had seen already (revalidate_lesson's fresh replay).
THEOREM EvidenceAlwaysFresh == ~Backdating /\ MCSpec => FreshEvidence
  <1> SUFFICES ASSUME ~Backdating PROVE MCSpec => FreshEvidence
    OBVIOUS
  <1>1. MCLessonsInv /\ [MCNext]_<<vars, believabilityVars, alone, topic>> => MCLessonsInv'
    BY MCLessonsNextKeeps
  <1>2. MCLessonsInv /\ [MCNext]_<<vars, believabilityVars, alone, topic>> => [alone => ConfirmsAfresh]_vars
    BY MCLessonsNextKeeps
  <1> QED BY <1>1, <1>2, MCLessonsInitHolds, PTL DEF MCSpec, FreshEvidence
=============================================================================
