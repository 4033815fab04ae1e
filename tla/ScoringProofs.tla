---------------------------- MODULE ScoringProofs ----------------------------
(***************************************************************************)
(* Proofs about OutcomeScoring, for every set of forecasts, requests,      *)
(* actors and operators, however many are served at once or killed, and    *)
(* about CommitteeGraph, for every committee, evidence, set of drafts and  *)
(* number of attempts.                                                     *)
(***************************************************************************)
EXTENDS OutcomeScoring, CommitteeGraph, FiniteSetTheorems, NaturalsInduction,
        WellFoundedInduction, TLAPS

-----------------------------------------------------------------------------
(* The inductive invariant of sealing and scoring.                         *)

\* An id is drawn once: it belongs to one request or to one row.  A request in
\* flight has published its page before it inserts, and has not inserted.
IdsOnce ==
  /\ \A j \in judgments : j.id <= drawn
  /\ \A j, k \in judgments : j.id = k.id => j = k
  /\ \A j, k \in judgments : j.actor = k.actor /\ j.forecast = k.forecast => j = k
  /\ \A w \in Writers : writer[w].pc # "idle" =>
       /\ writer[w].id \in 1..drawn
       /\ writer[w].actor \in Actors /\ writer[w].forecast \in Forecasts
       /\ writer[w].request \in Requests
       /\ \A j \in judgments : j.id # writer[w].id
       /\ \A u \in Writers \ {w} : writer[u].pc # "idle" => writer[u].id # writer[w].id
  /\ \A w \in Writers : writer[w].pc \in {"spec", "commit"} => writer[w].id \in pages

\* Outcomes exist after the close only.
ClockOrders ==
  /\ \A o \in Operators : oper[o].pc # "idle" => phase = "mature"
  /\ \A f \in Forecasts : evaluation[f] # Nothing => phase = "mature"

\* A command holds its whole evaluation set, and a batch keeps one.
DueEvaluated ==
  /\ \A o \in Operators : oper[o].pc = "record" =>
       oper[o].first \in DOMAIN oper[o].obs
  /\ \A o \in Operators : oper[o].pc = "batch" =>
       /\ oper[o].run \in Runs /\ oper[o].bundle \in Bundles
       /\ ForecastsOf(oper[o].run) \subseteq oper[o].due
       /\ \A f \in oper[o].due : Live(f) /\ evaluation[f] # Nothing
  /\ \A b \in batches : b.status = "completed" =>
       \A f \in b.due : Live(f) /\ evaluation[f] # Nothing

\* Eligibility is decided when the row is written.
EligibleMeans ==
  \A j \in judgments : j.eligible = (Live(j.forecast) /\ j.request \in Blind)

IndInv ==
  /\ TypeOK
  /\ IdsOnce
  /\ ClockOrders
  /\ DueEvaluated
  /\ EligibleMeans
  /\ SealedForGood
  /\ ScoredOnOneOutcome

-----------------------------------------------------------------------------
(* Values.                                                                 *)

LEMMA IdleValues ==
  /\ IdleWriter \in Writer /\ IdleWriter.pc = "idle"
  /\ IdleOper \in Oper /\ IdleOper.pc = "idle"
  <1>1. <<>> \in UNION {[S -> Returns] : S \in SUBSET Forecasts}
    <2>1. <<>> \in [{} -> Returns]
      OBVIOUS
    <2> QED BY <2>1
  <1> QED BY <1>1 DEF IdleWriter, IdleOper, Writer, Oper

LEMMA InitHolds == Init => IndInv
  <1> SUFFICES ASSUME Init PROVE IndInv
    OBVIOUS
  <1>1. TypeOK
    <2>1. 0 \in 0..MaxJudgments /\ 0 \in 0..MaxCrashes
      BY ScoringConfiguration
    <2>2. writer \in [Writers -> Writer] /\ oper \in [Operators -> Oper]
      BY IdleValues DEF Init
    <2> QED BY <2>1, <2>2 DEF Init, TypeOK
  <1>2. IdsOnce /\ ClockOrders /\ DueEvaluated /\ EligibleMeans
    BY IdleValues DEF Init, IdsOnce, ClockOrders, DueEvaluated, EligibleMeans
  <1>3. SealedForGood /\ ScoredOnOneOutcome
    BY DEF Init, SealedForGood, ScoredOnOneOutcome, OnePricePerIndex,
           PreparedOnOutcome, BatchScoresAll, Indexes
  <1> QED BY <1>1, <1>2, <1>3 DEF IndInv

-----------------------------------------------------------------------------
(* One lemma per kind of step.                                             *)

\* The evaluation, the price and the batches of a step that leaves them alone.
LEMMA OutcomesKept ==
  ASSUME IndInv, UNCHANGED <<evaluation, price, batches, scores, judgments>>,
         UNCHANGED oper,
         \A x \in answered' \ answered : x.kind # "prepared"
  PROVE  DueEvaluated' /\ ScoredOnOneOutcome'
  <1>1. DueEvaluated'
    BY DEF IndInv, DueEvaluated, ForecastsOf, Live
  <1>2. OnePricePerIndex' /\ BatchScoresAll'
    BY DEF IndInv, ScoredOnOneOutcome, OnePricePerIndex, BatchScoresAll, Live
  <1>3. PreparedOnOutcome'
    BY DEF IndInv, ScoredOnOneOutcome, PreparedOnOutcome, ForecastsOf
  <1> QED BY <1>1, <1>2, <1>3 DEF ScoredOnOneOutcome

\* The rows, pages and requests of a step that leaves them alone.
LEMMA JudgmentsKept ==
  ASSUME IndInv, UNCHANGED judgmentVars,
         \A x \in answered' \ answered : x.kind # "sealed"
  PROVE  IdsOnce' /\ EligibleMeans' /\ SealedForGood'
  BY DEF IndInv, judgmentVars, IdsOnce, EligibleMeans, SealedForGood, SealedBy, Live

LEMMA AdvanceHolds == IndInv /\ Advance => IndInv'
  <1> SUFFICES ASSUME IndInv, Advance PROVE IndInv'
    OBVIOUS
  <1>1. TypeOK' /\ ClockOrders'
    BY DEF IndInv, Advance, TypeOK, ClockOrders, judgmentVars, outcomeVars
  <1>2. IdsOnce' /\ EligibleMeans' /\ SealedForGood'
    BY JudgmentsKept DEF Advance
  <1>3. DueEvaluated' /\ ScoredOnOneOutcome'
    BY OutcomesKept DEF Advance, judgmentVars, outcomeVars
  <1> QED BY <1>1, <1>2, <1>3 DEF IndInv

LEMMA CompleteRunHolds ==
  ASSUME IndInv, NEW r \in Runs, CompleteRun(r) PROVE IndInv'
  <1>1. TypeOK' /\ ClockOrders'
    BY DEF IndInv, CompleteRun, TypeOK, ClockOrders, judgmentVars, outcomeVars
  <1>2. IdsOnce' /\ EligibleMeans' /\ SealedForGood'
    BY JudgmentsKept DEF CompleteRun
  <1>3. DueEvaluated' /\ ScoredOnOneOutcome'
    BY OutcomesKept DEF CompleteRun, judgmentVars, outcomeVars
  <1> QED BY <1>1, <1>2, <1>3 DEF IndInv

-----------------------------------------------------------------------------
(* Requests.                                                               *)

LEMMA ReplayHolds ==
  ASSUME IndInv, NEW w \in Writers, NEW a \in Actors, NEW f \in Forecasts,
         NEW q \in Requests, Replay(w, a, f, q)
  PROVE  IndInv'
  <1>1. TypeOK' /\ ClockOrders' /\ IdsOnce' /\ EligibleMeans'
    BY DEF IndInv, Replay, TypeOK, ClockOrders, IdsOnce, EligibleMeans, Live,
           judgmentVars, outcomeVars
  <1>2. SealedForGood'
    BY DEF IndInv, Replay, Tell, SameRequest, SealedForGood, SealedBy, IdsOnce,
           judgmentVars
  <1>3. DueEvaluated' /\ ScoredOnOneOutcome'
    BY OutcomesKept DEF Replay, Tell, judgmentVars, outcomeVars
  <1> QED BY <1>1, <1>2, <1>3 DEF IndInv

LEMMA SubmitHolds ==
  ASSUME IndInv, NEW w \in Writers, NEW a \in Actors, NEW f \in Forecasts,
         NEW q \in Requests, Submit(w, a, f, q)
  PROVE  IndInv'
  <1> DEFINE s == [pc |-> "publish", id |-> drawn + 1, actor |-> a,
                   forecast |-> f, request |-> q, seen |-> FALSE, clash |-> FALSE]
  <1>1. /\ drawn \in Nat /\ drawn + 1 \in Ids /\ drawn' = drawn + 1
        /\ drawn' \in 0..MaxJudgments
    BY ScoringConfiguration DEF IndInv, TypeOK, Submit, Ids
  <1>2. s \in Writer
    BY <1>1 DEF Writer
  <1>3. writer' = [writer EXCEPT ![w] = s] /\ writer \in [Writers -> Writer]
    BY DEF Submit, IndInv, TypeOK
  <1>4. /\ s.pc = "publish" /\ s.id = drawn + 1 /\ s.actor = a /\ s.forecast = f
        /\ s.request = q
    OBVIOUS
  <1> HIDE DEF s
  <1>5. TypeOK'
    BY <1>1, <1>2, <1>3 DEF IndInv, TypeOK, Submit, outcomeVars
  <1>6. ClockOrders'
    BY <1>3, <1>4 DEF IndInv, ClockOrders, Submit, WindowOpen, outcomeVars, Live
  <1>7. IdsOnce'
    <2>1. \A j \in judgments : j.id \in Nat
      BY ScoringConfiguration DEF IndInv, TypeOK, Judgment, Ids
    <2>2. \A u \in Writers \ {w} : writer'[u] = writer[u]
      BY <1>3
    <2>3. writer'[w] = s
      BY <1>3
    <2>4. \A u \in Writers : writer[u].pc # "idle" => writer[u].id # drawn + 1
      BY <1>1 DEF IndInv, IdsOnce
    <2> QED BY <1>1, <1>4, <2>1, <2>2, <2>3, <2>4 DEF IndInv, IdsOnce, Submit
  <1>8. EligibleMeans' /\ SealedForGood'
    BY DEF IndInv, EligibleMeans, SealedForGood, SealedBy, Submit, Live
  <1>9. DueEvaluated' /\ ScoredOnOneOutcome'
    BY OutcomesKept DEF Submit, outcomeVars
  <1> QED BY <1>5, <1>6, <1>7, <1>8, <1>9 DEF IndInv

\* A step of a request that keeps its identity and writes no row.
LEMMA RequestStep ==
  ASSUME IndInv, NEW w \in Writers, NEW s \in Writer, writer[w].pc # "idle",
         writer' = [writer EXCEPT ![w] = s],
         s.pc = "idle" \/ (/\ s.id = writer[w].id /\ s.actor = writer[w].actor
                           /\ s.forecast = writer[w].forecast
                           /\ s.request = writer[w].request),
         UNCHANGED <<phase, completed, judgments, drawn, outcomeVars>>,
         spec' \in BOOLEAN, crashes' \in 0..MaxCrashes,
         pages' = pages \/ pages' = pages \cup {writer[w].id}
           \/ (pages' = pages \ {writer[w].id} /\ s.pc \notin {"spec", "commit"}),
         s.pc \in {"spec", "commit"} => s.id \in pages'
  PROVE  TypeOK' /\ ClockOrders' /\ IdsOnce' /\ EligibleMeans'
         /\ \A j \in judgments' : j.id \in pages'
  <1>1. writer[w].id \in Ids
    BY ScoringConfiguration DEF IndInv, TypeOK, IdsOnce, Ids
  <1>2. TypeOK'
    BY <1>1 DEF IndInv, TypeOK, outcomeVars
  <1>3. /\ writer'[w] = s
        /\ \A u \in Writers \ {w} : writer'[u] = writer[u]
    BY DEF IndInv, TypeOK
  <1>4. ClockOrders'
    BY <1>3 DEF IndInv, ClockOrders, outcomeVars, Live
  <1>5. IdsOnce'
    <2>1. \A u \in Writers : writer'[u].pc # "idle" =>
            /\ writer[u].pc # "idle" /\ writer'[u].id = writer[u].id
            /\ writer'[u].actor = writer[u].actor
            /\ writer'[u].forecast = writer[u].forecast
            /\ writer'[u].request = writer[u].request
      BY <1>3
    <2>2. \A u \in Writers : writer'[u].pc \in {"spec", "commit"} =>
            writer'[u].id \in pages'
      <3> SUFFICES ASSUME NEW u \in Writers, writer'[u].pc \in {"spec", "commit"}
                   PROVE  writer'[u].id \in pages'
        OBVIOUS
      <3>1. CASE u = w
        BY <3>1, <1>3
      <3>2. CASE u # w
        BY <3>2, <1>3 DEF IndInv, IdsOnce
      <3> QED BY <3>1, <3>2
    <2>3. \A u \in Writers : writer'[u].pc # "idle" =>
            /\ writer'[u].id \in 1..drawn'
            /\ writer'[u].actor \in Actors /\ writer'[u].forecast \in Forecasts
            /\ writer'[u].request \in Requests
            /\ \A j \in judgments' : j.id # writer'[u].id
            /\ \A v \in Writers \ {u} :
                 writer'[v].pc # "idle" => writer'[v].id # writer'[u].id
      BY <2>1 DEF IndInv, IdsOnce
    <2>4. /\ \A j \in judgments' : j.id <= drawn'
          /\ \A j, k \in judgments' : j.id = k.id => j = k
          /\ \A j, k \in judgments' :
               j.actor = k.actor /\ j.forecast = k.forecast => j = k
      BY DEF IndInv, IdsOnce
    <2> QED BY <2>2, <2>3, <2>4 DEF IdsOnce
  <1>6. EligibleMeans' /\ \A j \in judgments' : j.id \in pages'
    BY DEF IndInv, EligibleMeans, SealedForGood, IdsOnce, Live
  <1> QED BY <1>2, <1>4, <1>5, <1>6

\* Nobody was told anything new of a row, and the rows are the same.
LEMMA AnswersKept ==
  ASSUME IndInv, UNCHANGED judgments, \A j \in judgments' : j.id \in pages',
         \A x \in answered' \ answered : x.kind = "sealed" =>
           \E j \in judgments : SealedBy(x.actor, x.forecast) = {j}
                                /\ j.request = x.request
  PROVE  SealedForGood'
  BY DEF IndInv, SealedForGood, SealedBy

LEMMA RequestHolds ==
  ASSUME IndInv, NEW w \in Writers,
         PublishPage(w) \/ ReadSpec(w) \/ RemovePage(w) \/ Kill(w)
  PROVE  IndInv'
  <1>1. writer \in [Writers -> Writer] /\ writer[w] \in Writer
    BY DEF IndInv, TypeOK
  <1>2. crashes \in 0..MaxCrashes /\ spec \in BOOLEAN /\ crashes \in Nat
    BY DEF IndInv, TypeOK
  <1>3. UNCHANGED answered /\ UNCHANGED judgments /\ UNCHANGED outcomeVars
    BY DEF PublishPage, ReadSpec, RemovePage, Kill
  <1>4. DueEvaluated' /\ ScoredOnOneOutcome'
    BY <1>3, OutcomesKept DEF outcomeVars
  <1>5. TypeOK' /\ ClockOrders' /\ IdsOnce' /\ EligibleMeans'
        /\ \A j \in judgments' : j.id \in pages'
    <2>1. CASE PublishPage(w)
      <3> DEFINE s == [writer[w] EXCEPT !.pc = "spec"]
      <3>1. s \in Writer /\ s.pc = "spec" /\ s.id = writer[w].id
            /\ s.actor = writer[w].actor /\ s.forecast = writer[w].forecast
            /\ s.request = writer[w].request
        BY <1>1 DEF Writer
      <3>2. writer' = [writer EXCEPT ![w] = s]
        BY <2>1, <1>1 DEF PublishPage
      <3> HIDE DEF s
      <3> QED BY <2>1, <1>2, <1>3, <3>1, <3>2, RequestStep DEF PublishPage
    <2>2. CASE ReadSpec(w)
      <3> DEFINE s == [writer[w] EXCEPT !.pc = "commit", !.seen = spec]
      <3>1. s \in Writer /\ s.pc = "commit" /\ s.id = writer[w].id
            /\ s.actor = writer[w].actor /\ s.forecast = writer[w].forecast
            /\ s.request = writer[w].request
        BY <1>1, <1>2 DEF Writer
      <3>2. writer' = [writer EXCEPT ![w] = s]
        BY <2>2, <1>1 DEF ReadSpec
      <3>3. writer[w].id \in pages
        BY <2>2 DEF ReadSpec, IndInv, IdsOnce
      <3> HIDE DEF s
      <3> QED BY <2>2, <1>2, <1>3, <3>1, <3>2, <3>3, RequestStep DEF ReadSpec
    <2>3. CASE RemovePage(w)
      <3> DEFINE s == IF writer[w].clash THEN [writer[w] EXCEPT !.pc = "reread"]
                      ELSE IdleWriter
      <3>1. s \in Writer /\ s.pc \in {"reread", "idle"}
            /\ (s.pc = "idle" \/ (/\ s.id = writer[w].id /\ s.actor = writer[w].actor
                                  /\ s.forecast = writer[w].forecast
                                  /\ s.request = writer[w].request))
        BY <1>1, IdleValues DEF Writer
      <3>2. writer' = [writer EXCEPT ![w] = s]
        BY <2>3, <1>1 DEF RemovePage
      <3> HIDE DEF s
      <3> QED BY <2>3, <1>2, <1>3, <3>1, <3>2, RequestStep DEF RemovePage
    <2>4. CASE Kill(w)
      <3>1. crashes' \in 0..MaxCrashes
        BY <2>4, <1>2, ScoringConfiguration DEF Kill
      <3> QED BY <2>4, <1>2, <1>3, <3>1, IdleValues, RequestStep DEF Kill
    <2> QED BY <2>1, <2>2, <2>3, <2>4
  <1>6. SealedForGood'
    BY <1>3, <1>5, AnswersKept
  <1> QED BY <1>4, <1>5, <1>6 DEF IndInv

LEMMA RereadHolds ==
  ASSUME IndInv, NEW w \in Writers, Reread(w) PROVE IndInv'
  <1>1. writer[w] \in Writer /\ crashes \in 0..MaxCrashes /\ spec \in BOOLEAN
    BY DEF IndInv, TypeOK
  <1>2. DueEvaluated' /\ ScoredOnOneOutcome'
    BY OutcomesKept DEF Reread, Tell, outcomeVars
  <1>3. TypeOK' /\ ClockOrders' /\ IdsOnce' /\ EligibleMeans'
        /\ \A j \in judgments' : j.id \in pages'
    BY <1>1, IdleValues, RequestStep DEF Reread
  <1>4. SealedForGood'
    <2>1. \A x \in answered' \ answered : x.kind = "sealed" =>
            \E j \in judgments : SealedBy(x.actor, x.forecast) = {j}
                                 /\ j.request = x.request
      BY DEF Reread, Tell, SameRequest, SealedBy, IndInv, IdsOnce
    <2> QED BY <1>3, <2>1, AnswersKept DEF Reread
  <1> QED BY <1>2, <1>3, <1>4 DEF IndInv

\* The insert that fails keeps the request for its clean-up.
LEMMA InsertFails ==
  ASSUME IndInv, NEW w \in Writers, NEW c \in BOOLEAN, writer[w].pc = "commit",
         writer' = [writer EXCEPT ![w] = [writer[w] EXCEPT !.pc = "undo", !.clash = c]],
         UNCHANGED <<judgments, spec, answered, phase, completed, pages, drawn,
                     crashes, outcomeVars>>
  PROVE  IndInv'
  <1> DEFINE s == [writer[w] EXCEPT !.pc = "undo", !.clash = c]
  <1>1. writer[w] \in Writer /\ crashes \in 0..MaxCrashes /\ spec \in BOOLEAN
    BY DEF IndInv, TypeOK
  <1>2. s \in Writer /\ s.pc = "undo" /\ s.id = writer[w].id
        /\ s.actor = writer[w].actor /\ s.forecast = writer[w].forecast
        /\ s.request = writer[w].request
    BY <1>1 DEF Writer
  <1>3. writer' = [writer EXCEPT ![w] = s]
    OBVIOUS
  <1> HIDE DEF s
  <1>4. TypeOK' /\ ClockOrders' /\ IdsOnce' /\ EligibleMeans'
        /\ \A j \in judgments' : j.id \in pages'
    BY <1>1, <1>2, <1>3, RequestStep
  <1>5. SealedForGood'
    BY <1>4, AnswersKept
  <1>6. DueEvaluated' /\ ScoredOnOneOutcome'
    BY OutcomesKept DEF outcomeVars
  <1> QED BY <1>4, <1>5, <1>6 DEF IndInv

\* The row a committed request adds.
RowOf(s) == [id |-> s.id, actor |-> s.actor, forecast |-> s.forecast,
             request |-> s.request,
             eligible |-> Live(s.forecast) /\ s.request \in Blind,
             late |-> phase = "mature"]

LEMMA InsertHolds ==
  ASSUME IndInv, NEW w \in Writers, writer[w].pc = "commit", UniqueRows(writer[w]),
         judgments' = judgments \cup {RowOf(writer[w])},
         spec' = TRUE, writer' = [writer EXCEPT ![w] = IdleWriter],
         Tell(writer[w].actor, writer[w].forecast, writer[w].request, "sealed"),
         UNCHANGED <<phase, completed, pages, drawn, crashes, outcomeVars>>
  PROVE  IndInv'
  <1> DEFINE n == RowOf(writer[w])
  <1>1. /\ writer[w].id \in 1..drawn /\ writer[w].actor \in Actors
        /\ writer[w].forecast \in Forecasts /\ writer[w].request \in Requests
        /\ \A j \in judgments : j.id # writer[w].id
        /\ writer[w].id \in pages
        /\ \A u \in Writers \ {w} : writer[u].pc # "idle" => writer[u].id # writer[w].id
    BY DEF IndInv, IdsOnce
  <1>2. drawn \in 0..MaxJudgments /\ writer \in [Writers -> Writer]
    BY DEF IndInv, TypeOK
  <1>3. /\ n.id = writer[w].id /\ n.actor = writer[w].actor
        /\ n.forecast = writer[w].forecast /\ n.request = writer[w].request
        /\ n.eligible = (Live(n.forecast) /\ n.request \in Blind)
        /\ n.late = (phase = "mature")
    BY DEF RowOf
  <1>4. n \in Judgment
    BY <1>1, <1>2, ScoringConfiguration DEF RowOf, Judgment, Ids
  <1>5. judgments' = judgments \cup {n}
    OBVIOUS
  <1> HIDE DEF n
  <1>6. TypeOK'
    BY <1>4, <1>5, IdleValues DEF IndInv, TypeOK, outcomeVars
  <1>7. /\ writer'[w].pc = "idle"
        /\ \A u \in Writers \ {w} : writer'[u] = writer[u]
    BY <1>2, IdleValues
  <1>8. ClockOrders'
    BY <1>7 DEF IndInv, ClockOrders, outcomeVars, Live
  <1>9. SealedBy(n.actor, n.forecast) = {}
    BY <1>3 DEF UniqueRows
  <1>10. IdsOnce'
    BY <1>1, <1>2, <1>3, <1>5, <1>7, <1>9 DEF IndInv, IdsOnce, SealedBy
  <1>11. EligibleMeans'
    BY <1>3, <1>5 DEF IndInv, EligibleMeans, Live
  <1>12. SealedForGood'
    <2>1. \A j \in judgments' : j.id \in pages'
      BY <1>1, <1>3, <1>5 DEF IndInv, SealedForGood
    <2>2. ASSUME NEW x \in answered', x.kind = "sealed"
          PROVE  \E j \in judgments' : {k \in judgments' : k.actor = x.actor
                    /\ k.forecast = x.forecast} = {j} /\ j.request = x.request
      <3>1. CASE x \in answered
        <4>1. PICK j \in judgments : SealedBy(x.actor, x.forecast) = {j}
                                      /\ j.request = x.request
          BY <2>2, <3>1 DEF IndInv, SealedForGood
        <4>2. ~(n.actor = x.actor /\ n.forecast = x.forecast)
          BY <4>1, <1>9
        <4> QED BY <4>1, <4>2, <1>5 DEF SealedBy
      <3>2. CASE x \notin answered
        <4>1. x.actor = n.actor /\ x.forecast = n.forecast /\ x.request = n.request
          BY <3>2, <1>3 DEF Tell
        <4> QED BY <4>1, <1>5, <1>9 DEF SealedBy
      <3> QED BY <3>1, <3>2
    <2> QED BY <2>1, <2>2 DEF SealedForGood, SealedBy
  <1>13. ~n.late => evaluation[n.forecast] = Nothing
    BY <1>1, <1>3 DEF IndInv, ClockOrders
  <1>14. DueEvaluated'
    BY DEF IndInv, DueEvaluated, outcomeVars, ForecastsOf, Live
  <1>15. ScoredOnOneOutcome'
    <2>1. OnePricePerIndex'
      BY DEF IndInv, ScoredOnOneOutcome, OnePricePerIndex, outcomeVars
    <2>2. PreparedOnOutcome'
      BY DEF IndInv, ScoredOnOneOutcome, PreparedOnOutcome, outcomeVars, Tell,
             ForecastsOf
    <2>3. BatchScoresAll'
      <3>1. \A b \in batches, j \in judgments' :
              b.status = "completed" /\ j.forecast \in b.due /\ j.eligible /\ ~j.late =>
                \E x \in scores : x.judgment = j.id /\ x.due = b.due
        BY <1>3, <1>5, <1>13 DEF IndInv, DueEvaluated, ScoredOnOneOutcome,
           BatchScoresAll
      <3> QED BY <3>1, <1>5 DEF IndInv, ScoredOnOneOutcome, BatchScoresAll,
                 outcomeVars, Live
    <2> QED BY <2>1, <2>2, <2>3 DEF ScoredOnOneOutcome
  <1> QED BY <1>6, <1>8, <1>10, <1>11, <1>12, <1>14, <1>15 DEF IndInv

LEMMA CommitJudgmentHolds ==
  ASSUME IndInv, NEW w \in Writers, CommitJudgment(w) PROVE IndInv'
  <1>1. writer \in [Writers -> Writer] /\ writer[w] \in Writer
        /\ writer[w].clash \in BOOLEAN
    BY DEF IndInv, TypeOK, Writer
  <1>2. [writer EXCEPT ![w].pc = "undo"] =
          [writer EXCEPT ![w] = [writer[w] EXCEPT !.pc = "undo",
                                                  !.clash = writer[w].clash]]
    BY <1>1 DEF Writer
  <1>3. [writer EXCEPT ![w].pc = "undo", ![w].clash = TRUE] =
          [writer EXCEPT ![w] = [writer[w] EXCEPT !.pc = "undo", !.clash = TRUE]]
    BY <1>1
  <1>4. \/ /\ UniqueRows(writer[w]) /\ judgments' = judgments \cup {RowOf(writer[w])}
           /\ spec' = TRUE /\ writer' = [writer EXCEPT ![w] = IdleWriter]
           /\ Tell(writer[w].actor, writer[w].forecast, writer[w].request, "sealed")
        \/ /\ UNCHANGED <<judgments, spec, answered>>
           /\ \E c \in BOOLEAN : writer' =
                [writer EXCEPT ![w] = [writer[w] EXCEPT !.pc = "undo", !.clash = c]]
    BY <1>1, <1>2, <1>3 DEF CommitJudgment, RowOf
  <1> QED BY <1>4, InsertHolds, InsertFails DEF CommitJudgment

-----------------------------------------------------------------------------
(* Commands.                                                               *)

LEMMA BeginRecordHolds ==
  ASSUME IndInv, NEW o \in Operators, NEW obs \in Observations,
         phase = "mature", BeginRecord(o, obs),
         UNCHANGED <<phase, completed, judgmentVars, evaluation, price, batches,
                     scores, answered>>
  PROVE  IndInv'
  <1>1. PICK f \in DOMAIN obs : oper' = [oper EXCEPT ![o] =
          [IdleOper EXCEPT !.pc = "record", !.obs = obs, !.first = f,
                           !.seen = price[IndexOf[f]]]]
    BY DEF BeginRecord
  <1> DEFINE s == [IdleOper EXCEPT !.pc = "record", !.obs = obs, !.first = f,
                                   !.seen = price[IndexOf[f]]]
  <1>2. f \in Forecasts
    BY DEF Observations
  <1>3. price[IndexOf[f]] \in Returns \cup {Nothing}
    BY <1>2 DEF IndInv, TypeOK, Indexes
  <1>4. s.pc = "record" /\ s.first = f /\ s.obs = obs
    BY DEF IdleOper
  <1>5. s \in Oper
    BY <1>2, <1>3, IdleValues DEF Oper, IdleOper, Observations
  <1>6. oper' = [oper EXCEPT ![o] = s] /\ oper \in [Operators -> Oper]
    BY <1>1 DEF IndInv, TypeOK
  <1> HIDE DEF s
  <1>7. TypeOK'
    BY <1>5, <1>6 DEF IndInv, TypeOK, judgmentVars
  <1>8. ClockOrders'
    BY <1>6 DEF IndInv, ClockOrders, judgmentVars, Live
  <1>9. DueEvaluated'
    <2>1. /\ oper'[o] = s
          /\ \A p \in Operators \ {o} : oper'[p] = oper[p]
      BY <1>6
    <2> QED BY <1>1, <1>4, <2>1 DEF IndInv, DueEvaluated, ForecastsOf, Live
  <1>10. IdsOnce' /\ EligibleMeans' /\ SealedForGood'
    BY JudgmentsKept
  <1>11. ScoredOnOneOutcome'
    BY DEF IndInv, ScoredOnOneOutcome, OnePricePerIndex, PreparedOnOutcome,
           BatchScoresAll, judgmentVars, ForecastsOf, Live
  <1> QED BY <1>7, <1>8, <1>9, <1>10, <1>11 DEF IndInv

LEMMA RunEvaluationsHolds ==
  ASSUME IndInv, NEW o \in Operators, NEW obs \in Observations,
         RunEvaluations(o, obs)
  PROVE  IndInv'
  BY BeginRecordHolds DEF RunEvaluations, Mature

LEMMA ImportSnapshotHolds ==
  ASSUME IndInv, NEW o \in Operators, NEW b \in Bundles, ImportSnapshot(o, b)
  PROVE  IndInv'
  <1> DEFINE open == {f \in Pending : evaluation[f] = Nothing}
             obs == [f \in open |-> Close[b][IndexOf[f]]]
  <1>1. open \subseteq Forecasts
    BY DEF Pending
  <1>2. \A f \in Forecasts : Close[b][IndexOf[f]] \in Returns
    BY ZenonT(40), ScoringConfiguration
  <1>3. obs \in [open -> Returns]
    BY <1>1, <1>2
  <1>4. obs \in Observations
    BY <1>1, <1>3 DEF Observations
  <1>5. BeginRecord(o, obs)
    BY DEF ImportSnapshot
  <1> HIDE DEF obs, open
  <1> QED BY <1>4, <1>5, BeginRecordHolds DEF ImportSnapshot

\* A step that ends a command.
LEMMA CommandEnds ==
  ASSUME IndInv, NEW o \in Operators, oper' = [oper EXCEPT ![o] = IdleOper]
  PROVE  /\ oper' \in [Operators -> Oper]
         /\ \A p \in Operators : oper'[p].pc # "idle" => oper'[p] = oper[p]
  BY IdleValues DEF IndInv, TypeOK

LEMMA CommitRecordHolds ==
  ASSUME IndInv, NEW o \in Operators, CommitRecord(o) PROVE IndInv'
  <1>1. /\ oper' = [oper EXCEPT ![o] = IdleOper] /\ oper[o].pc = "record"
        /\ UNCHANGED <<phase, completed, judgmentVars, batches, scores, answered>>
    BY DEF CommitRecord
  <1>2. phase = "mature" /\ oper[o] \in Oper
    BY <1>1 DEF IndInv, ClockOrders, TypeOK
  <1> DEFINE obs == oper[o].obs
  <1>3. obs \in Observations
    BY <1>2 DEF Oper, Observations
  <1> HIDE DEF obs
  <1>4. \A f \in DOMAIN obs : f \in Forecasts /\ obs[f] \in Returns
    BY <1>3 DEF Observations
  <1>5. /\ evaluation \in [Forecasts -> Returns \cup {Nothing}]
        /\ price \in [Indexes -> Returns \cup {Nothing}]
    BY DEF IndInv, TypeOK
  <1>6. /\ evaluation' \in [Forecasts -> Returns \cup {Nothing}]
        /\ price' \in [Indexes -> Returns \cup {Nothing}]
        /\ \A f \in Forecasts :
             evaluation[f] # Nothing => evaluation'[f] = evaluation[f]
        /\ \A i \in Indexes : price[i] # Nothing => price'[i] = price[i]
        /\ \A f \in Forecasts :
             evaluation'[f] # Nothing => price'[IndexOf[f]] = evaluation'[f]
    <2>1. CASE ~Recordable(oper[o])
      BY <2>1, <1>5 DEF CommitRecord, IndInv, ScoredOnOneOutcome, OnePricePerIndex
    <2>2. CASE Recordable(oper[o])
      <3>1. /\ \A f \in DOMAIN obs : evaluation[f] = Nothing
            /\ \A f \in DOMAIN obs : price[IndexOf[f]] \in {Nothing, obs[f]}
            /\ \A f, g \in DOMAIN obs : IndexOf[f] = IndexOf[g] => obs[f] = obs[g]
        BY <2>2 DEF Recordable, PriceAgrees, obs
      <3>2. /\ evaluation' = [f \in Forecasts |->
                 IF f \in DOMAIN obs THEN obs[f] ELSE evaluation[f]]
            /\ price' = [i \in Indexes |->
                 IF \E f \in DOMAIN obs : IndexOf[f] = i
                 THEN obs[CHOOSE f \in DOMAIN obs : IndexOf[f] = i] ELSE price[i]]
        BY <2>2 DEF CommitRecord, obs
      <3>3. \A g \in DOMAIN obs : price'[IndexOf[g]] = obs[g]
        <4> SUFFICES ASSUME NEW g \in DOMAIN obs PROVE price'[IndexOf[g]] = obs[g]
          OBVIOUS
        <4>1. IndexOf[g] \in Indexes
          BY <1>4 DEF Indexes
        <4>2. PICK h \in DOMAIN obs :
                h = CHOOSE f \in DOMAIN obs : IndexOf[f] = IndexOf[g]
          OBVIOUS
        <4>3. IndexOf[h] = IndexOf[g]
          BY <4>2
        <4>4. price'[IndexOf[g]] = obs[h]
          BY <3>2, <4>1, <4>2
        <4> QED BY <3>1, <4>3, <4>4
      <3>4. \A i \in Indexes : (~\E g \in DOMAIN obs : IndexOf[g] = i)
                                  => price'[i] = price[i]
        BY <3>2
      <3>5. \A f \in Forecasts : /\ f \in DOMAIN obs => evaluation'[f] = obs[f]
                                 /\ f \notin DOMAIN obs => evaluation'[f] = evaluation[f]
        BY <3>2
      <3>6. \A i \in Indexes : price'[i] \in Returns \cup {Nothing}
        BY <1>4, <1>5, <3>3, <3>4
      <3>7. \A i \in Indexes : price[i] # Nothing => price'[i] = price[i]
        BY <3>1, <3>3, <3>4
      <3>8. \A f \in Forecasts :
              evaluation'[f] # Nothing => price'[IndexOf[f]] = evaluation'[f]
        <4> SUFFICES ASSUME NEW f \in Forecasts, evaluation'[f] # Nothing
                     PROVE  price'[IndexOf[f]] = evaluation'[f]
          OBVIOUS
        <4>1. CASE f \in DOMAIN obs
          BY <4>1, <3>3, <3>5
        <4>2. CASE f \notin DOMAIN obs
          <5>1. evaluation'[f] = evaluation[f] /\ price[IndexOf[f]] = evaluation[f]
            BY <4>2, <3>5 DEF IndInv, ScoredOnOneOutcome, OnePricePerIndex
          <5>2. IndexOf[f] \in Indexes
            BY DEF Indexes
          <5> QED BY <5>1, <5>2, <3>7
        <4> QED BY <4>1, <4>2
      <3>9. evaluation' \in [Forecasts -> Returns \cup {Nothing}]
        BY <3>2, <1>4, <1>5
      <3>10. price' \in [Indexes -> Returns \cup {Nothing}]
        BY <3>2, <3>6
      <3> QED BY <3>1, <3>5, <3>7, <3>8, <3>9, <3>10
    <2> QED BY <2>1, <2>2
  <1>7. TypeOK'
    BY <1>1, <1>6, CommandEnds DEF IndInv, TypeOK, judgmentVars
  <1>8. ClockOrders'
    BY <1>1, <1>2, CommandEnds DEF IndInv, ClockOrders, judgmentVars, Live
  <1>9. \A b \in batches : b.due \subseteq Forecasts
    BY DEF IndInv, TypeOK, Batch
  <1>10. DueEvaluated'
    <2>1. \A p \in Operators : oper[p].due \subseteq Forecasts
      BY DEF IndInv, TypeOK, Oper
    <2> QED BY ZenonT(40), <1>1, <1>6, <1>9, <2>1, CommandEnds DEF IndInv, DueEvaluated,
               ForecastsOf, Live
  <1>11. IdsOnce' /\ EligibleMeans' /\ SealedForGood'
    BY <1>1, JudgmentsKept
  <1>12. OnePricePerIndex'
    BY <1>6 DEF OnePricePerIndex
  <1>13. PreparedOnOutcome'
    BY <1>1, <1>6, <1>9 DEF IndInv, ScoredOnOneOutcome, PreparedOnOutcome, ForecastsOf
  <1>14. BatchScoresAll'
    <2>1. UNCHANGED <<judgments, batches, scores>>
      BY <1>1 DEF judgmentVars
    <2>2. ASSUME NEW x \in scores, NEW j \in judgments, x.return = price[IndexOf[j.forecast]]
          PROVE  x.return = price'[IndexOf[j.forecast]]
      <3>1. j.forecast \in Forecasts /\ x.return \in Returns
        BY DEF IndInv, TypeOK, Judgment, Score
      <3>2. IndexOf[j.forecast] \in Indexes
        BY <3>1 DEF Indexes
      <3> QED BY <2>2, <3>1, <3>2, <1>6, ScoringConfiguration
    <2> QED BY <2>1, <2>2 DEF IndInv, ScoredOnOneOutcome, BatchScoresAll, Live
  <1> QED BY <1>7, <1>8, <1>10, <1>11, <1>12, <1>13, <1>14 DEF IndInv, ScoredOnOneOutcome

\* An answer that rests on a completed batch.
LEMMA PreparedAnswer ==
  ASSUME IndInv, NEW r \in Runs, NEW D, Told(r, D), ForecastsOf(r) \subseteq D,
         \E b \in batches' : b.status = "completed" /\ b.due = D,
         \A f \in D : evaluation[f] # Nothing,
         batches \subseteq batches', UNCHANGED evaluation
  PROVE  PreparedOnOutcome'
  BY DEF IndInv, ScoredOnOneOutcome, PreparedOnOutcome, Told, ForecastsOf

LEMMA DueFacts ==
  ASSUME IndInv
  PROVE  /\ Due \subseteq Forecasts /\ Pending \subseteq Forecasts
         /\ \A f \in Due : Live(f) /\ evaluation[f] # Nothing
  BY DEF Due, Pending

\* A blocked batch says nothing about outcomes.
LEMMA BlockedAdded ==
  ASSUME IndInv, NEW D \in SUBSET Forecasts,
         batches' = batches \cup {BlockedRow(D)},
         UNCHANGED <<phase, completed, judgmentVars, evaluation, price, scores, answered>>,
         oper' \in [Operators -> Oper],
         \A p \in Operators : oper'[p].pc # "idle" => oper'[p] = oper[p]
  PROVE  IndInv'
  <1> DEFINE b == BlockedRow(D)
  <1>1. b \in Batch /\ b.status # "completed"
    BY DEF BlockedRow, Batch
  <1>2. batches' = batches \cup {b}
    OBVIOUS
  <1> HIDE DEF b
  <1>3. TypeOK' /\ ClockOrders'
    BY <1>1, <1>2 DEF IndInv, TypeOK, ClockOrders, judgmentVars, Live
  <1>4. DueEvaluated'
    BY <1>1, <1>2 DEF IndInv, DueEvaluated, ForecastsOf, Live
  <1>5. IdsOnce' /\ EligibleMeans' /\ SealedForGood'
    BY JudgmentsKept
  <1>6. OnePricePerIndex' /\ PreparedOnOutcome'
    BY <1>2 DEF IndInv, ScoredOnOneOutcome, OnePricePerIndex, PreparedOnOutcome,
       ForecastsOf
  <1>7. BatchScoresAll'
    BY <1>1, <1>2 DEF IndInv, ScoredOnOneOutcome, BatchScoresAll, judgmentVars, Live
  <1> QED BY <1>3, <1>4, <1>5, <1>6, <1>7 DEF IndInv, ScoredOnOneOutcome

LEMMA ReadDueHolds ==
  ASSUME IndInv, NEW o \in Operators, NEW r \in Runs, NEW b \in Bundles,
         ReadDue(o, r, b)
  PROVE  IndInv'
  <1>1. /\ phase = "mature" /\ ForecastsOf(r) \subseteq Due
        /\ UNCHANGED <<phase, completed, judgmentVars, evaluation, price, scores>>
    BY DEF ReadDue
  <1>6. CASE batches' = batches \cup {BlockedRow(Due)} /\ UNCHANGED <<oper, answered>>
    <2>1. oper' \in [Operators -> Oper]
          /\ \A p \in Operators : oper'[p].pc # "idle" => oper'[p] = oper[p]
      BY <1>6 DEF IndInv, TypeOK
    <2> QED BY <1>1, <1>6, <2>1, DueFacts, BlockedAdded
  <1>2. IdsOnce' /\ EligibleMeans' /\ SealedForGood'
    BY <1>1, JudgmentsKept DEF ReadDue, Told
  <1>3. UNCHANGED batches => OnePricePerIndex' /\ BatchScoresAll'
    BY <1>1 DEF IndInv, ScoredOnOneOutcome, OnePricePerIndex, BatchScoresAll,
       judgmentVars, Live
  <1>4. CASE UNCHANGED <<batches, oper>> /\ Told(r, Due) /\ \E x \in Completed(Due) : TRUE
    <2>1. PreparedOnOutcome'
      BY <1>1, <1>4, DueFacts, PreparedAnswer DEF Completed
    <2>2. TypeOK' /\ ClockOrders' /\ DueEvaluated'
      BY <1>1, <1>4 DEF IndInv, TypeOK, ClockOrders, DueEvaluated, ForecastsOf,
         Live, judgmentVars
    <2> QED BY <1>2, <1>3, <1>4, <2>1, <2>2 DEF IndInv, ScoredOnOneOutcome
  <1> DEFINE s == [IdleOper EXCEPT !.pc = "batch", !.run = r, !.bundle = b,
                                   !.due = Due]
  <1>5. CASE UNCHANGED <<batches, answered>> /\ oper' = [oper EXCEPT ![o] = s]
    <2>1. PreparedOnOutcome'
      BY <1>1, <1>5 DEF IndInv, ScoredOnOneOutcome, PreparedOnOutcome, ForecastsOf
    <2>2. s.pc = "batch" /\ s.run = r /\ s.bundle = b /\ s.due = Due
      BY DEF IdleOper
    <2>3. s \in Oper
      BY IdleValues, DueFacts DEF Oper, IdleOper
    <2>4. PICK d : d = s
      OBVIOUS
    <2>5. oper' = [oper EXCEPT ![o] = d] /\ oper \in [Operators -> Oper]
      BY <1>5, <2>4 DEF IndInv, TypeOK
    <2>6. /\ d.pc = "batch" /\ d.run = r /\ d.bundle = b /\ d.due = Due /\ d \in Oper
      BY <2>2, <2>3, <2>4
    <2> HIDE DEF s
    <2>7. /\ oper'[o] = d
          /\ \A p \in Operators \ {o} : oper'[p] = oper[p]
      BY <2>5
    <2>8. TypeOK' /\ ClockOrders'
      BY <1>1, <1>5, <2>5, <2>6, <2>7 DEF IndInv, TypeOK, ClockOrders, judgmentVars, Live
    <2>9. DueEvaluated'
      BY <1>1, <1>5, <2>6, <2>7, DueFacts DEF IndInv, DueEvaluated, ForecastsOf, Live
    <2> QED BY <1>2, <1>3, <1>5, <2>1, <2>8, <2>9 DEF IndInv, ScoredOnOneOutcome
  <1> QED BY <1>4, <1>5, <1>6 DEF ReadDue

LEMMA RecordBlockedHolds ==
  ASSUME IndInv, NEW o \in Operators, RecordBlocked(o) PROVE IndInv'
  <1>1. oper' \in [Operators -> Oper]
        /\ \A p \in Operators : oper'[p].pc # "idle" => oper'[p] = oper[p]
    BY DEF RecordBlocked, IndInv, TypeOK
  <1> QED BY <1>1, DueFacts, BlockedAdded DEF RecordBlocked

\* The batch and the scores that one transaction of CommitBatch adds.
LEMMA BatchAdded ==
  ASSUME IndInv, NEW o \in Operators, oper[o].pc = "batch",
         Materialisable(oper[o].due, oper[o].bundle), Unscored(oper[o].due),
         batches' = batches \cup {[status |-> "completed", due |-> oper[o].due,
                                   bundle |-> oper[o].bundle]},
         scores' = scores \cup {ScoreOf(j, oper[o].due) : j \in EligibleOn(oper[o].due)},
         Told(oper[o].run, oper[o].due),
         oper' = [oper EXCEPT ![o] = IdleOper],
         UNCHANGED <<phase, completed, judgmentVars, evaluation, price>>
  PROVE  IndInv'
  <1>1. PICK D : D = oper[o].due
    OBVIOUS
  <1>2. /\ oper[o].run \in Runs /\ oper[o].bundle \in Bundles
        /\ ForecastsOf(oper[o].run) \subseteq D
        /\ D \subseteq Forecasts
        /\ \A f \in D : Live(f) /\ evaluation[f] # Nothing
    BY <1>1 DEF IndInv, DueEvaluated, TypeOK, Oper
  <1>3. PICK b : b = [status |-> "completed", due |-> oper[o].due,
                      bundle |-> oper[o].bundle]
    OBVIOUS
  <1>4. b \in Batch /\ b.status = "completed" /\ b.due = D
    BY <1>1, <1>2, <1>3 DEF Batch
  <1>5. batches' = batches \cup {b} /\ UNCHANGED judgments
    BY <1>3 DEF judgmentVars
  <1>6. /\ judgments \subseteq Judgment
        /\ \A j \in EligibleOn(D) : j \in judgments /\ j.forecast \in D /\ j.eligible
    BY DEF IndInv, TypeOK, EligibleOn
  <1>7. \A j \in EligibleOn(D) :
          /\ ScoreOf(j, D).judgment = j.id /\ ScoreOf(j, D).due = D
          /\ ScoreOf(j, D).return = evaluation[j.forecast]
          /\ ScoreOf(j, D).correct = SignCorrect(j.request, evaluation[j.forecast])
          /\ ScoreOf(j, D) \in Score
    <2> SUFFICES ASSUME NEW j \in EligibleOn(D)
                 PROVE  /\ ScoreOf(j, D).judgment = j.id /\ ScoreOf(j, D).due = D
                        /\ ScoreOf(j, D).return = evaluation[j.forecast]
                        /\ ScoreOf(j, D).correct =
                             SignCorrect(j.request, evaluation[j.forecast])
                        /\ ScoreOf(j, D) \in Score
      OBVIOUS
    <2>1. /\ j.id \in Ids /\ j.forecast \in D /\ j.request \in Requests
          /\ D \in SUBSET Forecasts
      BY <1>2, <1>6 DEF Judgment
    <2>2. evaluation[j.forecast] \in Returns
      BY <1>2, <2>1 DEF IndInv, TypeOK
    <2>3. SignCorrect(j.request, evaluation[j.forecast]) \in BOOLEAN \cup {Nothing}
      BY <2>1, <2>2, ScoringConfiguration DEF SignCorrect
    <2> QED BY <2>1, <2>2, <2>3 DEF ScoreOf, Score
  <1>8. /\ \A x \in scores' : x \in scores \/ \E j \in EligibleOn(D) : x = ScoreOf(j, D)
        /\ \A j \in EligibleOn(D) : ScoreOf(j, D) \in scores'
        /\ scores \subseteq scores'
    BY <1>1
  <1>9. TypeOK'
    <2>1. scores' \subseteq Score
      BY <1>7, <1>8 DEF IndInv, TypeOK
    <2> QED BY <2>1, <1>4, <1>5, CommandEnds DEF IndInv, TypeOK, judgmentVars
  <1>10. ClockOrders'
    BY CommandEnds DEF IndInv, ClockOrders, judgmentVars, Live
  <1>11. DueEvaluated'
    BY ZenonT(40), <1>2, <1>4, <1>5, CommandEnds DEF IndInv, DueEvaluated, ForecastsOf, Live
  <1>12. IdsOnce' /\ EligibleMeans' /\ SealedForGood'
    BY JudgmentsKept DEF Told
  <1>13. PreparedOnOutcome'
    BY <1>1, <1>2, <1>4, <1>5, PreparedAnswer
  <1>14. OnePricePerIndex'
    BY DEF IndInv, ScoredOnOneOutcome, OnePricePerIndex
  <1>15. BatchScoresAll'
    <2>1. \A c \in batches', j \in judgments' :
            c.status = "completed" /\ j.forecast \in c.due /\ j.eligible /\ ~j.late =>
              \E x \in scores' : x.judgment = j.id /\ x.due = c.due
      <3> SUFFICES ASSUME NEW c \in batches', NEW j \in judgments',
                          c.status = "completed", j.forecast \in c.due, j.eligible, ~j.late
                   PROVE  \E x \in scores' : x.judgment = j.id /\ x.due = c.due
        OBVIOUS
      <3>1. CASE c = b
        BY <3>1, <1>4, <1>5, <1>7, <1>8 DEF EligibleOn
      <3>2. CASE c \in batches
        BY <3>2, <1>5, <1>8 DEF IndInv, ScoredOnOneOutcome, BatchScoresAll
      <3> QED BY <1>5, <3>1, <3>2
    <2>2. ASSUME NEW x \in scores'
          PROVE  /\ \E c \in batches' : c.status = "completed" /\ c.due = x.due
                 /\ \E j \in judgments' :
                      /\ j.id = x.judgment /\ j.forecast \in x.due
                      /\ Live(j.forecast) /\ j.request \in Blind
                      /\ x.return = price'[IndexOf[j.forecast]]
                      /\ x.correct = Nothing <=> x.return = 0
                      /\ x.correct = TRUE <=>
                           x.return # 0 /\ Up[j.request] = (x.return > 0)
      <3>1. CASE x \in scores
        BY <3>1, <1>5 DEF IndInv, ScoredOnOneOutcome, BatchScoresAll
      <3>2. CASE \E j \in EligibleOn(D) : x = ScoreOf(j, D)
        <4>1. PICK j \in EligibleOn(D) : x = ScoreOf(j, D)
          BY <3>2
        <4>2. /\ j \in judgments' /\ j.id = x.judgment /\ j.forecast \in x.due
              /\ Live(j.forecast) /\ j.request \in Blind /\ j.request \in Requests
          BY <4>1, <1>5, <1>6, <1>7 DEF IndInv, EligibleMeans, Judgment
        <4>3. x.return = price'[IndexOf[j.forecast]] /\ x.return \in Returns
          BY <4>1, <1>2, <1>6, <1>7 DEF IndInv, ScoredOnOneOutcome, OnePricePerIndex,
             TypeOK
        <4>4. /\ x.correct = Nothing <=> x.return = 0
              /\ x.correct = TRUE <=> x.return # 0 /\ Up[j.request] = (x.return > 0)
          BY <4>1, <4>2, <4>3, <1>7, ScoringConfiguration DEF SignCorrect
        <4>5. \E c \in batches' : c.status = "completed" /\ c.due = x.due
          BY <4>1, <1>4, <1>5, <1>7
        <4> QED BY <4>2, <4>3, <4>4, <4>5
      <3> QED BY <1>8, <3>1, <3>2
    <2>3. \A x, y \in scores' : x.judgment = y.judgment => x = y
      <3>1. \A j \in EligibleOn(D), x \in scores : x.judgment # j.id
        BY <1>1 DEF Unscored
      <3>2. \A j, k \in EligibleOn(D) : j.id = k.id => j = k
        BY <1>6 DEF IndInv, IdsOnce
      <3>3. \A x, y \in scores : x.judgment = y.judgment => x = y
        BY DEF IndInv, ScoredOnOneOutcome, BatchScoresAll
      <3> QED BY <1>7, <1>8, <3>1, <3>2, <3>3
    <2> QED BY <2>1, <2>2, <2>3 DEF BatchScoresAll, Live
  <1> QED BY <1>9, <1>10, <1>11, <1>12, <1>13, <1>14, <1>15 DEF IndInv, ScoredOnOneOutcome

LEMMA CommitBatchHolds ==
  ASSUME IndInv, NEW o \in Operators, CommitBatch(o) PROVE IndInv'
  <1>1. CASE Materialisable(oper[o].due, oper[o].bundle) /\ Unscored(oper[o].due)
    BY <1>1, BatchAdded DEF CommitBatch
  <1>2. CASE ~(Materialisable(oper[o].due, oper[o].bundle) /\ Unscored(oper[o].due))
    BY <1>2, BlockedAdded, CommandEnds, DueFacts DEF CommitBatch
  <1> QED BY <1>1, <1>2

-----------------------------------------------------------------------------
(* The theorems.                                                           *)

LEMMA NextHolds == IndInv /\ [Next]_vars => IndInv'
  <1> SUFFICES ASSUME IndInv, [Next]_vars PROVE IndInv'
    OBVIOUS
  <1>1. CASE UNCHANGED vars
    <2>1. IdsOnce' /\ EligibleMeans' /\ SealedForGood'
      BY <1>1, JudgmentsKept DEF vars, judgmentVars
    <2>2. DueEvaluated' /\ ScoredOnOneOutcome'
      BY <1>1, OutcomesKept DEF vars
    <2>3. TypeOK' /\ ClockOrders'
      BY <1>1 DEF vars, IndInv, TypeOK, ClockOrders, Live
    <2> QED BY <2>1, <2>2, <2>3 DEF IndInv
  <1>2. CASE Advance
    BY <1>2, AdvanceHolds
  <1>3. CASE \E r \in Runs : CompleteRun(r)
    BY <1>3, CompleteRunHolds
  <1>4. ASSUME NEW w \in Writers, Seal(w) PROVE IndInv'
    BY <1>4, SubmitHolds, ReplayHolds, RequestHolds, CommitJudgmentHolds, RereadHolds
       DEF Seal
  <1>5. ASSUME NEW o \in Operators, Operate(o) PROVE IndInv'
    BY <1>5, RunEvaluationsHolds, ImportSnapshotHolds, CommitRecordHolds, ReadDueHolds,
       CommitBatchHolds, RecordBlockedHolds DEF Operate
  <1> QED BY <1>1, <1>2, <1>3, <1>4, <1>5 DEF Next

\* The inductive invariant of judgments, evaluations and batches.
THEOREM Invariance == Spec => []IndInv
  BY InitHolds, NextHolds, PTL DEF Spec

\* Whoever was told that a judgment is sealed has the only row of that actor on
\* the forecast, with that request, and its page, for ever
\* (create_user_judgment, publish_user_judgment_markdown).
THEOREM SealsAreKept == Spec => []SealedForGood
  <1>1. IndInv => SealedForGood
    BY DEF IndInv
  <1> QED BY Invariance, <1>1, PTL

\* One price settles an index, a reflection is prepared on a completed batch of
\* evaluated forecasts, and a batch scores exactly the eligible judgments, once
\* and with the right verdict (evaluate_forecast, materialize_evaluation_batch,
\* materialize_user_judgment_evaluation).
THEOREM ScoresFollowOutcomes == Spec => []ScoredOnOneOutcome
  <1>1. IndInv => ScoredOnOneOutcome
    BY DEF IndInv
  <1> QED BY Invariance, <1>1, PTL

\* The claims of a step in which rows, requests and answers come only from what
\* was claimed before.
LEMMA ClaimsKept ==
  ASSUME \A j \in judgments' : Live(j.forecast) =>
           j \in judgments \/ <<j.actor, j.forecast, j.request>> \in Claimed,
         \A w \in Writers : writer'[w].pc # "idle" /\ Live(writer'[w].forecast) =>
           <<writer'[w].actor, writer'[w].forecast, writer'[w].request>> \in Claimed,
         \A x \in answered' : x.kind = "sealed" /\ Live(x.forecast) =>
           x \in answered \/ <<x.actor, x.forecast, x.request>> \in Claimed
  PROVE  Claimed' \subseteq Claimed
  <1>1. ASSUME NEW z \in Claimed' PROVE z \in Claimed
    <2>1. CASE \E j \in judgments' :
                 Live(j.forecast) /\ z = <<j.actor, j.forecast, j.request>>
      BY <2>1 DEF Claimed
    <2>2. CASE \E w \in Writers : /\ writer'[w].pc # "idle" /\ Live(writer'[w].forecast)
                                  /\ z = <<writer'[w].actor, writer'[w].forecast,
                                           writer'[w].request>>
      BY <2>2
    <2>3. CASE \E x \in answered' : /\ x.kind = "sealed" /\ Live(x.forecast)
                                    /\ z = <<x.actor, x.forecast, x.request>>
      BY <2>3 DEF Claimed
    <2> QED BY <1>1, <2>1, <2>2, <2>3 DEF Claimed, Live
  <1> QED BY <1>1

\* A request in flight is among the claims, and so is a row.
LEMMA ClaimsHeld ==
  /\ \A j \in judgments : Live(j.forecast) =>
       <<j.actor, j.forecast, j.request>> \in Claimed
  /\ \A w \in Writers : writer[w].pc # "idle" /\ Live(writer[w].forecast) =>
       <<writer[w].actor, writer[w].forecast, writer[w].request>> \in Claimed
  BY DEF Claimed

\* What is sealed on a live forecast was asked before its session opened, however
\* long the request took and whichever way it was answered (create_user_judgment).
THEOREM HindsightIsExcluded == Spec => NoHindsight
  <1>1. IndInv /\ [Next]_vars => [phase # "open" => Claimed' \subseteq Claimed]_vars
    <2> SUFFICES ASSUME IndInv, Next, phase # "open" PROVE Claimed' \subseteq Claimed
      OBVIOUS
    <2>1. /\ writer \in [Writers -> Writer]
          /\ \A w \in Writers : writer[w] \in Writer
      BY DEF IndInv, TypeOK
    <2>2. CASE UNCHANGED <<judgments, writer>>
               /\ \A x \in answered' : x.kind = "sealed" => x \in answered
      BY <2>2, ClaimsKept, ClaimsHeld
    <2>3. ASSUME NEW w \in Writers, NEW s, s.pc = "idle" \/
                   /\ writer[w].pc # "idle" /\ s.actor = writer[w].actor
                   /\ s.forecast = writer[w].forecast /\ s.request = writer[w].request,
                 writer' = [writer EXCEPT ![w] = s],
                 \A j \in judgments' : j \in judgments \/
                   /\ writer[w].pc # "idle" /\ j.actor = writer[w].actor
                   /\ j.forecast = writer[w].forecast /\ j.request = writer[w].request,
                 \A x \in answered' : x.kind = "sealed" => x \in answered \/
                   /\ writer[w].pc # "idle" /\ x.actor = writer[w].actor
                   /\ x.forecast = writer[w].forecast /\ x.request = writer[w].request
          PROVE  Claimed' \subseteq Claimed
      <3>1. /\ writer'[w] = s
            /\ \A u \in Writers \ {w} : writer'[u] = writer[u]
        BY <2>1, <2>3
      <3>2. \A u \in Writers : writer'[u].pc # "idle" /\ Live(writer'[u].forecast) =>
              <<writer'[u].actor, writer'[u].forecast, writer'[u].request>> \in Claimed
        BY <2>3, <3>1, ClaimsHeld
      <3> QED BY <2>3, <3>2, ClaimsHeld, ClaimsKept
    <2>4. ASSUME NEW w \in Writers, Seal(w) PROVE Claimed' \subseteq Claimed
      <3>1. ASSUME NEW a \in Actors, NEW f \in Forecasts, NEW q \in Requests,
                   Submit(w, a, f, q)
            PROVE  Claimed' \subseteq Claimed
        <4>1. ~Live(f) /\ UNCHANGED <<judgments, answered>>
          BY <3>1 DEF Submit, WindowOpen
        <4>2. PICK s : s = [pc |-> "publish", id |-> drawn + 1, actor |-> a,
                forecast |-> f, request |-> q, seen |-> FALSE, clash |-> FALSE]
          OBVIOUS
        <4>3. writer' = [writer EXCEPT ![w] = s] /\ s.forecast = f
          BY <3>1, <4>2 DEF Submit
        <4>4. /\ writer'[w] = s
              /\ \A u \in Writers \ {w} : writer'[u] = writer[u]
          BY <2>1, <4>3
        <4> QED BY <4>1, <4>3, <4>4, ClaimsHeld, ClaimsKept
      <3>2. ASSUME NEW a \in Actors, NEW f \in Forecasts, NEW q \in Requests,
                   Replay(w, a, f, q)
            PROVE  Claimed' \subseteq Claimed
        <4>1. UNCHANGED <<judgments, writer>>
          BY <3>2 DEF Replay, judgmentVars
        <4>2. \A x \in answered' : x.kind = "sealed" => x \in answered \/
                \E j \in judgments : j.actor = x.actor /\ j.forecast = x.forecast
                                     /\ j.request = x.request
          BY <3>2 DEF Replay, Tell, SealedBy, SameRequest
        <4> QED BY <4>1, <4>2, ClaimsHeld, ClaimsKept
      <3>3. CASE PublishPage(w) \/ ReadSpec(w)
        <4>1. /\ writer[w].pc # "idle" /\ UNCHANGED <<judgments, answered>>
              /\ \E s : /\ writer' = [writer EXCEPT ![w] = s] /\ s.actor = writer[w].actor
                        /\ s.forecast = writer[w].forecast /\ s.request = writer[w].request
          <5>1. PICK r : r = writer[w]
            OBVIOUS
          <5>2. CASE PublishPage(w)
            <6>1. PICK s : s = [r EXCEPT !.pc = "spec"]
              OBVIOUS
            <6>2. s.actor = r.actor /\ s.forecast = r.forecast /\ s.request = r.request
              BY <2>1, <5>1, <6>1 DEF Writer
            <6>3. writer' = [writer EXCEPT ![w] = s]
              BY <2>1, <5>1, <5>2, <6>1 DEF PublishPage
            <6> QED BY <5>1, <5>2, <6>2, <6>3 DEF PublishPage
          <5>3. CASE ReadSpec(w)
            <6>1. PICK s : s = [r EXCEPT !.pc = "commit", !.seen = spec]
              OBVIOUS
            <6>2. s.actor = r.actor /\ s.forecast = r.forecast /\ s.request = r.request
              BY <2>1, <5>1, <6>1 DEF Writer
            <6>3. writer' = [writer EXCEPT ![w] = s]
              BY <2>1, <5>1, <5>3, <6>1 DEF ReadSpec
            <6> QED BY <5>1, <5>3, <6>2, <6>3 DEF ReadSpec
          <5> QED BY <3>3, <5>2, <5>3
        <4> QED BY <4>1, <2>3
      <3>4. CASE RemovePage(w) \/ Kill(w)
        <4>1. /\ writer[w].pc # "idle" /\ UNCHANGED <<judgments, answered>>
              /\ \E s : /\ writer' = [writer EXCEPT ![w] = s]
                        /\ s.pc = "idle" \/
                             /\ s.actor = writer[w].actor
                             /\ s.forecast = writer[w].forecast
                             /\ s.request = writer[w].request
          <5>1. PICK r, s : r = writer[w] /\ s = [r EXCEPT !.pc = "reread"]
            OBVIOUS
          <5>2. s.actor = r.actor /\ s.forecast = r.forecast /\ s.request = r.request
            BY <2>1, <5>1 DEF Writer
          <5>3. CASE Kill(w)
            BY <5>3, IdleValues DEF Kill
          <5>4. CASE RemovePage(w)
            <6>1. writer' = [writer EXCEPT ![w] = IF r.clash THEN s ELSE IdleWriter]
              BY <5>1, <5>4 DEF RemovePage
            <6>2. \/ writer' = [writer EXCEPT ![w] = s]
                  \/ writer' = [writer EXCEPT ![w] = IdleWriter]
              BY <6>1
            <6>3. writer[w].pc # "idle" /\ UNCHANGED <<judgments, answered>>
              BY <5>4 DEF RemovePage
            <6> QED BY <5>1, <5>2, <6>2, <6>3, IdleValues
          <5> QED BY <3>4, <5>3, <5>4
        <4> QED BY <4>1, <2>3
      <3>5. CASE Reread(w)
        <4>1. /\ writer[w].pc # "idle" /\ UNCHANGED judgments
              /\ writer' = [writer EXCEPT ![w] = IdleWriter]
              /\ \A x \in answered' : x.kind = "sealed" => x \in answered \/
                   /\ x.actor = writer[w].actor /\ x.forecast = writer[w].forecast
                   /\ x.request = writer[w].request
          BY <3>5 DEF Reread, Tell
        <4> QED BY <4>1, <2>3, IdleValues
      <3>6. CASE CommitJudgment(w)
        <4>1. /\ writer[w].pc # "idle"
              /\ \A j \in judgments' : j \in judgments \/
                   /\ j.actor = writer[w].actor /\ j.forecast = writer[w].forecast
                   /\ j.request = writer[w].request
              /\ \A x \in answered' : x.kind = "sealed" => x \in answered \/
                   /\ x.actor = writer[w].actor /\ x.forecast = writer[w].forecast
                   /\ x.request = writer[w].request
          BY <3>6 DEF CommitJudgment, Tell
        <4>2. \E s : /\ writer' = [writer EXCEPT ![w] = s]
                     /\ s.pc = "idle" \/
                          /\ s.actor = writer[w].actor
                          /\ s.forecast = writer[w].forecast
                          /\ s.request = writer[w].request
          <5>1. PICK r, s, t : /\ r = writer[w] /\ s = [r EXCEPT !.pc = "undo"]
                               /\ t = [r EXCEPT !.pc = "undo", !.clash = TRUE]
            OBVIOUS
          <5>2. /\ s.actor = r.actor /\ s.forecast = r.forecast /\ s.request = r.request
                /\ t.actor = r.actor /\ t.forecast = r.forecast /\ t.request = r.request
            BY <2>1, <5>1 DEF Writer
          <5>3. /\ [writer EXCEPT ![w].pc = "undo"] = [writer EXCEPT ![w] = s]
                /\ [writer EXCEPT ![w].pc = "undo", ![w].clash = TRUE] =
                     [writer EXCEPT ![w] = t]
            BY <2>1, <5>1
          <5>4. \/ writer' = [writer EXCEPT ![w] = IdleWriter]
                \/ writer' = [writer EXCEPT ![w] = s]
                \/ writer' = [writer EXCEPT ![w] = t]
            BY <3>6, <5>3 DEF CommitJudgment
          <5> QED BY <5>1, <5>2, <5>4, IdleValues
        <4> QED BY <4>1, <4>2, <2>3
      <3> QED BY <2>4, <3>1, <3>2, <3>3, <3>4, <3>5, <3>6 DEF Seal
    <2>5. ASSUME NEW o \in Operators, Operate(o) PROVE Claimed' \subseteq Claimed
      <3>1. UNCHANGED <<judgments, writer>>
        BY <2>5 DEF Operate, RunEvaluations, ImportSnapshot, CommitRecord, ReadDue,
           CommitBatch, RecordBlocked, judgmentVars
      <3>2. \A x \in answered' : x.kind = "sealed" => x \in answered
        <4>1. answered' = answered \/ \E r, D : Told(r, D)
          BY <2>5 DEF Operate, RunEvaluations, ImportSnapshot, CommitRecord, ReadDue,
             CommitBatch, RecordBlocked
        <4> QED BY <4>1 DEF Told
      <3> QED BY <2>2, <3>1, <3>2
    <2>6. CASE Advance \/ \E r \in Runs : CompleteRun(r)
      BY <2>2, <2>6 DEF Advance, CompleteRun, judgmentVars
    <2> QED BY <2>4, <2>5, <2>6 DEF Next
  <1> QED BY Invariance, <1>1, PTL DEF Spec, NoHindsight

-----------------------------------------------------------------------------
(* The committee: the inductive invariant.                                 *)

\* How many supersteps lie behind an attempt.
StepsBehind(pc) ==
  CASE pc = "freeze_snapshot" -> 0 [] pc = "research" -> 1 [] pc = Strategist -> 2
    [] pc = Critic -> 3 [] pc = "evidence_validator" -> 4 [] pc = Cio -> 5
    [] OTHER -> 6

\* Who has spoken by then.
SpokenBy(pc) ==
  CASE pc \in {"freeze_snapshot", "research"} -> {}
    [] pc = Strategist -> Researchers
    [] pc = Critic -> Researchers \cup {Strategist}
    [] pc \in {"evidence_validator", Cio} -> Researchers \cup {Strategist, Critic}
    [] OTHER -> Researchers \cup {Strategist, Critic, Cio}

Ended == {"persist", "done"}
Nodes == {"freeze_snapshot", "research", Strategist, Critic, "evidence_validator", Cio}
Working == Nodes \cup Ended

\* One opinion of every agent of A on every target, made by attempt a.
OncePerSeat(ops, A, a) ==
  /\ \A o \in ops : o.agent \in A /\ o.target \in Targets /\ o.id = a
  /\ \A g \in A, t \in Targets : \E o \in ops : o.agent = g /\ o.target = t
  /\ \A o, p \in ops : o.agent = p.agent /\ o.target = p.target => o = p

\* What the checks of a node leave of an opinion on snapshot s, before the
\* decision.
OpinionSound(o, s) ==
  /\ o.up \in Nat /\ o.down \in Nat
  /\ o.direction = Direction(o.up, o.down)
  /\ o.agent # Critic =>
       /\ o.evidence \subseteq s.items
       /\ \A e \in o.evidence : Scope[e] = {} \/ o.target \in Scope[e]

\* Ranks order the strategist's opinions as their scores do.
RanksFollow(ops) ==
  \A o, p \in ops : o.agent = Strategist /\ p.agent = Strategist =>
    /\ o.rank < p.rank => o.up - o.down > p.up - p.down
    /\ o.up - o.down > p.up - p.down + RankTie => o.rank < p.rank

\* A forecast, and the strategist's opinion it rests on.
VerdictRests(f, o) ==
  /\ o.agent = Strategist /\ o.target = f.target
  /\ f.up = 85 * o.up /\ f.down = 85 * o.down
  /\ f.neutral = 100 * Scale - f.up - f.down
  /\ f.direction = o.direction

VerdictsSound(c, a, s, v) ==
  /\ \A f \in c.forecasts :
       /\ f.target \in Targets /\ f.id = a /\ f.edition = v
       /\ \E o \in c.opinions : VerdictRests(f, o)
       /\ \A e \in f.evidence :
            /\ e \in s.items
            /\ Ingested[e] <= s.cutoff
            /\ Scope[e] = {} \/ f.target \in Scope[e]
  /\ \A t \in Targets : \E f \in c.forecasts : f.target = t
  /\ \A f, g \in c.forecasts : f.target = g.target => f = g

StepsSound(steps, n) ==
  /\ steps \in Seq(Nodes) /\ Len(steps) = n
  /\ \A i \in 1..n : steps[i] = Supersteps[i]

\* The channels c of attempt a at node pc, on snapshot s and edition v.
ChannelsSound(a, pc, c, s, v) ==
  /\ StepsSound(c.steps, StepsBehind(pc))
  /\ OncePerSeat(c.opinions, SpokenBy(pc), a)
  /\ \A o \in c.opinions : o.agent # Cio => OpinionSound(o, s)
  /\ RanksFollow(c.opinions)
  /\ pc \in {Cio} \cup Ended =>
       \A o \in c.opinions : o.agent \in Researchers \cup {Strategist} =>
         \A e \in o.evidence : Ingested[e] <= s.cutoff
  /\ pc \in Ended => VerdictsSound(c, a, s, v)

IsChannels(c) == c = [opinions |-> c.opinions, steps |-> c.steps,
                      forecasts |-> c.forecasts, quality |-> c.quality]

CommitteeShape ==
  /\ meeting = [status |-> meeting.status, snapshot |-> meeting.snapshot,
                edition |-> meeting.edition, runtime |-> meeting.runtime]
  /\ lease \in 0..(MaxAttempts + 1)
  /\ member = [a \in Attempts |-> [pc |-> member[a].pc, channels |-> member[a].channels,
                                   error |-> member[a].error]]
  /\ saved = [a \in Attempts |-> saved[a]]
  /\ \A a \in Attempts :
       /\ IsChannels(member[a].channels)
       /\ member[a].pc \in {"idle", "begin", "failed", "dead"} \cup Working

\* Attempts begin in order, on a thread of their own; a completed run has its
\* attempt behind it.
AttemptsFenced ==
  /\ \A a \in Attempts : a > lease => member[a].pc = "idle"
  /\ \A a \in Attempts : member[a].pc \in {"idle", "begin"} => saved[a] = Absent
  /\ meeting.status = "none" => lease = 0
  /\ meeting.status = "completed" =>
       lease \in Attempts /\ member[lease].pc \in {"done", "dead"}
  /\ meeting.status # "none" => Demo \/ meeting.edition <= meeting.snapshot.cutoff

WorkSound ==
  \A a \in Attempts : member[a].pc \in Working =>
    ChannelsSound(a, member[a].pc, member[a].channels, meeting.snapshot, meeting.edition)

CommitteeInv == CommitteeShape /\ AttemptsFenced /\ WorkSound /\ CommitteeSound

-----------------------------------------------------------------------------
(* Counting and ranking.                                                   *)

LEMMA NodeFacts ==
  ASSUME NEW node \in Nodes
  PROVE  /\ StepsBehind(node) \in 0..5
         /\ Supersteps[StepsBehind(node) + 1] = node
         /\ After(node) \in Working \ {"freeze_snapshot", "done"}
         /\ StepsBehind(After(node)) = StepsBehind(node) + 1
  <1>1. /\ Len(Supersteps) = 6
        /\ Supersteps[1] = "freeze_snapshot" /\ Supersteps[2] = "research"
        /\ Supersteps[3] = Strategist /\ Supersteps[4] = Critic
        /\ Supersteps[5] = "evidence_validator" /\ Supersteps[6] = Cio
    BY DEF Supersteps
  <1>2. PICK k \in 1..6 : k = CHOOSE n \in 1..Len(Supersteps) : Supersteps[n] = node
    BY <1>1 DEF Nodes
  <1>3. Supersteps[k] = node
    BY <1>1, <1>2 DEF Nodes
  <1>4. After(node) = IF k = 6 THEN "persist" ELSE Supersteps[k + 1]
    BY <1>1, <1>2 DEF After
  <1>5. StepsBehind(node) = k - 1
    BY <1>1, <1>3 DEF StepsBehind, Strategist, Critic, Cio, Nodes
  <1> QED BY <1>1, <1>3, <1>4, <1>5 DEF StepsBehind, Strategist, Critic, Cio, Nodes, Working, Ended

LEMMA StepRecorded ==
  ASSUME NEW node \in Nodes,
         NEW steps, StepsSound(steps, StepsBehind(node))
  PROVE  StepsSound(Append(steps, node), StepsBehind(After(node)))
  BY NodeFacts DEF StepsSound

\* One opinion per seat is as many opinions as seats.
LEMMA SeatsCounted ==
  ASSUME NEW ops, NEW A, NEW a, OncePerSeat(ops, A, a), IsFiniteSet(A)
  PROVE  Cardinality(ops) = Cardinality(A \X Targets)
         /\ {<<o.agent, o.target>> : o \in ops} = A \X Targets
  <1> DEFINE f == [o \in ops |-> <<o.agent, o.target>>]
  <1>1. f \in [ops -> A \X Targets]
    BY DEF OncePerSeat
  <1>2. \A o, p \in ops : f[o] = f[p] => o = p
    BY DEF OncePerSeat
  <1>3. \A x \in A \X Targets : \E o \in ops : f[o] = x
    BY DEF OncePerSeat
  <1>4. IsFiniteSet(A \X Targets)
    BY FS_Product, CommitteeConfiguration
  <1>5. f \in Injection(ops, A \X Targets) /\ f \in Surjection(ops, A \X Targets)
    BY <1>1, <1>2, <1>3 DEF Injection, Surjection, IsInjective
  <1>6. Cardinality(ops) = Cardinality(A \X Targets)
    BY <1>4, <1>5, FS_Injection
  <1>7. {<<o.agent, o.target>> : o \in ops} = A \X Targets
    BY <1>1, <1>3
  <1> QED BY <1>6, <1>7

\* A node finds the opinions it counts.
LEMMA InputComplete ==
  ASSUME NEW c, NEW A, NEW a, OncePerSeat(c.opinions, A, a),
         NEW B \in SUBSET A, IsFiniteSet(B), NEW t \in Targets
  PROVE  CompleteFrom(c, B, t) /\ Counted(c, B, t)
  <1> DEFINE S == OpinionsOf(c, B, t)
             f == [o \in S |-> o.agent]
  <1>1. f \in [S -> B]
    BY DEF OpinionsOf
  <1>2. \A o, p \in S : f[o] = f[p] => o = p
    BY DEF OncePerSeat, OpinionsOf
  <1>3. \A x \in B : \E o \in S : f[o] = x
    BY DEF OncePerSeat, OpinionsOf
  <1>4. f \in Injection(S, B) /\ f \in Surjection(S, B)
    BY <1>1, <1>2, <1>3 DEF Injection, Surjection, IsInjective
  <1>5. Cardinality(S) = Cardinality(B)
    BY <1>4, FS_Injection
  <1>6. {o.agent : o \in S} = B
    BY <1>1, <1>3
  <1> QED BY <1>5, <1>6 DEF CompleteFrom, Counted

\* The order of the numbers, as the relation of the library's theorems.
Below == {ss \in Nat \X Nat : ss[1] < ss[2]}

\* A set of numbers that is not empty has a least member.
LEMMA LeastNumber ==
  ASSUME NEW T \in SUBSET Nat, T # {}
  PROVE  \E n \in T : \A k \in T : n <= k
  <1>1. OpToRel(<, Nat) = Below
    BY Zenon DEF OpToRel, Below
  <1>2. IsWellFoundedOn(Below, Nat)
    BY <1>1, NatLessThanWellFounded
  <1>3. PICK x \in T : \A y \in T : ~(<<y, x>> \in Below)
    BY <1>2, WFMin
  <1>4. \A y \in T : x \in Nat /\ y \in Nat /\ ~(y < x)
    BY <1>3 DEF Below
  <1> QED BY <1>4

\* Walking bounded scores down finds the first of every group.
LEMMA GroupsExist ==
  ASSUME NEW N \in Nat, NEW values \in SUBSET ((-N)..N)
  PROVE  \E heads \in SUBSET values : IsGroups(heads, values)
  <1> DEFINE walked(n) == {v \in values : v > N - n}
             good(n) == \E heads \in SUBSET walked(n) : IsGroups(heads, walked(n))
             bad == {n \in Nat : ~good(n)}
  <1>0. RankTie \in Nat
    BY CommitteeConfiguration
  <1>6. \A v \in values : v \in Int /\ -N <= v /\ v <= N
    OBVIOUS
  <1>1. walked(2 * N + 1) = values
    <2>1. \A v \in values : v > N - (2 * N + 1)
      BY <1>6
    <2> QED BY <2>1
  <1>2. good(0)
    <2>1. \A v \in values : ~(v > N - 0)
      BY <1>6
    <2>2. walked(0) = {}
      BY <2>1
    <2>3. {} \in SUBSET walked(0) /\ IsGroups({}, walked(0))
      BY <2>2 DEF IsGroups
    <2> QED BY <2>3
  <1>3. ASSUME NEW n \in Nat, good(n) PROVE good(n + 1)
    <2> DEFINE k == N - n
    <2>1. PICK heads \in SUBSET walked(n) : IsGroups(heads, walked(n))
      BY <1>3
    <2>2. /\ walked(n + 1) = walked(n) \cup (IF k \in values THEN {k} ELSE {})
          /\ \A v \in walked(n) : v \in Int /\ v > k
          /\ k \in Int
      <3>1. \A v \in values : v > N - (n + 1) <=> v > N - n \/ v = k
        BY <1>6
      <3>2. walked(n + 1) = walked(n) \cup (IF k \in values THEN {k} ELSE {})
        <4> HIDE DEF k
        <4> QED BY <3>1
      <3> QED BY <1>6, <3>2
    <2>3. CASE k \notin values
      BY <2>1, <2>2, <2>3
    <2>4. CASE k \in values /\ \A h \in heads : h - k > RankTie
      <3>1. heads \cup {k} \in SUBSET walked(n + 1)
        BY <2>1, <2>2, <2>4
      <3> HIDE DEF walked, k
      <3>2. IsGroups(heads \cup {k}, walked(n + 1))
        BY <1>0, <2>1, <2>2, <2>4 DEF IsGroups
      <3> QED BY <3>1, <3>2
    <2>5. CASE k \in values /\ ~\A h \in heads : h - k > RankTie
      <3>1. heads \in SUBSET walked(n + 1)
        BY <2>1, <2>2, <2>5
      <3> HIDE DEF walked, k
      <3>2. IsGroups(heads, walked(n + 1))
        BY <1>0, <2>1, <2>2, <2>5 DEF IsGroups
      <3> QED BY <3>1, <3>2
    <2> QED BY <2>3, <2>4, <2>5
  <1> HIDE DEF good
  <1>4. bad = {}
    <2> SUFFICES ASSUME bad # {} PROVE FALSE
      OBVIOUS
    <2>1. PICK n \in bad : \A k \in bad : n <= k
      BY LeastNumber
    <2>2. n # 0 /\ n - 1 \in Nat /\ n - 1 \notin bad
      BY <1>2, <2>1
    <2> QED BY <1>3, <2>1, <2>2
  <1>5. good(2 * N + 1)
    BY <1>4
  <1> QED BY <1>1, <1>5 DEF good

\* A smaller rank is a greater score, and a score that is greater by more than
\* the tolerance has the smaller rank.
LEMMA RankOrder ==
  ASSUME NEW score \in [Targets -> (-Scale)..Scale], NEW t \in Targets, NEW u \in Targets
  PROVE  /\ Rank(score, t) < Rank(score, u) => score[t] > score[u]
         /\ score[t] > score[u] + RankTie => Rank(score, t) < Rank(score, u)
  <1> DEFINE values == {score[x] : x \in DOMAIN score}
             heads == GroupHeads(values)
             above(x) == {y \in DOMAIN score : \E h \in heads : score[x] <= h /\ h < score[y]}
  <1>1. values \in SUBSET ((-Scale)..Scale) /\ Scale \in Nat /\ RankTie \in Nat
    BY CommitteeConfiguration
  <1>2. heads \in SUBSET values /\ IsGroups(heads, values)
    <2> HIDE DEF values
    <2>1. \E H \in SUBSET values : IsGroups(H, values)
      BY <1>1, GroupsExist
    <2> QED BY <2>1 DEF GroupHeads
  <1>3. \A x \in Targets : Rank(score, x) = 1 + Cardinality(above(x))
    BY DEF Rank
  <1> HIDE DEF heads
  <1>4. \A x \in Targets :
          /\ above(x) \subseteq Targets
          /\ \A y \in Targets : y \in above(x) <=>
               \E h \in heads : score[x] <= h /\ h < score[y]
    OBVIOUS
  <1>5. \A x \in Targets : IsFiniteSet(above(x)) /\ Cardinality(above(x)) \in Nat
    <2>1. \A x \in Targets : IsFiniteSet(above(x))
      BY <1>4, CommitteeConfiguration, FS_Subset
    <2> QED BY <2>1, FS_CardinalityType
  <1>6. \A h \in heads : h \in Int
    BY <1>1, <1>2
  <1>7. \A x \in Targets : score[x] \in Int /\ score[x] \in values
    BY <1>1
  <1> HIDE DEF above
  <1>8. ASSUME NEW x \in Targets, NEW y \in Targets, score[x] >= score[y]
        PROVE  above(x) \subseteq above(y)
               /\ Cardinality(above(x)) <= Cardinality(above(y))
    <2>1. above(x) \subseteq above(y)
      BY <1>4, <1>6, <1>7, <1>8
    <2> QED BY <1>5, <2>1, FS_Subset
  <1>9. CASE score[t] > score[u] + RankTie
    <2>1. \E h \in heads : score[u] <= h /\ h < score[t]
      <3>1. CASE score[u] \in heads
        BY <1>1, <1>7, <1>9, <3>1
      <3>2. CASE score[u] \notin heads
        <4>1. PICK h \in heads : h > score[u] /\ ~(h - score[u] > RankTie)
          BY <1>2, <1>7, <3>2 DEF IsGroups
        <4> QED BY <1>1, <1>6, <1>7, <1>9, <4>1
      <3> QED BY <3>1, <3>2
    <2>2. t \in above(u)
      BY <1>4, <2>1
    <2>3. t \notin above(t)
      BY <1>4, <1>6, <1>7
    <2>4. score[t] >= score[u]
      BY <1>1, <1>7, <1>9
    <2>5. Cardinality(above(t)) # Cardinality(above(u))
      BY <1>5, <1>8, <2>2, <2>3, <2>4, FS_Subset
    <2>6. Cardinality(above(t)) < Cardinality(above(u))
      BY <1>5, <1>8, <2>4, <2>5
    <2> QED BY <1>1, <1>3, <1>5, <1>7, <1>9, <2>6
  <1>10. CASE ~(score[t] > score[u] + RankTie)
    <2>1. CASE score[t] > score[u]
      BY <1>10, <2>1
    <2>2. CASE ~(score[t] > score[u])
      <3>1. Cardinality(above(u)) <= Cardinality(above(t))
        BY <1>7, <1>8, <2>2
      <3> QED BY <1>3, <1>5, <1>10, <3>1
    <2> QED BY <2>1, <2>2
  <1> QED BY <1>9, <1>10

LEMMA AfterValues ==
  /\ After("freeze_snapshot") = "research" /\ After("research") = Strategist
  /\ After(Strategist) = Critic /\ After(Critic) = "evidence_validator"
  /\ After("evidence_validator") = Cio /\ After(Cio) = "persist"
  BY NodeFacts DEF StepsBehind, Strategist, Critic, Cio, Nodes, Working, Ended

LEMMA AllStepsTaken ==
  ASSUME NEW steps, StepsSound(steps, 6) PROVE steps = Supersteps
  <1>1. Supersteps \in Seq(Nodes) /\ Len(Supersteps) = 6
    BY DEF Supersteps, Nodes
  <1> QED BY <1>1 DEF StepsSound

LEMMA SeatsJoined ==
  ASSUME NEW ops, NEW add, NEW A, NEW B, NEW a, OncePerSeat(ops, A, a),
         OncePerSeat(add, B, a), A \cap B = {}
  PROVE  OncePerSeat(ops \cup add, A \cup B, a)
  <1>1. \A o \in ops \cup add : o.agent \in A \cup B /\ o.target \in Targets /\ o.id = a
    BY DEF OncePerSeat
  <1>2. \A g \in A \cup B, t \in Targets :
          \E o \in ops \cup add : o.agent = g /\ o.target = t
    BY DEF OncePerSeat
  <1>3. \A o, p \in ops \cup add : o.agent = p.agent /\ o.target = p.target => o = p
    BY DEF OncePerSeat
  <1> QED BY <1>1, <1>2, <1>3 DEF OncePerSeat

-----------------------------------------------------------------------------
(* A step of one attempt.                                                  *)

SameMeeting ==
  /\ meeting'.snapshot = meeting.snapshot /\ meeting'.edition = meeting.edition
  /\ meeting' = [status |-> meeting'.status, snapshot |-> meeting'.snapshot,
                 edition |-> meeting'.edition, runtime |-> meeting'.runtime]

LEMMA StatusSet ==
  ASSUME CommitteeInv, NEW x, meeting' = [meeting EXCEPT !.status = x]
  PROVE  SameMeeting /\ meeting'.status = x
  BY DEF CommitteeInv, CommitteeShape, SameMeeting

LEMMA MeetingKept ==
  ASSUME CommitteeInv, UNCHANGED meeting PROVE SameMeeting
  BY DEF CommitteeInv, CommitteeShape, SameMeeting

LEMMA MemberFacts ==
  ASSUME CommitteeInv, NEW a \in Attempts
  PROVE  /\ member[a] = [pc |-> member[a].pc, channels |-> member[a].channels,
                         error |-> member[a].error]
         /\ IsChannels(member[a].channels)
         /\ member[a].error # "incomplete"
         /\ member[a].pc # "idle" => meeting.status # "none" /\ a <= lease
         /\ a \in Nat /\ lease \in Nat
  BY CommitteeConfiguration DEF CommitteeInv, CommitteeShape, AttemptsFenced, Attempts,
     CommitteeSound, NoInheritedInput

LEMMA AttemptStep ==
  ASSUME CommitteeInv, NEW a \in Attempts, NEW pc, NEW c, NEW e,
         member[a].pc # "idle",
         IsChannels(c), pc \in {"failed", "dead"} \cup Working, e # "incomplete",
         member' = [member EXCEPT ![a] = [pc |-> pc, channels |-> c, error |-> e]],
         saved' = [b \in Attempts |-> saved'[b]],
         \A b \in Attempts \ {a} : saved'[b] = saved[b],
         UNCHANGED lease, SameMeeting, meeting'.status # "none",
         meeting'.status = "completed" =>
           /\ lease \in Attempts
           /\ meeting.status = "completed" \/ lease = a
           /\ a = lease => pc \in {"done", "dead"},
         pc \in Working =>
           ChannelsSound(a, pc, c, meeting.snapshot, meeting.edition)
  PROVE  CommitteeShape' /\ AttemptsFenced' /\ WorkSound' /\ NoInheritedInput'
  <1> DEFINE m == [pc |-> pc, channels |-> c, error |-> e]
  <1>1. m.pc = pc /\ m.channels = c /\ m.error = e
    OBVIOUS
  <1>2. member = [b \in Attempts |-> member[b]]
    BY DEF CommitteeInv, CommitteeShape
  <1>3. /\ member'[a] = m
        /\ \A b \in Attempts \ {a} : member'[b] = member[b]
        /\ member' = [b \in Attempts |-> member'[b]]
    BY <1>2
  <1>4. \A b \in Attempts : member'[b] = [pc |-> member'[b].pc,
          channels |-> member'[b].channels, error |-> member'[b].error]
    BY <1>3, MemberFacts
  <1>5. member' = [b \in Attempts |-> [pc |-> member'[b].pc,
          channels |-> member'[b].channels, error |-> member'[b].error]]
    BY <1>3, <1>4
  <1> HIDE DEF m
  <1>6. CommitteeShape'
    BY <1>1, <1>3, <1>5 DEF CommitteeInv, CommitteeShape, SameMeeting
  <1>7. pc \notin {"idle", "begin"}
    BY DEF Working, Nodes, Ended, Strategist, Critic, Cio
  <1>8. AttemptsFenced'
    <2>1. a <= lease /\ a \in Nat /\ lease \in Nat /\ meeting.status # "none"
      BY MemberFacts
    <2>2. \A b \in Attempts : b > lease' => member'[b].pc = "idle"
      BY <1>3, <2>1 DEF CommitteeInv, AttemptsFenced
    <2>3. \A b \in Attempts : member'[b].pc \in {"idle", "begin"} => saved'[b] = Absent
      BY <1>1, <1>3, <1>7 DEF CommitteeInv, AttemptsFenced
    <2>4. meeting'.status = "completed" =>
            lease' \in Attempts /\ member'[lease'].pc \in {"done", "dead"}
      BY <1>1, <1>3 DEF CommitteeInv, AttemptsFenced
    <2> QED BY <2>1, <2>2, <2>3, <2>4 DEF CommitteeInv, AttemptsFenced, SameMeeting
  <1>9. WorkSound'
    BY <1>1, <1>3 DEF CommitteeInv, WorkSound, SameMeeting
  <1>10. NoInheritedInput'
    BY <1>1, <1>3, MemberFacts DEF NoInheritedInput
  <1> QED BY <1>6, <1>8, <1>9, <1>10

\* What is published stays as it is.
LEMMA PublishedKept ==
  ASSUME CommitteeInv, WorkSound', NoInheritedInput', SameMeeting,
         UNCHANGED <<minutes, verdicts>>,
         meeting'.status = "completed" <=> meeting.status = "completed"
  PROVE  CommitteeSound'
  <1>1. \A a \in Attempts : member'[a].pc = "done" =>
          member'[a].channels.steps = Supersteps
    BY AllStepsTaken DEF WorkSound, Working, Ended, ChannelsSound, StepsBehind,
       Strategist, Critic, Cio
  <1>2. PublishedWhole'
    BY <1>1 DEF CommitteeInv, CommitteeSound, PublishedWhole
  <1>3. VerdictFollows'
    BY DEF CommitteeInv, CommitteeSound, VerdictFollows, SameMeeting
  <1> QED BY <1>2, <1>3 DEF CommitteeSound

\* The member and the threads after a step that writes no checkpoint.
LEMMA ThreadsKept ==
  ASSUME CommitteeInv, UNCHANGED saved
  PROVE  saved' = [b \in Attempts |-> saved'[b]]
  BY DEF CommitteeInv, CommitteeShape

LEMMA NoChannelsShape == IsChannels(NoChannels)
  BY DEF IsChannels, NoChannels

\* An attempt that dies, loses its fence or raises leaves nothing behind.
LEMMA DeadHolds ==
  ASSUME CommitteeInv, NEW a \in Attempts, NEW e, e # "incomplete",
         member[a].pc # "idle",
         member' = [member EXCEPT ![a] =
           [pc |-> "dead", channels |-> NoChannels, error |-> e]],
         UNCHANGED <<lease, saved, minutes, verdicts>>,
         SameMeeting, meeting'.status # "none",
         meeting'.status = "completed" <=> meeting.status = "completed"
  PROVE  CommitteeInv'
  <1>1. "dead" \notin Working
    BY DEF Working, Nodes, Ended, Strategist, Critic, Cio
  <1>2. meeting.status = "completed" => lease \in Attempts
    BY DEF CommitteeInv, AttemptsFenced
  <1>3. CommitteeShape' /\ AttemptsFenced' /\ WorkSound' /\ NoInheritedInput'
    BY <1>1, <1>2, AttemptStep, ThreadsKept, NoChannelsShape
  <1> QED BY <1>3, PublishedKept DEF CommitteeInv

LEMMA FailedRecord ==
  ASSUME NEW r, NEW why, r = [pc |-> r.pc, channels |-> r.channels, error |-> r.error]
  PROVE  [r EXCEPT !.pc = "failed", !.error = why] =
           [pc |-> "failed", channels |-> r.channels, error |-> why]
  <1> DEFINE m == [r EXCEPT !.pc = "failed", !.error = why]
  <1>1. m \in [pc : {"failed"}, channels : {r.channels}, error : {why}]
    OBVIOUS
  <1> HIDE DEF m
  <1>2. m = [pc |-> "failed", channels |-> r.channels, error |-> why]
    BY <1>1
  <1> QED BY <1>2 DEF m

LEMMA RaisedHolds ==
  ASSUME CommitteeInv, NEW a \in Attempts, NEW why, why # "incomplete",
         member[a].pc \in Nodes, Raised(a, why)
  PROVE  CommitteeInv'
  <1>1. "failed" \notin Working
        /\ \A x \in Nodes : x \notin {"done", "dead", "idle"}
    BY DEF Working, Nodes, Ended, Strategist, Critic, Cio
  <1>2. member' = [member EXCEPT ![a] =
          [pc |-> "failed", channels |-> member[a].channels, error |-> why]]
    <2>1. [member[a] EXCEPT !.pc = "failed", !.error = why] =
            [pc |-> "failed", channels |-> member[a].channels, error |-> why]
      BY MemberFacts, FailedRecord
    <2> QED BY <2>1 DEF Raised, CommitteeInv, CommitteeShape
  <1>3. meeting.status # "none" /\ IsChannels(member[a].channels)
    BY <1>1, MemberFacts
  <1>4. meeting.status = "completed" => lease \in Attempts /\ a # lease
    BY <1>1 DEF CommitteeInv, AttemptsFenced
  <1>5. CommitteeShape' /\ AttemptsFenced' /\ WorkSound' /\ NoInheritedInput'
    BY ZenonT(40), <1>1, <1>2, <1>3, <1>4, AttemptStep, ThreadsKept, MeetingKept DEF Raised
  <1> QED BY <1>5, PublishedKept, MeetingKept DEF CommitteeInv, Raised

\* A superstep that returns: what its channels must be.
LEMMA AdvancedHolds ==
  ASSUME CommitteeInv, NEW a \in Attempts, NEW d, member[a].pc \in Nodes,
         IsChannels(d), d.steps = member[a].channels.steps, Advanced(a, d),
         LET pc == After(member[a].pc)
         IN /\ OncePerSeat(d.opinions, SpokenBy(pc), a)
            /\ \A o \in d.opinions : o.agent # Cio => OpinionSound(o, meeting.snapshot)
            /\ RanksFollow(d.opinions)
            /\ pc \in {Cio} \cup Ended =>
                 \A o \in d.opinions : o.agent \in Researchers \cup {Strategist} =>
                   \A e \in o.evidence : Ingested[e] <= meeting.snapshot.cutoff
            /\ pc \in Ended => VerdictsSound(d, a, meeting.snapshot, meeting.edition)
  PROVE  CommitteeInv'
  <1> DEFINE n == [d EXCEPT !.steps = Append(@, member[a].pc)]
             pc == After(member[a].pc)
  <1>1. \A x \in Nodes : x \notin {"done", "dead", "idle"}
    BY DEF Nodes, Strategist, Critic, Cio
  <1>2. /\ n.opinions = d.opinions /\ n.forecasts = d.forecasts
        /\ n.steps = Append(member[a].channels.steps, member[a].pc)
        /\ IsChannels(n)
    <2>1. n \in [opinions : {d.opinions}, forecasts : {d.forecasts}, quality : {d.quality},
                 steps : {Append(member[a].channels.steps, member[a].pc)}]
      BY DEF IsChannels
    <2> HIDE DEF n
    <2> QED BY <2>1 DEF IsChannels
  <1>3. pc \in Working /\ member[a].pc \in Working
    BY NodeFacts DEF Working
  <1>4. StepsSound(n.steps, StepsBehind(pc))
    BY <1>2, <1>3, StepRecorded DEF CommitteeInv, WorkSound, ChannelsSound
  <1>5. ChannelsSound(a, pc, n, meeting.snapshot, meeting.edition)
    BY <1>2, <1>4 DEF ChannelsSound, VerdictsSound
  <1>6. /\ member' = [member EXCEPT ![a] = [pc |-> pc, channels |-> n, error |-> Absent]]
        /\ saved' = [saved EXCEPT ![a] = n]
        /\ UNCHANGED <<edition, meeting, lease, minutes, verdicts>>
    BY DEF Advanced, Thread
  <1> HIDE DEF n, pc
  <1>7. saved' = [b \in Attempts |-> saved'[b]] /\ \A b \in Attempts \ {a} : saved'[b] = saved[b]
    BY <1>6 DEF CommitteeInv, CommitteeShape
  <1>8. meeting.status # "none"
    BY <1>1, MemberFacts
  <1>9. meeting.status = "completed" => lease \in Attempts /\ a # lease
    BY <1>1 DEF CommitteeInv, AttemptsFenced
  <1>10. CommitteeShape' /\ AttemptsFenced' /\ WorkSound' /\ NoInheritedInput'
    BY <1>1, <1>2, <1>3, <1>5, <1>6, <1>7, <1>8, <1>9, AttemptStep, MeetingKept,
       CommitteeConfiguration
  <1> QED BY <1>6, <1>10, PublishedKept, MeetingKept DEF CommitteeInv

-----------------------------------------------------------------------------
(* The nodes.                                                              *)

LEMMA OpinionsEdited ==
  ASSUME NEW c, IsChannels(c), NEW X
  PROVE  LET d == [c EXCEPT !.opinions = X]
         IN IsChannels(d) /\ d.steps = c.steps /\ d.opinions = X
  <1> DEFINE d == [c EXCEPT !.opinions = X]
  <1>1. d \in [opinions : {X}, steps : {c.steps}, forecasts : {c.forecasts},
               quality : {c.quality}]
    BY DEF IsChannels
  <1> HIDE DEF d
  <1>2. IsChannels(d) /\ d.steps = c.steps /\ d.opinions = X
    BY <1>1 DEF IsChannels
  <1> QED BY <1>2 DEF d

LEMMA QualityEdited ==
  ASSUME NEW c, IsChannels(c), NEW X
  PROVE  LET d == [c EXCEPT !.quality = X]
         IN IsChannels(d) /\ d.steps = c.steps /\ d.opinions = c.opinions
  <1> DEFINE d == [c EXCEPT !.quality = X]
  <1>1. d \in [opinions : {c.opinions}, steps : {c.steps}, forecasts : {c.forecasts},
               quality : {X}]
    BY DEF IsChannels
  <1> HIDE DEF d
  <1>2. IsChannels(d) /\ d.steps = c.steps /\ d.opinions = c.opinions
    BY <1>1 DEF IsChannels
  <1> QED BY <1>2 DEF d

\* What is known of an attempt at a node.
LEMMA AtNode ==
  ASSUME CommitteeInv, NEW a \in Attempts, member[a].pc \in Nodes
  PROVE  LET c == member[a].channels
         IN /\ IsChannels(c)
            /\ OncePerSeat(c.opinions, SpokenBy(member[a].pc), a)
            /\ \A o \in c.opinions : o.agent # Cio => OpinionSound(o, meeting.snapshot)
            /\ RanksFollow(c.opinions)
            /\ member[a].pc = Cio =>
                 \A o \in c.opinions : o.agent \in Researchers \cup {Strategist} =>
                   \A e \in o.evidence : Ingested[e] <= meeting.snapshot.cutoff
  BY MemberFacts DEF CommitteeInv, WorkSound, ChannelsSound, Working

LEMMA Spoken ==
  /\ SpokenBy("freeze_snapshot") = {} /\ SpokenBy("research") = {}
  /\ SpokenBy(Strategist) = Researchers
  /\ SpokenBy(Critic) = Researchers \cup {Strategist}
  /\ SpokenBy("evidence_validator") = Researchers \cup {Strategist, Critic}
  /\ SpokenBy(Cio) = Researchers \cup {Strategist, Critic}
  /\ SpokenBy("persist") = Researchers \cup {Strategist, Critic, Cio}
  /\ \A x \in {"research", Strategist, Critic, "evidence_validator"} :
       x \notin {Cio} \cup Ended
  /\ Cio \notin Ended /\ Strategist # Critic /\ Strategist # Cio /\ Critic # Cio
  /\ {"freeze_snapshot", "research", Strategist, Critic, "evidence_validator", Cio} = Nodes
  BY DEF SpokenBy, Strategist, Critic, Cio, Ended, Nodes

LEMMA FreezeSnapshotHolds ==
  ASSUME CommitteeInv, NEW a \in Attempts, FreezeSnapshot(a) PROVE CommitteeInv'
  <1> DEFINE d == [member[a].channels EXCEPT
                     !.quality = {"evidence", "wiki", "believability"}]
  <1>1. member[a].pc = "freeze_snapshot" /\ Advanced(a, d)
    BY DEF FreezeSnapshot
  <1>2. member[a].pc \in Nodes
    BY <1>1, Spoken
  <1>3. /\ IsChannels(d) /\ d.steps = member[a].channels.steps
        /\ d.opinions = member[a].channels.opinions
    BY <1>2, AtNode, QualityEdited
  <1> HIDE DEF d
  <1> QED BY <1>1, <1>2, <1>3, AtNode, AfterValues, Spoken, AdvancedHolds

\* An opinion made of an accepted draft.
LEMMA AcceptedDraft ==
  ASSUME NEW d \in Drafts, DraftAccepted(d), NEW a, NEW g, NEW t \in Targets
  PROVE  LET o == Opinion(a, g, t, d)
         IN /\ o.id = a /\ o.agent = g /\ o.target = t
            /\ o.up = d.up /\ o.down = d.down /\ o.evidence = d.evidence
            /\ o.up \in Nat /\ o.down \in Nat /\ o.direction = Direction(o.up, o.down)
  BY CommitteeConfiguration DEF Opinion, DraftAccepted, DirectionMatches

LEMMA ResearchHolds ==
  ASSUME CommitteeInv, NEW a \in Attempts,
         NEW drafts \in [Researchers \X Targets -> Drafts], Research(a, drafts)
  PROVE  CommitteeInv'
  <1>1. member[a].pc = "research" /\ member[a].pc \in Nodes
    BY Spoken DEF Research
  <1> DEFINE c == member[a].channels
             good(x) == /\ DraftAccepted(drafts[x])
                        /\ Bindable(drafts[x], x[2], meeting.snapshot, ~Demo)
             add == {Opinion(a, x[1], x[2], drafts[x]) : x \in Researchers \X Targets}
             d == [c EXCEPT !.opinions = @ \cup add]
  <1>2. CASE ~\A x \in Researchers \X Targets : good(x)
    BY <1>1, <1>2, RaisedHolds DEF Research
  <1>3. CASE \A x \in Researchers \X Targets : good(x)
    <2>1. Advanced(a, d)
      BY <1>3 DEF Research
    <2>2. IsChannels(c) /\ c.opinions = {}
      BY <1>1, AtNode, Spoken DEF OncePerSeat
    <2>3. IsChannels(d) /\ d.steps = c.steps /\ d.opinions = add
      BY <2>2, OpinionsEdited
    <2>4. \A x \in Researchers \X Targets :
            LET o == Opinion(a, x[1], x[2], drafts[x])
            IN /\ o.id = a /\ o.agent = x[1] /\ o.target = x[2]
               /\ OpinionSound(o, meeting.snapshot)
      <3> SUFFICES ASSUME NEW g \in Researchers, NEW t \in Targets
                   PROVE  LET o == Opinion(a, g, t, drafts[<<g, t>>])
                          IN /\ o.id = a /\ o.agent = g /\ o.target = t
                             /\ OpinionSound(o, meeting.snapshot)
        OBVIOUS
      <3>1. drafts[<<g, t>>] \in Drafts /\ good(<<g, t>>)
        BY <1>3
      <3>2. Bindable(drafts[<<g, t>>], t, meeting.snapshot, ~Demo)
        BY <3>1
      <3> QED BY <3>1, <3>2, AcceptedDraft DEF OpinionSound, Bindable
    <2>5. OncePerSeat(add, Researchers, a)
      <3>1. \A o \in add : o.agent \in Researchers /\ o.target \in Targets /\ o.id = a
        BY <2>4
      <3>2. \A g \in Researchers, t \in Targets : \E o \in add : o.agent = g /\ o.target = t
        <4> TAKE g \in Researchers, t \in Targets
        <4>1. <<g, t>> \in Researchers \X Targets
          OBVIOUS
        <4>2. Opinion(a, g, t, drafts[<<g, t>>]) \in add
          BY <4>1
        <4>3. Opinion(a, g, t, drafts[<<g, t>>]).agent = g
              /\ Opinion(a, g, t, drafts[<<g, t>>]).target = t
          BY <2>4, <4>1
        <4> HIDE DEF add
        <4> QED BY <4>2, <4>3
      <3>3. \A o, p \in add : o.agent = p.agent /\ o.target = p.target => o = p
        <4> SUFFICES ASSUME NEW x \in Researchers \X Targets, NEW y \in Researchers \X Targets,
                            x[1] = y[1], x[2] = y[2]
                     PROVE  x = y
          BY <2>4
        <4> QED OBVIOUS
      <3> QED BY <3>1, <3>2, <3>3 DEF OncePerSeat
    <2>6. \A o \in add : OpinionSound(o, meeting.snapshot) /\ o.agent \in Researchers
      BY <2>4
    <2>7. RanksFollow(add)
      BY <2>6, CommitteeConfiguration DEF RanksFollow
    <2> HIDE DEF add, d
    <2> QED BY <1>1, <2>1, <2>3, <2>5, <2>6, <2>7, AfterValues, Spoken, AdvancedHolds
  <1> QED BY <1>2, <1>3

LEMMA FiniteAgents ==
  IsFiniteSet(Researchers) /\ IsFiniteSet(Researchers \cup {Strategist})
  BY CommitteeConfiguration, FS_AddElement

LEMMA RankedOpinion ==
  ASSUME NEW a, NEW g, NEW t, NEW d, NEW k
  PROVE  LET o == Opinion(a, g, t, d)
             p == [o EXCEPT !.rank = k]
         IN /\ p.id = o.id /\ p.agent = o.agent /\ p.target = o.target
            /\ p.up = o.up /\ p.down = o.down /\ p.direction = o.direction
            /\ p.evidence = o.evidence /\ p.rank = k
  BY DEF Opinion

LEMMA StrategizeHolds ==
  ASSUME CommitteeInv, NEW a \in Attempts, NEW drafts \in [Targets -> Drafts],
         Strategize(a, drafts)
  PROVE  CommitteeInv'
  <1>1. member[a].pc = Strategist /\ member[a].pc \in Nodes
    BY Spoken DEF Strategize
  <1> DEFINE c == member[a].channels
             good(t) == /\ DraftAccepted(drafts[t])
                        /\ drafts[t].evidence \subseteq Upstream(c, t)
                        /\ Bindable(drafts[t], t, meeting.snapshot, ~Demo)
             score == [t \in Targets |-> ScoreOfDraft(drafts[t])]
             voice(t) == [Opinion(a, Strategist, t, drafts[t]) EXCEPT
                            !.rank = Rank(score, t)]
             add == {voice(t) : t \in Targets}
             d == [c EXCEPT !.opinions = @ \cup add]
  <1>2. \A t \in Targets : CompleteFrom(c, Researchers, t)
    BY <1>1, AtNode, Spoken, InputComplete, FiniteAgents
  <1>3. CASE ~\A t \in Targets : good(t)
    BY <1>1, <1>2, <1>3, RaisedHolds DEF Strategize
  <1>4. CASE \A t \in Targets : good(t)
    <2>1. Advanced(a, d)
      BY <1>2, <1>4 DEF Strategize
    <2>2. /\ IsChannels(c) /\ OncePerSeat(c.opinions, Researchers, a)
          /\ \A o \in c.opinions : o.agent # Cio => OpinionSound(o, meeting.snapshot)
      BY <1>1, AtNode, Spoken
    <2>3. IsChannels(d) /\ d.steps = c.steps /\ d.opinions = c.opinions \cup add
      BY <2>2, OpinionsEdited
    <2>4. score \in [Targets -> (-Scale)..Scale]
      <3>1. \A t \in Targets : ScoreOfDraft(drafts[t]) \in (-Scale)..Scale
        BY CommitteeConfiguration DEF ScoreOfDraft
      <3> QED BY <3>1
    <2>5. \A t \in Targets :
            /\ voice(t).id = a /\ voice(t).agent = Strategist /\ voice(t).target = t
            /\ OpinionSound(voice(t), meeting.snapshot)
            /\ voice(t).up - voice(t).down = score[t]
            /\ voice(t).rank = Rank(score, t)
      <3> TAKE t \in Targets
      <3>1. drafts[t] \in Drafts /\ good(t)
        BY <1>4
      <3>3. score[t] = drafts[t].up - drafts[t].down
        BY DEF ScoreOfDraft
      <3> HIDE DEF score
      <3>4. /\ voice(t).id = a /\ voice(t).agent = Strategist /\ voice(t).target = t
            /\ voice(t).up = drafts[t].up /\ voice(t).down = drafts[t].down
            /\ voice(t).evidence = drafts[t].evidence
            /\ voice(t).up \in Nat /\ voice(t).down \in Nat
            /\ voice(t).direction = Direction(voice(t).up, voice(t).down)
            /\ voice(t).rank = Rank(score, t)
        BY <3>1, AcceptedDraft, RankedOpinion
      <3> HIDE DEF voice
      <3> QED BY <3>1, <3>3, <3>4 DEF OpinionSound, Bindable
    <2> HIDE DEF voice, d, score
    <2>9. /\ \A o \in add : \E t \in Targets : o = voice(t)
          /\ \A t \in Targets : voice(t) \in add
      OBVIOUS
    <2> HIDE DEF add
    <2>6. OncePerSeat(c.opinions \cup add, Researchers \cup {Strategist}, a)
      <3>1. OncePerSeat(add, {Strategist}, a)
        BY <2>5, <2>9 DEF OncePerSeat
      <3> QED BY <2>2, <3>1, CommitteeConfiguration, SeatsJoined
    <2>7. \A o \in c.opinions \cup add : o.agent # Cio => OpinionSound(o, meeting.snapshot)
      BY <2>2, <2>5, <2>9
    <2>8. RanksFollow(c.opinions \cup add)
      <3>1. \A o \in c.opinions \cup add : o.agent = Strategist =>
              \E t \in Targets : o = voice(t)
        BY <2>2, <2>9, CommitteeConfiguration DEF OncePerSeat
      <3>2. \A t, u \in Targets :
              /\ voice(t).rank < voice(u).rank =>
                   voice(t).up - voice(t).down > voice(u).up - voice(u).down
              /\ voice(t).up - voice(t).down > voice(u).up - voice(u).down + RankTie =>
                   voice(t).rank < voice(u).rank
        BY <2>4, <2>5, RankOrder
      <3> QED BY <3>1, <3>2 DEF RanksFollow
    <2> QED BY <1>1, <2>1, <2>3, <2>6, <2>7, <2>8, AfterValues, Spoken, AdvancedHolds
  <1> QED BY <1>3, <1>4

LEMMA CriticizeHolds ==
  ASSUME CommitteeInv, NEW a \in Attempts, NEW drafts \in [Targets -> Drafts],
         Criticize(a, drafts)
  PROVE  CommitteeInv'
  <1>1. member[a].pc = Critic /\ member[a].pc \in Nodes
    BY Spoken DEF Criticize
  <1> DEFINE c == member[a].channels
             good(t) == DraftAccepted(drafts[t]) /\ drafts[t].evidence = {}
             voice(t) == Opinion(a, Critic, t, drafts[t])
             add == {voice(t) : t \in Targets}
             d == [c EXCEPT !.opinions = @ \cup add]
  <1>2. \A t \in Targets : Counted(c, Researchers \cup {Strategist}, t)
    BY <1>1, AtNode, Spoken, InputComplete, FiniteAgents
  <1>3. CASE ~\A t \in Targets : good(t)
    BY <1>1, <1>2, <1>3, RaisedHolds DEF Criticize
  <1>4. CASE \A t \in Targets : good(t)
    <2>1. Advanced(a, d)
      BY <1>2, <1>4 DEF Criticize
    <2>2. /\ IsChannels(c) /\ OncePerSeat(c.opinions, Researchers \cup {Strategist}, a)
          /\ \A o \in c.opinions : o.agent # Cio => OpinionSound(o, meeting.snapshot)
          /\ RanksFollow(c.opinions)
      <3>1. SpokenBy(member[a].pc) = Researchers \cup {Strategist}
        BY <1>1, Spoken
      <3>2. /\ IsChannels(c) /\ OncePerSeat(c.opinions, SpokenBy(member[a].pc), a)
            /\ \A o \in c.opinions : o.agent # Cio => OpinionSound(o, meeting.snapshot)
            /\ RanksFollow(c.opinions)
        BY <1>1, AtNode, Zenon
      <3> QED BY <3>1, <3>2
    <2>3. IsChannels(d) /\ d.steps = c.steps /\ d.opinions = c.opinions \cup add
      BY <2>2, OpinionsEdited
    <2>4. \A t \in Targets :
            /\ voice(t).id = a /\ voice(t).agent = Critic /\ voice(t).target = t
            /\ OpinionSound(voice(t), meeting.snapshot)
      BY <1>4, AcceptedDraft DEF OpinionSound
    <2> HIDE DEF voice, d
    <2>9. /\ \A o \in add : \E t \in Targets : o = voice(t)
          /\ \A t \in Targets : voice(t) \in add
      OBVIOUS
    <2> HIDE DEF add
    <2>5. OncePerSeat(c.opinions \cup add, (Researchers \cup {Strategist}) \cup {Critic}, a)
      <3>1. OncePerSeat(add, {Critic}, a)
        BY <2>4, <2>9 DEF OncePerSeat
      <3> QED BY <2>2, <3>1, CommitteeConfiguration, Spoken, SeatsJoined
    <2>6. (Researchers \cup {Strategist}) \cup {Critic} = Researchers \cup {Strategist, Critic}
      OBVIOUS
    <2>7. \A o \in c.opinions \cup add : o.agent # Cio => OpinionSound(o, meeting.snapshot)
      BY <2>2, <2>4, <2>9
    <2>8. RanksFollow(c.opinions \cup add)
      BY <2>2, <2>4, <2>9, Spoken DEF RanksFollow
    <2>10. LET pc == After(member[a].pc)
            IN /\ OncePerSeat(d.opinions, SpokenBy(pc), a)
               /\ \A o \in d.opinions : o.agent # Cio => OpinionSound(o, meeting.snapshot)
               /\ RanksFollow(d.opinions)
               /\ pc \in {Cio} \cup Ended =>
                    \A o \in d.opinions : o.agent \in Researchers \cup {Strategist} =>
                      \A e \in o.evidence : Ingested[e] <= meeting.snapshot.cutoff
               /\ pc \in Ended => VerdictsSound(d, a, meeting.snapshot, meeting.edition)
      BY ZenonT(40), <1>1, <2>3, <2>5, <2>6, <2>7, <2>8, AfterValues, Spoken
    <2> QED BY ZenonT(40), <1>1, <2>1, <2>3, <2>10, AdvancedHolds
  <1> QED BY <1>3, <1>4

LEMMA ValidateEvidenceHolds ==
  ASSUME CommitteeInv, NEW a \in Attempts, ValidateEvidence(a) PROVE CommitteeInv'
  <1>1. member[a].pc = "evidence_validator" /\ member[a].pc \in Nodes
    BY Spoken DEF ValidateEvidence
  <1> DEFINE c == member[a].channels
             d == [c EXCEPT !.quality = @ \cup {"citations"}]
  <1>2. \/ Raised(a, "citation")
        \/ Advanced(a, d) /\ \A o \in c.opinions : \A e \in o.evidence :
             Ingested[e] <= meeting.snapshot.cutoff
    BY DEF ValidateEvidence
  <1>3. CASE Raised(a, "citation")
    BY <1>1, <1>3, RaisedHolds
  <1>4. CASE Advanced(a, d) /\ \A o \in c.opinions : \A e \in o.evidence :
               Ingested[e] <= meeting.snapshot.cutoff
    <2>1. IsChannels(d) /\ d.steps = c.steps /\ d.opinions = c.opinions
      BY <1>1, AtNode, QualityEdited
    <2> HIDE DEF d
    <2> QED BY <1>1, <1>4, <2>1, AtNode, AfterValues, Spoken, AdvancedHolds
  <1> QED BY <1>2, <1>3, <1>4

\* The haircut keeps the direction.
LEMMA HaircutKeeps ==
  ASSUME NEW up \in Nat, NEW down \in Nat
  PROVE  /\ Haircut(up, down).up = 85 * up /\ Haircut(up, down).down = 85 * down
         /\ Direction(85 * up, 85 * down) = Direction(up, down)
  BY DEF Haircut, Direction

LEMMA DecideHolds ==
  ASSUME CommitteeInv, NEW a \in Attempts, Decide(a) PROVE CommitteeInv'
  <1>1. member[a].pc = Cio /\ member[a].pc \in Nodes
    BY Spoken DEF Decide
  <1> DEFINE c == member[a].channels
             A == Researchers \cup {Strategist, Critic}
             cut(o) == Haircut(o.up, o.down)
             strategy(t) == CHOOSE o \in c.opinions : o.agent = Strategist /\ o.target = t
             cited(t) == UNION {o.evidence :
                           o \in OpinionsOf(c, Researchers \cup {Strategist}, t)}
             verdict(t) ==
               LET p == cut(strategy(t))
               IN [target |-> t, id |-> a, up |-> p.up, down |-> p.down,
                   neutral |-> 100 * Scale - p.up - p.down,
                   direction |-> Direction(p.up, p.down), evidence |-> cited(t),
                   edition |-> meeting.edition]
             opinion(t) ==
               [id |-> a, agent |-> Cio, target |-> t, up |-> cut(strategy(t)).up,
                down |-> cut(strategy(t)).down,
                direction |-> verdict(t).direction, evidence |-> cited(t),
                edition |-> meeting.edition, rank |-> Absent]
             ops == {opinion(t) : t \in Targets}
             fcs == {verdict(t) : t \in Targets}
             d == [c EXCEPT !.opinions = @ \cup ops, !.forecasts = fcs]
  <1>2. /\ IsChannels(c) /\ OncePerSeat(c.opinions, A, a) /\ RanksFollow(c.opinions)
        /\ \A o \in c.opinions : o.agent # Cio => OpinionSound(o, meeting.snapshot)
        /\ \A o \in c.opinions : o.agent \in Researchers \cup {Strategist} =>
             \A e \in o.evidence : Ingested[e] <= meeting.snapshot.cutoff
    BY <1>1, AtNode, Spoken
  <1>3. \A t \in Targets : /\ Counted(c, Researchers, t)
                           /\ \A x \in {Strategist, Critic} : OpinionsOf(c, {x}, t) # {}
    <2>1. \A t \in Targets : Counted(c, Researchers, t)
      BY <1>2, InputComplete, FiniteAgents
    <2>2. \A t \in Targets, x \in {Strategist, Critic} : OpinionsOf(c, {x}, t) # {}
      BY <1>2 DEF OncePerSeat, OpinionsOf
    <2> QED BY <2>1, <2>2
  <1>4. Raised(a, "tie") \/ Advanced(a, d)
    BY <1>3 DEF Decide
  <1>5. CASE Raised(a, "tie")
    BY <1>1, <1>5, RaisedHolds
  <1>6. CASE Advanced(a, d)
    <2>1. IsChannels(d) /\ d.steps = c.steps /\ d.opinions = c.opinions \cup ops
          /\ d.forecasts = fcs
      <3> HIDE DEF ops, fcs
      <3>1. d = [c EXCEPT !.opinions = c.opinions \cup ops, !.forecasts = fcs]
        OBVIOUS
      <3>2. PICK X, Y, e : X = c.opinions \cup ops /\ Y = fcs /\ e = c
        OBVIOUS
      <3>3. d = [e EXCEPT !.opinions = X, !.forecasts = Y] /\ IsChannels(e)
        BY <1>2, <3>1, <3>2
      <3> HIDE DEF d, c
      <3>4. d \in [opinions : {X}, steps : {e.steps}, forecasts : {Y}, quality : {e.quality}]
        BY <3>3 DEF IsChannels
      <3>5. IsChannels(d) /\ d.steps = e.steps /\ d.opinions = X /\ d.forecasts = Y
        BY <3>4 DEF IsChannels
      <3> QED BY <3>2, <3>5
    <2>2. ASSUME NEW t \in Targets
          PROVE  /\ strategy(t) \in c.opinions
                 /\ strategy(t).agent = Strategist /\ strategy(t).target = t
                 /\ strategy(t).up \in Nat /\ strategy(t).down \in Nat
                 /\ strategy(t).direction = Direction(strategy(t).up, strategy(t).down)
      <3>1. \E o \in c.opinions : o.agent = Strategist /\ o.target = t
        BY <1>2 DEF OncePerSeat
      <3>2. strategy(t) \in c.opinions /\ strategy(t).agent = Strategist
            /\ strategy(t).target = t
        BY <3>1
      <3> HIDE DEF strategy
      <3> QED BY <1>2, <3>2, Spoken DEF OpinionSound
    <2>3. ASSUME NEW t \in Targets, NEW e \in cited(t)
          PROVE  /\ e \in meeting.snapshot.items
                 /\ Ingested[e] <= meeting.snapshot.cutoff
                 /\ Scope[e] = {} \/ t \in Scope[e]
      <3>1. PICK o \in c.opinions : /\ o.agent \in Researchers \cup {Strategist}
                                    /\ o.target = t /\ e \in o.evidence
        BY <2>3 DEF OpinionsOf
      <3>2. o.agent # Cio /\ o.agent # Critic
        BY <3>1, Spoken, CommitteeConfiguration
      <3> QED BY <1>2, <3>1, <3>2 DEF OpinionSound
    <2> HIDE DEF strategy, cited, d
    <2>4. \A t \in Targets :
            /\ verdict(t).target = t /\ verdict(t).id = a
            /\ verdict(t).edition = meeting.edition /\ verdict(t).evidence = cited(t)
            /\ VerdictRests(verdict(t), strategy(t))
      <3> TAKE t \in Targets
      <3>1. /\ verdict(t).target = t /\ verdict(t).id = a
            /\ verdict(t).edition = meeting.edition /\ verdict(t).evidence = cited(t)
            /\ verdict(t).up = cut(strategy(t)).up
            /\ verdict(t).down = cut(strategy(t)).down
            /\ verdict(t).neutral = 100 * Scale - verdict(t).up - verdict(t).down
            /\ verdict(t).direction = Direction(verdict(t).up, verdict(t).down)
        OBVIOUS
      <3> HIDE DEF verdict
      <3>2. /\ verdict(t).up = 85 * strategy(t).up
            /\ verdict(t).down = 85 * strategy(t).down
            /\ Direction(verdict(t).up, verdict(t).down) = strategy(t).direction
        <4>1. PICK o : o = strategy(t)
          OBVIOUS
        <4>2. o.up \in Nat /\ o.down \in Nat /\ o.direction = Direction(o.up, o.down)
          BY <2>2, <4>1
        <4>3. /\ cut(o).up = 85 * o.up /\ cut(o).down = 85 * o.down
              /\ Direction(85 * o.up, 85 * o.down) = o.direction
          <5>1. PICK u, v : u = o.up /\ v = o.down
            OBVIOUS
          <5>2. u \in Nat /\ v \in Nat
            BY <4>2, <5>1
          <5>3. /\ Haircut(u, v).up = 85 * u /\ Haircut(u, v).down = 85 * v
                /\ Direction(85 * u, 85 * v) = Direction(u, v)
            BY <5>2, HaircutKeeps
          <5> QED BY <4>2, <5>1, <5>3
        <4> QED BY <3>1, <4>1, <4>3
      <3> QED BY <2>2, <3>1, <3>2 DEF VerdictRests
    <2>5. \A t \in Targets : opinion(t).id = a /\ opinion(t).agent = Cio
                             /\ opinion(t).target = t
      OBVIOUS
    <2> HIDE DEF verdict, opinion
    <2>6. /\ \A o \in ops : \E t \in Targets : o = opinion(t)
          /\ \A t \in Targets : opinion(t) \in ops
          /\ \A f \in fcs : \E t \in Targets : f = verdict(t)
          /\ \A t \in Targets : verdict(t) \in fcs
      OBVIOUS
    <2> HIDE DEF ops, fcs
    <2>7. OncePerSeat(d.opinions, Researchers \cup {Strategist, Critic, Cio}, a)
      <3>1. OncePerSeat(ops, {Cio}, a)
        BY <2>5, <2>6 DEF OncePerSeat
      <3>2. Cio \notin A
        BY Spoken, CommitteeConfiguration
      <3>3. OncePerSeat(c.opinions \cup ops, A \cup {Cio}, a)
        BY <1>2, <3>1, <3>2, SeatsJoined
      <3>4. A \cup {Cio} = Researchers \cup {Strategist, Critic, Cio}
        OBVIOUS
      <3> QED BY <2>1, <3>3, <3>4
    <2>8. \A o \in d.opinions : o.agent # Cio => o \in c.opinions
      BY <2>1, <2>5, <2>6
    <2>9. RanksFollow(d.opinions)
      BY <1>2, <2>8, Spoken DEF RanksFollow
    <2>10. VerdictsSound(d, a, meeting.snapshot, meeting.edition)
      <3>1. \A f \in d.forecasts :
              /\ f.target \in Targets /\ f.id = a /\ f.edition = meeting.edition
              /\ \E o \in d.opinions : VerdictRests(f, o)
              /\ \A e \in f.evidence :
                   /\ e \in meeting.snapshot.items
                   /\ Ingested[e] <= meeting.snapshot.cutoff
                   /\ Scope[e] = {} \/ f.target \in Scope[e]
        <4> SUFFICES ASSUME NEW t \in Targets
                     PROVE  /\ \E o \in d.opinions : VerdictRests(verdict(t), o)
                            /\ \A e \in cited(t) :
                                 /\ e \in meeting.snapshot.items
                                 /\ Ingested[e] <= meeting.snapshot.cutoff
                                 /\ Scope[e] = {} \/ t \in Scope[e]
          BY <2>1, <2>4, <2>6
        <4> QED BY <2>1, <2>2, <2>3, <2>4
      <3>2. \A t \in Targets : \E f \in d.forecasts : f.target = t
        BY <2>1, <2>4, <2>6
      <3>3. \A f, g \in d.forecasts : f.target = g.target => f = g
        BY <2>1, <2>4, <2>6
      <3> QED BY <3>1, <3>2, <3>3 DEF VerdictsSound
    <2>11. \A o \in d.opinions : o.agent # Cio => OpinionSound(o, meeting.snapshot)
      BY <1>2, <2>8
    <2>12. \A o \in d.opinions : o.agent \in Researchers \cup {Strategist} =>
             \A e \in o.evidence : Ingested[e] <= meeting.snapshot.cutoff
      <3>1. \A g \in Researchers \cup {Strategist} : g # Cio
        BY Spoken, CommitteeConfiguration
      <3> QED BY <1>2, <2>8, <3>1
    <2>13. LET pc == After(member[a].pc)
            IN /\ OncePerSeat(d.opinions, SpokenBy(pc), a)
               /\ \A o \in d.opinions : o.agent # Cio => OpinionSound(o, meeting.snapshot)
               /\ RanksFollow(d.opinions)
               /\ pc \in {Cio} \cup Ended =>
                    \A o \in d.opinions : o.agent \in Researchers \cup {Strategist} =>
                      \A e \in o.evidence : Ingested[e] <= meeting.snapshot.cutoff
               /\ pc \in Ended => VerdictsSound(d, a, meeting.snapshot, meeting.edition)
      BY ZenonT(40), <1>1, <1>6, <2>7, <2>9, <2>10, <2>11, <2>12, AfterValues, Spoken
    <2> QED BY ZenonT(40), <1>1, <1>6, <2>1, <2>13, AdvancedHolds
  <1> QED BY <1>4, <1>5, <1>6

-----------------------------------------------------------------------------
(* The queue, the fence and publication.                                   *)

LEMMA PrepareMeetingHolds ==
  ASSUME CommitteeInv, NEW s \in Snapshots, NEW r \in Runtimes, PrepareMeeting(s, r)
  PROVE  CommitteeInv'
  <1>1. lease = 0 /\ meeting.status = "none"
    BY DEF CommitteeInv, AttemptsFenced, PrepareMeeting
  <1>2. \A a \in Attempts : member[a].pc = "idle" /\ "idle" \notin Working
    BY <1>1, CommitteeConfiguration DEF CommitteeInv, AttemptsFenced, Attempts, Working,
       Nodes, Ended, Strategist, Critic, Cio
  <1>3. /\ meeting'.status = "queued" /\ meeting'.snapshot = s
        /\ meeting'.edition = edition
        /\ meeting' = [status |-> meeting'.status, snapshot |-> meeting'.snapshot,
                       edition |-> meeting'.edition, runtime |-> meeting'.runtime]
    BY DEF PrepareMeeting
  <1>4. CommitteeShape'
    BY <1>3 DEF CommitteeInv, CommitteeShape, PrepareMeeting
  <1>5. AttemptsFenced'
    BY <1>1, <1>3 DEF CommitteeInv, AttemptsFenced, PrepareMeeting, Visible
  <1>6. WorkSound'
    BY <1>2 DEF WorkSound, PrepareMeeting
  <1>7. CommitteeSound'
    BY <1>1, <1>3 DEF CommitteeInv, CommitteeSound, PublishedWhole, NoInheritedInput,
       VerdictFollows, PrepareMeeting
  <1> QED BY <1>4, <1>5, <1>6, <1>7 DEF CommitteeInv

\* Nothing but the queue's lease or the Wiki's edition moves.
LEMMA PublishHolds ==
  ASSUME CommitteeInv, UNCHANGED <<meeting, lease, member, saved, minutes, verdicts>>
  PROVE  CommitteeInv'
  BY DEF CommitteeInv, CommitteeShape, AttemptsFenced, WorkSound, CommitteeSound,
     PublishedWhole, NoInheritedInput, VerdictFollows

LEMMA ClaimHolds ==
  ASSUME CommitteeInv, Claim PROVE CommitteeInv'
  <1>1. /\ lease + 1 \in Attempts /\ lease \in Nat /\ lease' = lease + 1
        /\ lease' \in 0..(MaxAttempts + 1)
        /\ \A b \in Attempts : b \in Nat
    BY CommitteeConfiguration DEF CommitteeInv, CommitteeShape, Claim, Attempts
  <1>2. PICK a \in Attempts : a = lease + 1
    BY <1>1
  <1>3. member[a].pc = "idle" /\ saved[a] = Absent
    BY <1>1, <1>2 DEF CommitteeInv, AttemptsFenced
  <1>4. member = [b \in Attempts |-> member[b]]
    BY DEF CommitteeInv, CommitteeShape
  <1>5. /\ member'[a] = [member[a] EXCEPT !.pc = "begin"]
        /\ \A b \in Attempts \ {a} : member'[b] = member[b]
        /\ member' = [b \in Attempts |-> member'[b]]
    BY <1>2, <1>4 DEF Claim
  <1>6. member'[a] \in [pc : {"begin"}, channels : {member[a].channels},
                        error : {member[a].error}]
    <2>1. PICK m : m = member[a]
      OBVIOUS
    <2>2. m = [pc |-> m.pc, channels |-> m.channels, error |-> m.error]
      BY <2>1, MemberFacts
    <2>3. [m EXCEPT !.pc = "begin"] \in [pc : {"begin"}, channels : {m.channels},
                                         error : {m.error}]
      BY <2>2
    <2> QED BY <1>5, <2>1, <2>3
  <1>7. \A b \in Attempts : member'[b] = [pc |-> member'[b].pc,
          channels |-> member'[b].channels, error |-> member'[b].error]
    BY <1>5, <1>6, MemberFacts
  <1>8. /\ member'[a].pc = "begin" /\ member'[a].channels = member[a].channels
        /\ member'[a].error = member[a].error
        /\ "begin" \notin Working
    BY <1>6 DEF Working, Nodes, Ended, Strategist, Critic, Cio
  <1>9. UNCHANGED <<meeting, saved, minutes, verdicts>>
        /\ meeting.status \in {"queued", "running"}
    BY DEF Claim
  <1>10. member' = [b \in Attempts |-> [pc |-> member'[b].pc,
           channels |-> member'[b].channels, error |-> member'[b].error]]
    BY <1>5, <1>7
  <1>11. CommitteeShape'
    BY <1>1, <1>5, <1>8, <1>9, <1>10 DEF CommitteeInv, CommitteeShape
  <1>12. AttemptsFenced'
    BY <1>1, <1>2, <1>3, <1>5, <1>8, <1>9 DEF CommitteeInv, AttemptsFenced
  <1>13. WorkSound'
    BY <1>5, <1>8, <1>9 DEF CommitteeInv, WorkSound
  <1>14. NoInheritedInput'
    BY <1>5, <1>8, MemberFacts DEF NoInheritedInput
  <1>15. CommitteeSound'
    BY <1>9, <1>13, <1>14, PublishedKept, MeetingKept
  <1> QED BY <1>11, <1>12, <1>13, <1>15 DEF CommitteeInv

LEMMA ExhaustHolds ==
  ASSUME CommitteeInv, Exhaust PROVE CommitteeInv'
  <1>1. SameMeeting /\ meeting'.status = "failed"
    BY StatusSet DEF Exhaust
  <1>2. /\ lease' = MaxAttempts + 1 /\ lease = MaxAttempts
        /\ lease' \in 0..(MaxAttempts + 1)
        /\ \A b \in Attempts : ~(b > lease')
    BY CommitteeConfiguration DEF Exhaust, Attempts
  <1>3. UNCHANGED <<member, saved, minutes, verdicts>>
        /\ meeting.status \in {"queued", "running"}
    BY DEF Exhaust
  <1>4. CommitteeShape'
    BY <1>1, <1>2, <1>3 DEF CommitteeInv, CommitteeShape, SameMeeting
  <1>5. AttemptsFenced'
    BY <1>1, <1>2, <1>3 DEF CommitteeInv, AttemptsFenced, SameMeeting
  <1>6. WorkSound' /\ NoInheritedInput'
    BY <1>1, <1>3 DEF CommitteeInv, WorkSound, CommitteeSound, NoInheritedInput,
       SameMeeting
  <1>7. CommitteeSound'
    BY <1>1, <1>3, <1>6, PublishedKept
  <1> QED BY <1>4, <1>5, <1>6, <1>7 DEF CommitteeInv

LEMMA DieHolds ==
  ASSUME CommitteeInv, NEW a \in Attempts, Die(a) \/ (Stale(a) /\ member[a].pc # "idle")
  PROVE  CommitteeInv'
  <1>1. member[a].pc # "idle" /\ meeting.status # "none" /\ member[a].error # "incomplete"
    BY MemberFacts DEF Die
  <1>2. /\ member' = [member EXCEPT ![a] =
             [pc |-> "dead", channels |-> NoChannels, error |-> member[a].error]]
        /\ UNCHANGED <<meeting, lease, saved, minutes, verdicts>>
    BY DEF Die, Stale, CommitteeInv, CommitteeShape
  <1> QED BY <1>1, <1>2, MeetingKept, DeadHolds

\* Only the fenced attempt of an unfinished run ends as failed.
LEMMA EndFailedHolds ==
  ASSUME CommitteeInv, NEW a \in Attempts, NEW why, why # "incomplete",
         Fenced(a), member[a].pc \notin {"idle", "done", "dead"}, EndFailed(a, why),
         UNCHANGED <<lease, saved, minutes, verdicts>>
  PROVE  CommitteeInv'
  <1>1. meeting.status # "completed"
    BY DEF CommitteeInv, AttemptsFenced, Fenced
  <1>2. SameMeeting /\ meeting'.status \in {"queued", "failed"}
    BY StatusSet DEF EndFailed
  <1> QED BY <1>1, <1>2, DeadHolds DEF EndFailed

LEMMA BeginHolds ==
  ASSUME CommitteeInv, NEW a \in Attempts, NEW r \in Runtimes, Begin(a, r)
  PROVE  CommitteeInv'
  <1>1. member[a].pc = "begin" /\ saved[a] = Absent
    BY DEF Begin, CommitteeInv, AttemptsFenced
  <1>2. CASE Stale(a)
    BY <1>1, <1>2, DieHolds
  <1>3. CASE Fenced(a) /\ ~SealsMatch(r) /\ EndFailed(a, "seal")
             /\ UNCHANGED <<edition, lease, saved, minutes, verdicts>>
    BY <1>1, <1>3, EndFailedHolds
  <1>4. CASE /\ Fenced(a) /\ SealsMatch(r)
             /\ meeting' = [meeting EXCEPT !.status = "running"]
             /\ member' = [member EXCEPT ![a] =
                  [pc |-> Supersteps[1], channels |-> Resume(Thread(a)),
                   error |-> Absent]]
             /\ UNCHANGED <<edition, lease, saved, minutes, verdicts>>
    <2>1. SameMeeting /\ meeting'.status = "running"
      BY <1>4, StatusSet
    <2>2. meeting.status # "completed"
      BY <1>1, <1>4 DEF CommitteeInv, AttemptsFenced, Fenced
    <2>3. Resume(Thread(a)) = NoChannels /\ Supersteps[1] = "freeze_snapshot"
      BY <1>1 DEF Resume, Thread, Supersteps
    <2>4. NoChannels.opinions = {} /\ NoChannels.steps = <<>>
      BY DEF NoChannels
    <2>5. "freeze_snapshot" \in Working /\ "freeze_snapshot" \notin {Cio} \cup Ended
          /\ StepsBehind("freeze_snapshot") = 0
      BY DEF Working, Nodes, Ended, Strategist, Critic, Cio, StepsBehind
    <2>6. StepsSound(NoChannels.steps, 0)
      BY <2>4 DEF StepsSound
    <2>7. OncePerSeat(NoChannels.opinions, SpokenBy("freeze_snapshot"), a)
      BY <2>4, Spoken DEF OncePerSeat
    <2>8. ChannelsSound(a, "freeze_snapshot", NoChannels, meeting.snapshot,
                        meeting.edition)
      BY <2>4, <2>5, <2>6, <2>7 DEF ChannelsSound, RanksFollow
    <2>9. CommitteeShape' /\ AttemptsFenced' /\ WorkSound' /\ NoInheritedInput'
      BY <1>1, <1>4, <2>1, <2>3, <2>5, <2>8, AttemptStep, ThreadsKept, NoChannelsShape,
         CommitteeConfiguration
    <2> QED BY <1>4, <2>1, <2>2, <2>9, PublishedKept DEF CommitteeInv
  <1> QED BY <1>2, <1>3, <1>4 DEF Begin

LEMMA MarkAttemptFailedHolds ==
  ASSUME CommitteeInv, NEW a \in Attempts, MarkAttemptFailed(a) PROVE CommitteeInv'
  <1>1. member[a].pc = "failed" /\ member[a].error # "incomplete"
    BY MemberFacts DEF MarkAttemptFailed
  <1>2. CASE Stale(a)
    BY <1>1, <1>2, DieHolds
  <1>3. CASE Fenced(a) /\ EndFailed(a, member[a].error)
             /\ UNCHANGED <<edition, lease, saved, minutes, verdicts>>
    BY <1>1, <1>3, EndFailedHolds
  <1> QED BY <1>2, <1>3 DEF MarkAttemptFailed

\* What an attempt that took every step may publish.
LEMMA WholeWork ==
  ASSUME NEW a, NEW c, NEW s, NEW v, ChannelsSound(a, "persist", c, s, v)
  PROVE  /\ {<<o.agent, o.target>> : o \in c.opinions} = Seats
         /\ Cardinality(c.opinions) = Cardinality(Seats)
         /\ {f.target : f \in c.forecasts} = Targets
         /\ Cardinality(c.forecasts) = Cardinality(Targets)
         /\ Cardinality({o.id : o \in c.opinions} \cup {f.id : f \in c.forecasts}) = 1
         /\ c.steps = Supersteps
  <1> DEFINE A == Researchers \cup {Strategist, Critic, Cio}
  <1>1. OncePerSeat(c.opinions, A, a) /\ StepsSound(c.steps, 6)
    BY Spoken DEF ChannelsSound, StepsBehind, Strategist, Critic, Cio
  <1>2. VerdictsSound(c, a, s, v)
    BY DEF ChannelsSound, Ended
  <1>3. IsFiniteSet(A)
    <2>1. IsFiniteSet(Researchers \cup {Strategist})
      BY FiniteAgents
    <2>2. IsFiniteSet((Researchers \cup {Strategist}) \cup {Critic})
      BY <2>1, FS_AddElement
    <2>3. IsFiniteSet(((Researchers \cup {Strategist}) \cup {Critic}) \cup {Cio})
      BY <2>2, FS_AddElement
    <2>4. A = ((Researchers \cup {Strategist}) \cup {Critic}) \cup {Cio}
      OBVIOUS
    <2> QED BY <2>3, <2>4
  <1>4. /\ {<<o.agent, o.target>> : o \in c.opinions} = Seats
        /\ Cardinality(c.opinions) = Cardinality(Seats)
    BY <1>1, <1>3, SeatsCounted DEF Seats
  <1>5. {f.target : f \in c.forecasts} = Targets
    BY <1>2 DEF VerdictsSound
  <1>6. Cardinality(c.forecasts) = Cardinality(Targets)
    <2> DEFINE h == [f \in c.forecasts |-> f.target]
    <2>1. h \in [c.forecasts -> Targets]
      BY <1>2 DEF VerdictsSound
    <2>2. /\ \A f, g \in c.forecasts : h[f] = h[g] => f = g
          /\ \A t \in Targets : \E f \in c.forecasts : h[f] = t
      BY <1>2 DEF VerdictsSound
    <2>3. h \in Injection(c.forecasts, Targets) /\ h \in Surjection(c.forecasts, Targets)
      BY <2>1, <2>2 DEF Injection, Surjection, IsInjective
    <2> QED BY <2>3, CommitteeConfiguration, FS_Injection
  <1>7. {o.id : o \in c.opinions} \cup {f.id : f \in c.forecasts} = {a}
    <2>1. PICK t \in Targets : TRUE
      BY CommitteeConfiguration
    <2>2. \E o \in c.opinions : o.id = a
      BY <1>1, <2>1 DEF OncePerSeat
    <2>3. /\ \A o \in c.opinions : o.id = a
          /\ \A f \in c.forecasts : f.id = a
      BY <1>1, <1>2 DEF OncePerSeat, VerdictsSound
    <2> QED BY <2>2, <2>3
  <1>8. Cardinality({a}) = 1
    BY FS_Singleton
  <1> QED BY <1>1, <1>4, <1>5, <1>6, <1>7, <1>8, AllStepsTaken

LEMMA VerdictIsFollowed ==
  ASSUME NEW a, NEW c, NEW s, NEW v, ChannelsSound(a, "persist", c, s, v),
         NEW f \in c.forecasts, NEW o \in c.opinions,
         o.agent = Strategist, o.target = f.target
  PROVE  /\ f.direction = o.direction
         /\ f.neutral + f.up + f.down = 100 * Scale
         /\ f.neutral >= 100 * (Scale - o.up - o.down)
         /\ f.up = 85 * o.up /\ f.down = 85 * o.down
         /\ o.up \in Nat /\ o.down \in Nat
         /\ \A e \in f.evidence : /\ e \in s.items /\ Ingested[e] <= s.cutoff
                                  /\ Scope[e] = {} \/ f.target \in Scope[e]
         /\ f.edition = v
  <1>1. OncePerSeat(c.opinions, SpokenBy("persist"), a) /\ VerdictsSound(c, a, s, v)
        /\ OpinionSound(o, s)
    BY Spoken DEF ChannelsSound, Ended
  <1>2. PICK p \in c.opinions : VerdictRests(f, p)
    BY <1>1 DEF VerdictsSound
  <1>3. p = o
    BY <1>1, <1>2 DEF OncePerSeat, VerdictRests
  <1>4. o.up \in Nat /\ o.down \in Nat /\ Scale \in Nat
    BY <1>1, CommitteeConfiguration DEF OpinionSound
  <1>5. /\ f.direction = o.direction /\ f.up = 85 * o.up /\ f.down = 85 * o.down
        /\ f.neutral = 100 * Scale - f.up - f.down
    BY <1>2, <1>3 DEF VerdictRests
  <1>6. f.neutral + f.up + f.down = 100 * Scale
        /\ f.neutral >= 100 * (Scale - o.up - o.down)
    BY <1>4, <1>5
  <1> QED BY <1>1, <1>4, <1>5, <1>6 DEF VerdictsSound

LEMMA PersistResultHolds ==
  ASSUME CommitteeInv, NEW a \in Attempts, PersistResult(a) PROVE CommitteeInv'
  <1> DEFINE c == member[a].channels
  <1>1. member[a].pc = "persist" /\ IsChannels(c)
    BY MemberFacts DEF PersistResult
  <1>2. CASE Stale(a)
    BY <1>1, <1>2, DieHolds
  <1>3. CASE Fenced(a) /\ EndFailed(a, "seal")
             /\ UNCHANGED <<minutes, verdicts, edition, lease, saved>>
    BY <1>1, <1>3, EndFailedHolds
  <1>4. CASE /\ Fenced(a) /\ meeting.status = "running"
             /\ minutes' = c.opinions /\ verdicts' = c.forecasts
             /\ meeting' = [meeting EXCEPT !.status = "completed"]
             /\ member' = [member EXCEPT ![a].pc = "done"]
             /\ UNCHANGED <<edition, lease, saved>>
    <2>1. SameMeeting /\ meeting'.status = "completed"
      BY <1>4, StatusSet
    <2>2. [member[a] EXCEPT !.pc = "done"] =
            [pc |-> "done", channels |-> c, error |-> member[a].error]
      <3>1. PICK m : m = member[a]
        OBVIOUS
      <3>2. m = [pc |-> m.pc, channels |-> m.channels, error |-> m.error]
        BY <3>1, MemberFacts
      <3>3. PICK n : n = [m EXCEPT !.pc = "done"]
        OBVIOUS
      <3>4. n \in [pc : {"done"}, channels : {m.channels}, error : {m.error}]
        BY <3>2, <3>3
      <3>5. n = [pc |-> "done", channels |-> m.channels, error |-> m.error]
        BY <3>4
      <3> QED BY <3>1, <3>3, <3>5
    <2>3. member' = [member EXCEPT ![a] =
            [pc |-> "done", channels |-> c, error |-> member[a].error]]
      BY <1>4, <2>2 DEF CommitteeInv, CommitteeShape
    <2>4. ChannelsSound(a, "persist", c, meeting.snapshot, meeting.edition)
      BY <1>1 DEF CommitteeInv, WorkSound, Working, Ended
    <2>5. ChannelsSound(a, "done", c, meeting.snapshot, meeting.edition)
      BY <2>4 DEF ChannelsSound, StepsBehind, SpokenBy, Ended, Strategist, Critic, Cio
    <2>6. lease = a /\ "done" \in Working /\ member[a].error # "incomplete"
      BY <1>4, MemberFacts DEF Fenced, Working, Ended
    <2>7. CommitteeShape' /\ AttemptsFenced' /\ WorkSound' /\ NoInheritedInput'
      BY <1>1, <1>4, <2>1, <2>3, <2>5, <2>6, AttemptStep, ThreadsKept
    <2>8. PublishedWhole'
      <3>1. \A b \in Attempts : member'[b].pc = "done" =>
              member'[b].channels.steps = Supersteps
        BY <2>7, AllStepsTaken DEF WorkSound, Working, Ended, ChannelsSound, StepsBehind,
           Strategist, Critic, Cio
      <3>2. PICK X, Y : X = c.opinions /\ Y = c.forecasts
        OBVIOUS
      <3>3. /\ {<<o.agent, o.target>> : o \in X} = Seats
            /\ Cardinality(X) = Cardinality(Seats)
            /\ {f.target : f \in Y} = Targets
            /\ Cardinality(Y) = Cardinality(Targets)
            /\ Cardinality({o.id : o \in X} \cup {f.id : f \in Y}) = 1
        BY <2>4, <3>2, WholeWork
      <3>4. minutes' = X /\ verdicts' = Y
        BY <1>4, <3>2
      <3> HIDE DEF c
      <3> QED BY <2>1, <3>1, <3>3, <3>4 DEF PublishedWhole
    <2>9. VerdictFollows'
      <3> SUFFICES ASSUME NEW f \in c.forecasts, NEW o \in c.opinions,
                          o.agent = Strategist, o.target = f.target
                   PROVE  /\ f.direction = o.direction
                          /\ f.neutral + f.up + f.down = 100 * Scale
                          /\ f.neutral >= 100 * (Scale - o.up - o.down)
                          /\ \A g \in c.forecasts, p \in c.opinions :
                               p.agent = Strategist /\ p.target = g.target =>
                                 /\ o.rank < p.rank => f.up - f.down > g.up - g.down
                                 /\ f.up - f.down > g.up - g.down + 85 * RankTie =>
                                      o.rank < p.rank
                          /\ \A e \in f.evidence :
                               /\ e \in meeting.snapshot.items
                               /\ Ingested[e] <= meeting.snapshot.cutoff
                               /\ Scope[e] = {} \/ f.target \in Scope[e]
                          /\ Demo \/ f.edition <= meeting.snapshot.cutoff
        BY <1>4, <2>1 DEF VerdictFollows, SameMeeting
      <3>1. ASSUME NEW g \in c.forecasts, NEW p \in c.opinions,
                   p.agent = Strategist, p.target = g.target
            PROVE  /\ o.rank < p.rank => f.up - f.down > g.up - g.down
                   /\ f.up - f.down > g.up - g.down + 85 * RankTie => o.rank < p.rank
        <4>1. /\ o.rank < p.rank => o.up - o.down > p.up - p.down
              /\ o.up - o.down > p.up - p.down + RankTie => o.rank < p.rank
          BY <2>4, <3>1 DEF ChannelsSound, RanksFollow
        <4>2. /\ f.up = 85 * o.up /\ f.down = 85 * o.down /\ o.up \in Nat /\ o.down \in Nat
              /\ g.up = 85 * p.up /\ g.down = 85 * p.down /\ p.up \in Nat /\ p.down \in Nat
          BY <2>4, <3>1, VerdictIsFollowed
        <4>3. /\ f.up - f.down > g.up - g.down <=> o.up - o.down > p.up - p.down
              /\ f.up - f.down > g.up - g.down + 85 * RankTie <=>
                   o.up - o.down > p.up - p.down + RankTie
          BY <4>2, CommitteeConfiguration
        <4> QED BY <4>1, <4>3
      <3>2. Demo \/ meeting.edition <= meeting.snapshot.cutoff
        BY <1>4 DEF CommitteeInv, AttemptsFenced
      <3> QED BY <2>4, <3>1, <3>2, VerdictIsFollowed
    <2> QED BY <2>7, <2>8, <2>9 DEF CommitteeInv, CommitteeSound
  <1> QED BY <1>2, <1>3, <1>4 DEF PersistResult

-----------------------------------------------------------------------------
(* The committee's theorem.                                                *)

LEMMA CommitteeInitHolds == CommitteeInit => CommitteeInv
  <1> SUFFICES ASSUME CommitteeInit PROVE CommitteeInv
    OBVIOUS
  <1>1. /\ meeting.status = "none" /\ lease = 0 /\ minutes = {} /\ verdicts = {}
        /\ \A a \in Attempts : /\ member[a].pc = "idle" /\ member[a].channels = NoChannels
                               /\ member[a].error = Absent /\ saved[a] = Absent
        /\ "idle" \notin Working
    BY DEF CommitteeInit, NoMeeting, Working, Nodes, Ended, Strategist, Critic, Cio
  <1>2. CommitteeShape
    BY <1>1, NoChannelsShape, CommitteeConfiguration DEF CommitteeInit, CommitteeShape,
       NoMeeting
  <1>3. AttemptsFenced
    BY <1>1 DEF AttemptsFenced
  <1>4. WorkSound
    BY <1>1 DEF WorkSound
  <1>5. CommitteeSound
    BY <1>1, CommitteeConfiguration DEF CommitteeSound, PublishedWhole, NoInheritedInput,
       VerdictFollows
  <1> QED BY <1>2, <1>3, <1>4, <1>5 DEF CommitteeInv

LEMMA CommitteeNextHolds == CommitteeInv /\ [CommitteeNext]_committeeVars => CommitteeInv'
  <1> SUFFICES ASSUME CommitteeInv, [CommitteeNext]_committeeVars PROVE CommitteeInv'
    OBVIOUS
  <1>1. CASE UNCHANGED committeeVars
    BY <1>1, PublishHolds DEF committeeVars
  <1>2. CASE \E s \in Snapshots, r \in Runtimes : PrepareMeeting(s, r)
    BY <1>2, PrepareMeetingHolds
  <1>3. CASE \E v \in Editions : Publish(v)
    BY <1>3, PublishHolds DEF Publish
  <1>4. CASE Claim \/ Exhaust
    BY <1>4, ClaimHolds, ExhaustHolds
  <1>5. ASSUME NEW a \in Attempts, Attempt(a) PROVE CommitteeInv'
    BY <1>5, BeginHolds, FreezeSnapshotHolds, ResearchHolds, StrategizeHolds,
       CriticizeHolds, ValidateEvidenceHolds, DecideHolds, PersistResultHolds,
       MarkAttemptFailedHolds, DieHolds DEF Attempt
  <1> QED BY <1>1, <1>2, <1>3, <1>4, <1>5 DEF CommitteeNext

\* Whatever attempts fail, die and overlap, a completed run has published the
\* whole work of one attempt, on inputs that were complete, and its forecasts keep
\* the strategist's directions and order and cite the frozen input only
\* (execute_prepared and the nodes of CommitteeWorkflow).
THEOREM CommitteeIsSound == CommitteeSpec => []CommitteeSound
  <1>1. CommitteeInv => CommitteeSound
    BY DEF CommitteeInv
  <1> QED BY CommitteeInitHolds, CommitteeNextHolds, <1>1, PTL DEF CommitteeSpec
=============================================================================
