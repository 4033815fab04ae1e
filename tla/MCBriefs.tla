------------------------------ MODULE MCBriefs ------------------------------
(***************************************************************************)
(* Pre-market forecasts, the owner's messages and recovery bundles, in      *)
(* regimes of their own: "files", two commands overlap on one job while its *)
(* drafts are rewritten and one is killed; "history", commands take turns   *)
(* over two sessions, with briefs;   "delivery", publications of two jobs   *)
(* of one session and of a target date overlap, fail or are killed;         *)
(* "recovery", a backup and a restore run while the system writes or not;   *)
(* "drafting", two commands ask for the drafts of one handoff.              *)
(***************************************************************************)
EXTENDS Premarket, OwnerDelivery, Recovery, DraftGeneration, TLC

CONSTANTS
  MaxRounds,   \* bound: drafts written
  MaxKills     \* bound: processes killed

\* The jobs of the regimes; a session of the history has one job, and a slot.
ASSUME RegimeJobs ==
  /\ {"a", "d"} \subseteq Jobs /\ Session["a"] # Session["d"]
  /\ {Session["a"], Session["d"]} \subseteq Slots /\ Posters # {}

VARIABLES regime, rounds, kills

mcVars == <<regime, rounds, kills>>
allVars == <<jobVars, deliveryVars, recoveryVars, generationVars, mcVars>>

MCSession == [j \in Jobs |-> IF j = "a" THEN 1 ELSE 3]

\* A clear rise, the same after a high discount for gaps, a tie, a fall, and one of
\* each flaw a bundle can have.
MCContent ==
  LET say(u, n, d, s, g, f) == [up |-> u, neutral |-> n, down |-> d, severity |-> s, gaps |-> g, flaw |-> f] IN
  [t \in Texts |->
     CASE t = "rise" -> say(50, 30, 20, "low", FALSE, "none")
       [] t = "fall" -> say(20, 38, 42, "high", TRUE, "none")
       [] t = "tie" -> say(40, 40, 20, "none", FALSE, "none")
       [] t = "wiki" -> say(50, 30, 20, "medium", FALSE, "wiki")
       [] OTHER -> say(50, 30, 20, "medium", FALSE, "generator")]

\* Every stream of one event, and what may follow one or two that are read past.
MCStreams ==
  LET events == {Event("created", 1, "other"), Event("created", 2, "other"),
                 Event("completed", 1, "other"), Event("failed", 1, "quota_exhausted"),
                 Event("error", 0, "other"), Event("incomplete", 1, "quota_exhausted"),
                 Event("completed", 2, "bad_output"), Event("lost", 0, "other")}
      opening == <<Event("created", 2, "other"), Event("delta", 2, "other")>>
      status == {<<Event("status", 0, c)>> : c \in {"service_unavailable", "other"}}
  IN status \cup [1..1 -> events] \cup {Append(opening, e) : e \in events}
     \cup {<<Event("created", 1, "other"), e>> : e \in events}
     \cup {Append(<<Event("created", i, "other"), Event("created", 3 - i, "other")>>,
                  Event("completed", 1, "other")) : i \in 1..2}

MCSymmetry == Permutations(Operators) \cup Permutations(Posters) \cup Permutations(Pages \ RowFirst)
              \cup Permutations(Drafters)

MCInit ==
  /\ PremarketInit /\ DeliveryInit /\ RecoveryInit /\ GenerationInit
  /\ regime \in {"files", "history", "delivery", "recovery", "drafting"} /\ rounds = 0 /\ kills = 0

MyJobs == CASE regime = "files" -> {"a"} [] regime = "history" -> {"a", "d"} [] OTHER -> {}
Turn(o) == regime = "history" => \A q \in Operators \ {o} : At(q, "idle")
MyPosters == IF regime = "history" THEN {CHOOSE p \in Posters : TRUE} ELSE Posters

\* Outcome files for the forecast, collected a moment too early or in time.
OutcomeFiles(j) ==
  IF job[j].forecast = Absent \/ now < Maturity(j) THEN {}
  ELSE [forecast : {job[j].forecast}, observed : {Maturity(j) - 1, now},
        move : IF regime = "history" THEN {Threshold + 1} ELSE Moves]

JobStep ==
  /\ regime \in {"files", "history"} /\ UNCHANGED <<deliveryVars, recoveryVars, generationVars, regime>>
  /\ \/ /\ \E o \in Operators :
             /\ Turn(o)
             /\ \/ \E j \in MyJobs : PrepareMkdir(o, j) \/ FinalizeRead(o, j)
                \/ \E j \in MyJobs : \E x \in OutcomeFiles(j) : EvaluateStart(o, j, x)
                \/ CommandStep(o)
        /\ UNCHANGED <<rounds, kills>>
     \/ /\ \E j \in MyJobs, t \in Texts :
             /\ regime = "history" => job[j].drafts = Absent /\ t # "wiki" /\ (j = "d" => t = "rise")
             /\ regime = "files" => t \in {"rise", "fall", "wiki"}
             /\ WriteDrafts(j, t)
        /\ rounds < (IF regime = "files" THEN MaxRounds ELSE Cardinality(MyJobs)) /\ rounds' = rounds + 1 /\ UNCHANGED kills
     \/ \E o \in Operators : kills < MaxKills /\ KillCommand(o) /\ kills' = kills + 1 /\ UNCHANGED rounds
     \/ now < (IF regime = "files" THEN Maturity("a") + 1 ELSE LastTime) /\ Tick /\ UNCHANGED <<rounds, kills>>

\* The brief of a job, published in its session's slot.
BriefStep ==
  /\ regime = "history" /\ UNCHANGED <<jobVars, recoveryVars, generationVars, mcVars>>
  /\ \/ \E p \in MyPosters, j \in MyJobs : BriefReady(j) /\ PublishBrief(p, Session[j], Brief(j))
     \/ \E p \in MyPosters : Send(p) \/ WriteMarker(p)

\* Briefs of two jobs of one session, and of two forecasts of one target date.
DeliveryStep ==
  /\ regime = "delivery" /\ UNCHANGED <<jobVars, recoveryVars, generationVars, regime, rounds>>
  /\ \/ \E p \in Posters : (Send(p) \/ WriteMarker(p) \/ SendFails(p, FALSE)) /\ UNCHANGED kills
     \/ \E p \in Posters, s \in Slots, b \in {"one", "two"} : PublishBrief(p, s, b) /\ UNCHANGED kills
     \/ \E p \in Posters :
          /\ KillPoster(p) \/ SendFails(p, TRUE)
          /\ kills < MaxKills /\ kills' = kills + 1

BundleStep ==
  /\ regime = "recovery" /\ RecoveryStep
  /\ UNCHANGED <<jobVars, deliveryVars, generationVars, mcVars>>

DraftingStep ==
  /\ regime = "drafting" /\ GenerationStep
  /\ UNCHANGED <<jobVars, deliveryVars, recoveryVars, mcVars>>

MCNext == JobStep \/ BriefStep \/ DeliveryStep \/ BundleStep \/ DraftingStep

MCSpec == MCInit /\ [][MCNext]_allVars

TypeOK == PremarketTypeOK /\ RecoveryTypeOK /\ GenerationTypeOK

\* The files of a job are one chain, and what finalize answers stands on it.
ForecastsStand == ChainHolds /\ AnswersStand

\* The owner has what the markers say; and where a session has one job and its
\* drafts are written once, no kill ever leaves a history that cannot be read
\* (publish_premarket_brief, load_premarket_history).
BriefsHold == MarkedIsDelivered /\ (regime = "history" => HistoryReadable(LastTime))
=============================================================================
