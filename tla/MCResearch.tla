----------------------------- MODULE MCResearch -----------------------------
(***************************************************************************)
(* The v2 research programme and the admission of v1 runs, in four         *)
(* regimes: "seal", two commands overlap and may be killed on runs of one  *)
(* anchor date; "cadence", commands take turns over several sessions, with *)
(* shadow signals and reviews; "ledger", the same with reflections and     *)
(* activation; "submit", v1 requests overlap each other and an activation, *)
(* which stands for the whole programme.                                   *)
(***************************************************************************)
EXTENDS ResearchLedger, RunSubmission, TLC

CONSTANTS SealInputs, LedgerInputs, CadenceInputs,
          MaxKills,      \* bound: crashes
          MaxEvents,     \* bound: activation events
          MaxRounds      \* bound: drafts written

ASSUME RegimeInputs ==
    SealInputs \cup LedgerInputs \cup CadenceInputs \subseteq Inputs /\ "good1" \in Drafts

VARIABLES regime, kills, rounds

mcVars == <<regime, kills, rounds>>
allVars == <<runVars, ledgerVars, activations, subVars, mcVars>>

MCAnchor == [i \in Inputs |-> CASE i \in {"c1", "a1", "m1"} -> 1
                                [] i \in {"c2", "u2"} -> 2
                                [] OTHER -> 3]
MCMode == [i \in Inputs |-> IF i = "m1" THEN "demo" ELSE "live"]
MCHorizon == [t \in {"d1", "w1", "macro"} |-> CASE t = "d1" -> 1 [] t = "w1" -> 2 [] OTHER -> 3]

\* Requests are interchangeable, and so are operators, keys and as_ofs.
MCSymmetry == Permutations(Requests) \cup Permutations(Operators)
              \cup Permutations(Keys) \cup Permutations(AsOfs)

MCInit ==
    /\ RunInit /\ LedgerInit /\ SubmissionInit
    /\ regime \in {"seal", "cadence", "ledger", "submit"} /\ kills = 0 /\ rounds = 0

InTurn == regime \in {"ledger", "cadence"}
MyInputs == CASE regime = "seal" -> SealInputs
              [] regime = "ledger" -> {i \in LedgerInputs : Anchor[i] = LastDay => Activated}
              [] regime = "cadence" -> CadenceInputs
              [] OTHER -> {}
MyDrafts == IF InTurn THEN {"good1"} ELSE Drafts
Turn(o) == InTurn => \A q \in Operators \ {o} : op[q].step = "idle"
Quiet == \A o \in Operators : op[o].step = "idle"

\* Bounds on what follows a run: D1 is scored; one run has shadows and reviews.
FewFollowUps ==
    /\ Len(activations') <= MaxEvents /\ Cardinality(judged') <= 1
    /\ \A e \in observed' : e.track = "d1"
    /\ \A x \in reviewed' : x[1] = "c1" /\ regime = "cadence"
    /\ reflected' # {} => regime = "ledger"

\* Steps of research commands.
ResearchStep ==
    /\ UNCHANGED <<ledgerVars, activations, subVars, regime>>
    /\ \/ /\ \E o \in Operators :
              /\ Turn(o)
              /\ \/ \E i \in MyInputs : PrepareScan(o, i) \/ FinalizeRead(o, i)
                 \/ PrepareAssign(o) \/ PrepareInsert(o) \/ PrepareWrite(o) \/ PrepareSeal(o)
                 \/ FinalizeOpen(o) \/ FinalizeCommit(o) \/ FinalizeReceipt(o)
                 \/ Recover(o) \/ PrepareReasoning(o)
                 \/ RejectOpen(o) \/ RejectCommit(o) \/ RejectReceipt(o)
          /\ UNCHANGED <<kills, rounds>>
       \/ \E o \in Operators : regime = "seal" /\ kills < MaxKills /\ Kill(o) /\ kills' = kills + 1 /\ UNCHANGED rounds
       \/ \E i \in MyInputs, d \in MyDrafts :
            /\ IF regime = "seal" THEN rounds < MaxRounds ELSE Quiet
            /\ WriteDrafts(i, d)
            /\ rounds' = (IF regime = "seal" THEN rounds + 1 ELSE 0) /\ UNCHANGED kills
       \/ /\ day < (IF regime = "seal" THEN 2 ELSE LastDay)
          /\ regime # "submit" /\ NextDay /\ UNCHANGED <<kills, rounds>>
       \/ \E i \in MyInputs \cap {"c1"}, a \in ShadowAgents, onDisk \in BOOLEAN :
            regime = "cadence" /\ Quiet /\ AdmitShadow(i, a, onDisk) /\ UNCHANGED <<kills, rounds>>

FollowUp ==
    /\ InTurn /\ Quiet
    /\ LedgerStep
    /\ FewFollowUps
    /\ UNCHANGED <<subVars, mcVars>>

\* The programme as v1 admission sees it.
ActivationEvent ==
    /\ regime = "submit" /\ Len(activations) < MaxEvents
    /\ activations' = Append(activations,
            [type |-> IF Activated THEN "retired" ELSE "activated", evidence |-> {}])
    /\ UNCHANGED <<runVars, ledgerVars, subVars, mcVars>>

Submission ==
    /\ regime = "submit" /\ SubmissionStep
    /\ UNCHANGED <<runVars, ledgerVars, mcVars>>

MCNext == ResearchStep \/ FollowUp \/ ActivationEvent \/ Submission

MCSpec == MCInit /\ [][MCNext]_allVars

TypeOK == RunTypeOK /\ LedgerTypeOK /\ SubmissionTypeOK

\* If commands take turns, no two windows of a track overlap and a formal forecast
\* is earned by the evidence activation asks for (prepare_research_run, activate_d1_v2).
SoundInTurn == InTurn => NoOverlap /\ FormalIsEarned
=============================================================================
