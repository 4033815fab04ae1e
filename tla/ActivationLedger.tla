-------------------------- MODULE ActivationLedger --------------------------
(***************************************************************************)
(* The append-only activation events of the v2 D1 target                   *)
(* (research_activation_events_v2), written by activate_d1_v2 and read by  *)
(* v2 finalization (the lane of a forecast) and by the admission of v1     *)
(* runs (backend/app/services/v1_run_admission.py).                        *)
(***************************************************************************)
EXTENDS Naturals, Sequences, FiniteSets

VARIABLE activations   \* research_activation_events_v2, in the order of commit

\* A row: what it declares and the runs whose D1 forecasts it cites.
ActivationEvents(Runs) == [type : {"activated", "retired"}, evidence : SUBSET Runs]

\* The latest event decides; a retired event withdraws the activation.
Activated == activations # <<>> /\ activations[Len(activations)].type = "activated"

\* _effective_lane: only a live D1 forecast of an activated programme is formal.
EffectiveLane(mode, configured) ==
    IF mode = "live" /\ configured = "formal" /\ Activated THEN "formal" ELSE "shadow"

\* assert_v1_run_creation_allowed.
V1RunCreationAllowed == ~Activated
=============================================================================
