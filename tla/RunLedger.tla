----------------------------- MODULE RunLedger -----------------------------
(***************************************************************************)
(* What the persistent queue promises to whoever reads its results,        *)
(* without workers, leases, tokens or clocks: a submitted run is tried at  *)
(* most MaxAttempts times, and it ends either published, once and for all, *)
(* or abandoned with nothing published.  TaskQueue implements this module. *)
(***************************************************************************)
EXTENDS Naturals

CONSTANTS Runs,         \* the frozen runs
          MaxAttempts   \* how often one run may be tried

VARIABLES phase,        \* phase[r]: where run r stands
          tries         \* tries[r]: attempts started for run r

ledgerVars == <<phase, tries>>

LedgerInit ==
    /\ phase = [r \in Runs |-> "absent"]
    /\ tries = [r \in Runs |-> 0]

\* The frozen input of r becomes durable.
Submit(r) ==
    /\ phase[r] = "absent"
    /\ phase' = [phase EXCEPT ![r] = "open"]
    /\ UNCHANGED tries

\* One more attempt starts; only an open run is ever tried.
Try(r) ==
    /\ phase[r] = "open"
    /\ tries[r] < MaxAttempts
    /\ tries' = [tries EXCEPT ![r] = @ + 1]
    /\ UNCHANGED phase

\* The forecasts of r become visible.
Publish(r) ==
    /\ phase[r] = "open"
    /\ tries[r] > 0
    /\ phase' = [phase EXCEPT ![r] = "published"]
    /\ UNCHANGED tries

\* No further attempt will be made for r.
Abandon(r) ==
    /\ phase[r] = "open"
    /\ tries[r] > 0
    /\ phase' = [phase EXCEPT ![r] = "abandoned"]
    /\ UNCHANGED tries

LedgerNext == \E r \in Runs : Submit(r) \/ Try(r) \/ Publish(r) \/ Abandon(r)

LedgerSpec == LedgerInit /\ [][LedgerNext]_ledgerVars
=============================================================================
