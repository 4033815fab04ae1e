-------------------------- MODULE MCOutcomeScoring --------------------------
(***************************************************************************)
(* OutcomeScoring with two requests and two operators: f1 and f2 are live   *)
(* forecasts of two runs for the same target session, fd is one of a demo   *)
(* run.  In some behaviours requests overlap (on a live and a demo run,     *)
(* with one killed; two of them also beside commands that agree on one      *)
(* close), in others commands (on the two live runs, judged on one).  The   *)
(* rest convene the committee whose forecasts are scored: in one attempt    *)
(* with every combination of drafts, or in three attempts that fail, die    *)
(* and overlap on the same drafts.                                          *)
(***************************************************************************)
EXTENDS OutcomeScoring, CommitteeGraph, TLC

CONSTANTS f1, f2, fd, r1, r2, rd, i1, q1, q2, b1, b2,
  CommandJudgments,  \* bound on judgments where commands overlap
  Crowds,            \* what the run explores
  macro, news, t1, t2, e1, e2, e3

VARIABLE crowd       \* "requests" or "commands" overlap; "drafts" or
                     \* "retries" of a committee

RunsOfForecasts == (f1 :> r1) @@ (f2 :> r2) @@ (fd :> rd)
IndexOfForecasts == (f1 :> i1) @@ (f2 :> i1) @@ (fd :> i1)
Directions == (q1 :> TRUE) @@ (q2 :> FALSE)
Closes == (b1 :> (i1 :> 1)) @@ (b2 :> (i1 :> 0))

Scopes == (e1 :> {}) @@ (e2 :> {t1}) @@ (e3 :> {})
IngestTimes == (e1 :> 3) @@ (e2 :> 5) @@ (e3 :> 6)
SnapshotFiles ==
  {[asOf |-> 5, cutoff |-> 5, created |-> 6, items |-> i] : i \in {{e1, e2}, {e1, e3}}}
Draft(u, d, w, e) == [up |-> u, down |-> d, wiki |-> w, evidence |-> e,
                      direction |-> IF u > d THEN "up" ELSE "down"]
Plain == Draft(470, 430, TRUE, {e1})
Silent == Draft(300, 550, TRUE, {})
\* Also: another item, nearly tied, tied, and off the agent's Wiki page.
DraftKinds ==
  {Plain, Silent, Draft(200, 500, TRUE, {e2}), Draft(470, 463, TRUE, {e1}),
   Draft(400, 400, TRUE, {e1}), Draft(600, 200, FALSE, {e1})}

\* Which request or command a process serves does not matter.
Processes == Permutations(Writers) \cup Permutations(Operators)

RequestTurn(w) ==
  crowd = "commands" => /\ \A u \in Writers \ {w} : writer[u].pc = "idle"
                        /\ crashes' = 0 /\ drawn' <= CommandJudgments
                        /\ writer'[w].pc # "idle" => writer'[w].forecast = f1
CommandTurn(o) ==
  crowd = "requests" => /\ drawn < MaxJudgments
                        /\ \A u \in Operators \ {o} : oper[u].pc = "idle"
                        /\ \A f \in DOMAIN oper'[o].obs : oper'[o].obs[f] # 0
                        /\ \A b \in batches' : b.status = "completed"

MCInit == Init /\ CommitteeInit /\ crowd \in Crowds

Scoring ==
  /\ crowd \in {"requests", "commands"}
  /\ \/ Advance
     \/ \E r \in {r1, IF crowd = "requests" THEN rd ELSE r2} : CompleteRun(r)
     \/ \E w \in Writers : Seal(w) /\ RequestTurn(w)
     \/ \E o \in Operators : Operate(o) /\ CommandTurn(o)

\* In a retry all members answer alike, and the critic as it must or not at all.
Answers(seats) ==
  IF crowd = "retries" THEN {[x \in seats |-> d] : d \in {Plain, Silent}}
  ELSE [seats -> Drafts]

Convening ==
  /\ crowd \in {"drafts", "retries"}
  /\ \/ \E s \in Snapshots, r \in Runtimes : PrepareMeeting(s, r)
     \/ crowd = "retries" /\ \E v \in Editions : Publish(v)
     \/ (crowd = "drafts" => lease = 0) /\ Claim
     \/ Exhaust
     \/ \E a \in Attempts :
          \/ \E r \in Runtimes : Begin(a, r)
          \/ FreezeSnapshot(a) \/ ValidateEvidence(a) \/ Decide(a)
          \/ PersistResult(a) \/ MarkAttemptFailed(a) \/ Die(a)
          \/ \E drafts \in Answers(Researchers \X Targets) : Research(a, drafts)
          \/ \E drafts \in Answers(Targets) :
               Strategize(a, drafts) \/ Criticize(a, drafts)

MCNext ==
  \/ Scoring /\ UNCHANGED <<committeeVars, crowd>>
  \/ Convening /\ UNCHANGED <<vars, crowd>>

MCSpec == MCInit /\ [][MCNext]_<<vars, committeeVars, crowd>>
=============================================================================
