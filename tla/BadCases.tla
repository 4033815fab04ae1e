------------------------------ MODULE BadCases ------------------------------
(***************************************************************************)
(* The governance of bad cases (backend/app/services/agent_evaluation.py): *)
(* one row per deduplicated failure, a chain of numbered events, and a     *)
(* dataset file for a materialized case.  A transition loads the row, then *)
(* its events, may write the file, and commits row and event together.     *)
(***************************************************************************)
EXTENDS Naturals, Sequences, FiniteSets

CONSTANTS Cases,       \* dedupe_hash of a failure
          Reviewers    \* commands that may overlap

VARIABLES
    cases,   \* cases[c]: agent_bad_cases with its agent_bad_case_events
    files,   \* cases with a dataset artifact
    tr       \* tr[r]: the transition of reviewer r

caseVars == <<cases, files, tr>>

CaseStatus == {"none", "detected", "triaged", "confirmed", "materialized", "resolved", "rejected"}
\* An event: from_status, to_status, and the number of the event whose hash is its
\* previous_event_hash.
Event == [from : CaseStatus, to : CaseStatus, prev : Nat]
Case == [status : CaseStatus, events : Seq(Event)]
TransitionStep == {"idle", "events", "check", "write", "commit"}
Transition == [step : TransitionStep, case : Cases \cup {"none"}, from : CaseStatus,
               to : CaseStatus, seen : Nat, wrote : BOOLEAN]
NoTransition == [step |-> "idle", case |-> "none", from |-> "none", to |-> "none",
                 seen |-> 0, wrote |-> FALSE]
Detected == [from |-> "none", to |-> "detected", prev |-> 0]

CasesTypeOK ==
    /\ cases \in [Cases -> Case]
    /\ files \subseteq Cases
    /\ tr \in [Reviewers -> Transition]

CasesInit ==
    /\ cases = [c \in Cases |-> [status |-> "none", events |-> <<>>]]
    /\ files = {}
    /\ tr = [r \in Reviewers |-> NoTransition]

\* create_bad_case: once per dedupe_hash, with its first event.
CreateBadCase(c) ==
    /\ cases[c].status = "none"
    /\ cases' = [cases EXCEPT ![c] = [status |-> "detected", events |-> <<Detected>>]]
    /\ UNCHANGED <<files, tr>>

\* _validate_transition.
Allowed(from, to) ==
    CASE from = "detected" -> to \in {"triaged", "rejected"}
      [] from = "triaged" -> to \in {"confirmed", "rejected"}
      [] from = "confirmed" -> to \in {"materialized", "rejected"}
      [] from = "materialized" -> to = "resolved"
      [] OTHER -> FALSE

\* transition_bad_case up to its writes: the SELECT of the row, then selectinload's SELECT
\* of its events; a transition the row's status does not allow is refused.
LoadRow(r, c, to) ==
    /\ tr[r].step = "idle" /\ cases[c].status # "none"
    /\ tr' = [tr EXCEPT ![r] = [NoTransition EXCEPT !.step = "events", !.case = c,
                                                    !.from = cases[c].status, !.to = to]]
    /\ UNCHANGED <<cases, files>>

LoadEvents(r) ==
    /\ tr[r].step = "events"
    /\ tr' = IF Allowed(tr[r].from, tr[r].to)
             THEN [tr EXCEPT ![r].step = IF tr[r].to = "materialized" THEN "check" ELSE "commit",
                             ![r].seen = Len(cases[tr[r].case].events)]
             ELSE [tr EXCEPT ![r] = NoTransition]
    /\ UNCHANGED <<cases, files>>

\* _materialize_bad_case refuses an artifact that exists, and replaces it otherwise.
CheckArtifact(r) ==
    /\ tr[r].step = "check"
    /\ tr' = IF tr[r].case \in files THEN [tr EXCEPT ![r] = NoTransition]
             ELSE [tr EXCEPT ![r].step = "write"]
    /\ UNCHANGED <<cases, files>>

WriteArtifact(r) ==
    /\ tr[r].step = "write"
    /\ files' = files \cup {tr[r].case}
    /\ tr' = [tr EXCEPT ![r].step = "commit", ![r].wrote = TRUE]
    /\ UNCHANGED cases

SequenceAlways(r) == TRUE

\* uq_bad_case_event_seq: the event's number is not taken.
SequenceFree(r) == tr[r].seen = Len(cases[tr[r].case].events)

\* _append_bad_case_event and the commit; a refused commit removes the file it wrote.
CommitTransition(r) ==
    LET c == tr[r].case IN
    /\ tr[r].step = "commit"
    /\ IF SequenceFree(r)
       THEN /\ cases' = [cases EXCEPT ![c].status = tr[r].to,
                                      ![c].events = Append(@, [from |-> tr[r].from, to |-> tr[r].to,
                                                             prev |-> tr[r].seen])]
            /\ UNCHANGED files
       ELSE /\ files' = IF tr[r].wrote THEN files \ {c} ELSE files
            /\ UNCHANGED cases
    /\ tr' = [tr EXCEPT ![r] = NoTransition]

\* The process dies between the file and the commit.
DropTransition(r) ==
    /\ tr[r].step # "idle"
    /\ tr' = [tr EXCEPT ![r] = NoTransition]
    /\ UNCHANGED <<cases, files>>

CaseStep ==
    \/ \E c \in Cases : CreateBadCase(c)
    \/ \E r \in Reviewers :
        \/ \E c \in Cases, to \in CaseStatus : LoadRow(r, c, to)
        \/ LoadEvents(r) \/ CheckArtifact(r) \/ WriteArtifact(r) \/ CommitTransition(r) \/ DropTransition(r)

CasesSpec == CasesInit /\ [][CaseStep]_caseVars

\* No transition begins while another is under way.
ReviewersTakeTurns ==
    \A r, s \in Reviewers : tr[r].step # "idle" /\ tr[s].step # "idle" => r = s

CasesInTurnSpec == CasesInit /\ [][CaseStep /\ ReviewersTakeTurns']_caseVars

-----------------------------------------------------------------------------
(* What is promised.                                                       *)

Chained(e) ==
    \A n \in 2..Len(e) : /\ e[n].prev = n - 1 /\ Allowed(e[n].from, e[n].to)
                         /\ \E k \in 1..(n - 1) : e[k].to = e[n].from

\* The row's status is where its last event goes, and every event names the one before it
\* as its predecessor and is an allowed transition from a status the case has had:
\* reviewers who overlap never fork or cut the chain of hashes (transition_bad_case,
\* _append_bad_case_event, uq_bad_case_event_seq).
CaseFollowsEvents ==
    \A c \in Cases :
        LET e == cases[c].events IN
        cases[c].status = (IF e = <<>> THEN "none" ELSE e[Len(e)].to) /\ Chained(e)

Connected(e) == \A n \in 2..Len(e) : e[n].from = e[n - 1].to

\* Every event begins where the one before it ended.  A command that loads a row before
\* and its events after another's commit breaks this; reviewers in turn do not
\* (transition_bad_case).
EventsConnect == \A c \in Cases : Connected(cases[c].events)

\* A case that went through materialization has its dataset artifact
\* (_materialize_bad_case and the clean-up of transition_bad_case).
ArtifactKept ==
    \A c \in Cases : cases[c].status \in {"materialized", "resolved"} => c \in files
=============================================================================
