---------------------------- MODULE CommitteeGraph ----------------------------
(***************************************************************************)
(* The committee graph of workflow.py: one prepared run, executed by one    *)
(* attempt after another of the task queue (or of the file handoff).  A     *)
(* graph is a sequence of supersteps over the channels of CommitteeState,   *)
(* whose "opinions" and "workflow_steps" are reduced by addition; LangGraph *)
(* checkpoints the channels of a thread after each superstep, and invoking  *)
(* a thread again adds the input to what its checkpoint holds.  An attempt  *)
(* that lost its lease goes on stepping beside its successor; the fence     *)
(* only stops it from publishing.                                           *)
(*                                                                         *)
(* Probabilities are integers in units of 1/Scale, the forecasts' in        *)
(* 1/(100 Scale).  A draft's Wiki page and section are right or wrong; an   *)
(* opinion carries the attempt that made it for its uuid.  An item's times  *)
(* are its ingestion.  Texts (summary, rationale, counter-evidence) and the *)
(* market regime and style bias told to the reader are left out.            *)
(***************************************************************************)
EXTENDS Integers, FiniteSets, Sequences

CONSTANTS
  Researchers,     \* EFFECTIVE_RESEARCH_AGENT_IDS
  Targets,         \* the instruments of the universe
  Items,           \* evidence items
  Scope,           \* Scope[e]: the targets it names, {} for all of them
  Ingested,        \* Ingested[e]: when it was ingested
  Snapshots,       \* snapshot files: [asOf, cutoff, created, items]
  Editions,        \* editions of the Wiki, with the time each was published
  Drafts,          \* what the provider may answer
  Runtimes,        \* universes and horizons a worker may be configured with
  Scale,           \* units of probability
  Tie,             \* up and down within Tie units are tied
  RankTie,         \* scores within RankTie units of a group's first share its rank
  MaxAttempts,     \* max_attempts of the queued task
  Demo,            \* use_demo_provider
  Absent           \* a value that is not there

Strategist == "strategy_agent"
Critic == "risk_critic_agent"
Cio == "cio_agent"

ASSUME CommitteeConfiguration ==
  /\ IsFiniteSet(Researchers) /\ IsFiniteSet(Targets) /\ Targets # {}
  /\ \A x \in {Strategist, Critic, Cio} : x \notin Researchers
  /\ Scope \in [Items -> SUBSET Targets]
  /\ Ingested \in [Items -> Nat]
  /\ Editions \subseteq Nat
  /\ Scale \in Nat \ {0} /\ Tie \in Nat /\ RankTie \in Nat /\ MaxAttempts \in Nat \ {0}
  /\ Demo \in BOOLEAN
  /\ Drafts \subseteq [up : Nat, down : Nat, wiki : BOOLEAN,
                      evidence : SUBSET Items, direction : {"up", "down"}]
  /\ \A d \in Drafts : d.up + d.down <= Scale
  /\ Absent # "incomplete"

Attempts == 1..MaxAttempts
Supersteps == <<"freeze_snapshot", "research", Strategist, Critic,
                "evidence_validator", Cio>>
Seats == (Researchers \cup {Strategist, Critic, Cio}) \X Targets

VARIABLES
  edition,     \* the Wiki edition published now
  meeting,     \* the workflow_runs row and the state frozen beside it
  lease,       \* the attempt that holds the task, 0 before the first
  member,      \* the worker of each attempt
  saved,       \* the checkpoint of each thread
  minutes,     \* table agent_opinions
  verdicts     \* table forecasts

committeeVars == <<edition, meeting, lease, member, saved, minutes, verdicts>>

NoChannels == [opinions |-> {}, steps |-> <<>>, forecasts |-> {}, quality |-> {}]
NoMeeting == [status |-> "none", snapshot |-> Absent, edition |-> Absent,
              runtime |-> Absent]

CommitteeInit ==
  /\ edition \in Editions
  /\ meeting = NoMeeting
  /\ lease = 0
  /\ member = [a \in Attempts |->
       [pc |-> "idle", channels |-> NoChannels, error |-> Absent]]
  /\ saved = [x \in Attempts |-> Absent]
  /\ minutes = {} /\ verdicts = {}

-----------------------------------------------------------------------------
(* Freezing the inputs.                                                    *)

\* validate_live_snapshot on the times of a snapshot and of its items.
SnapshotValid(s) ==
  /\ s.cutoff <= s.asOf /\ s.asOf <= s.created
  /\ s.items # {}
  /\ \A e \in s.items : Ingested[e] <= s.cutoff

\* WikiCatalog.freeze keeps what was published by the cutoff.
Visible(v, s) == v <= s.cutoff

\* prepare_run: the snapshot, and the Wiki as it was published by its cutoff,
\* are frozen into the initial state under one input hash.
PrepareMeeting(s, r) ==
  /\ meeting.status = "none"
  /\ Demo \/ (SnapshotValid(s) /\ Visible(edition, s))
  /\ meeting' = [status |-> "queued", snapshot |-> s, edition |-> edition,
                 runtime |-> r]
  /\ UNCHANGED <<edition, lease, member, saved, minutes, verdicts>>

\* An editor publishes another edition of the Wiki at any time.
Publish(v) ==
  /\ v \in Editions /\ v > edition
  /\ edition' = v
  /\ UNCHANGED <<meeting, lease, member, saved, minutes, verdicts>>

-----------------------------------------------------------------------------
(* Attempts, their fence and their threads.                                *)

\* One thread per run, as if an attempt resumed its predecessor's.
ThreadOfRun(a) == 1

\* Each attempt owns a checkpoint stream.
Thread(a) == a

\* The queue hands the run to a new attempt, also while an earlier one is
\* still running (its lease expired) or was killed.
Claim ==
  /\ meeting.status \in {"queued", "running"}
  /\ lease < MaxAttempts
  /\ lease' = lease + 1
  /\ member' = [member EXCEPT ![lease + 1].pc = "begin"]
  /\ UNCHANGED <<edition, meeting, saved, minutes, verdicts>>

Die(a) ==
  /\ member[a].pc \notin {"idle", "dead"}
  /\ member' = [member EXCEPT ![a] =
       [pc |-> "dead", channels |-> NoChannels, error |-> @.error]]
  /\ UNCHANGED <<edition, meeting, lease, saved, minutes, verdicts>>

Fenced(a) == lease = a

\* A stale attempt raises and writes nothing.
Stale(a) ==
  /\ ~Fenced(a)
  /\ member' = [member EXCEPT ![a] =
       [pc |-> "dead", channels |-> NoChannels, error |-> @.error]]
  /\ UNCHANGED <<edition, meeting, lease, saved, minutes, verdicts>>

\* The last attempt's lease expires: the queue fails the run.
Exhaust ==
  /\ meeting.status \in {"queued", "running"}
  /\ lease = MaxAttempts
  /\ lease' = MaxAttempts + 1
  /\ meeting' = [meeting EXCEPT !.status = "failed"]
  /\ UNCHANGED <<edition, member, saved, minutes, verdicts>>

\* A failed attempt leaves the run to the next one, or fails it.
EndFailed(a, why) ==
  /\ meeting' = [meeting EXCEPT !.status =
       IF a < MaxAttempts THEN "queued" ELSE "failed"]
  /\ member' = [member EXCEPT ![a] =
       [pc |-> "dead", channels |-> NoChannels, error |-> why]]

\* The universe and the horizons sealed with the run are the worker's.
SealsMatch(r) == meeting.runtime = r

\* LangGraph (external): the input meets the channels of the thread's last
\* checkpoint, added to the reduced ones and replacing the others.
Resume(x) ==
  IF saved[x] = Absent THEN NoChannels
  ELSE [saved[x] EXCEPT !.forecasts = {}, !.quality = {}]

\* execute_prepared up to the first superstep, by a worker of runtime r.
Begin(a, r) ==
  /\ member[a].pc = "begin"
  /\ \/ Stale(a)
     \/ /\ Fenced(a) /\ ~SealsMatch(r)
        /\ EndFailed(a, "seal")
        /\ UNCHANGED <<edition, lease, saved, minutes, verdicts>>
     \/ /\ Fenced(a) /\ SealsMatch(r)
        /\ meeting' = [meeting EXCEPT !.status = "running"]
        /\ member' = [member EXCEPT ![a] =
             [pc |-> Supersteps[1], channels |-> Resume(Thread(a)),
              error |-> Absent]]
        /\ UNCHANGED <<edition, lease, saved, minutes, verdicts>>

After(node) ==
  LET n == CHOOSE k \in 1..Len(Supersteps) : Supersteps[k] = node
  IN IF n = Len(Supersteps) THEN "persist" ELSE Supersteps[n + 1]

\* A superstep that returns: its writes reach the channels and the checkpoint.
Advanced(a, channels) ==
  LET node == member[a].pc
      next == [channels EXCEPT !.steps = Append(@, node)]
  IN /\ member' = [member EXCEPT ![a] =
          [pc |-> After(node), channels |-> next, error |-> Absent]]
     /\ saved' = [saved EXCEPT ![Thread(a)] = next]
     /\ UNCHANGED <<edition, meeting, lease, minutes, verdicts>>

\* A superstep that raises writes nothing.
Raised(a, why) ==
  /\ member' = [member EXCEPT ![a].pc = "failed", ![a].error = why]
  /\ UNCHANGED <<edition, meeting, lease, saved, minutes, verdicts>>

-----------------------------------------------------------------------------
(* The nodes.                                                              *)

\* predicted_direction raises on a tie; the tolerance does not scale.
Tied(up, down, unit) ==
  (IF up > down THEN up - down ELSE down - up) <= Tie * unit
Direction(up, down) == IF up > down THEN "up" ELSE "down"

\* The page WikiCatalog.select_for_agent gives the agent, and one of its sections.
OnPage(d) == d.wiki

\* AgentDraft accepts only the stronger of up and down as a direction, and
\* _validate_draft_wiki only the entry selected for the agent.
DirectionMatches(d) ==
  ~Tied(d.up, d.down, 1) /\ d.direction = Direction(d.up, d.down)
DraftAccepted(d) == DirectionMatches(d) /\ OnPage(d)

\* _bind_evidence_citations: frozen items that are about the target.
Bindable(d, t, s, dynamic) ==
  /\ dynamic => d.evidence # {}
  /\ d.evidence \subseteq s.items
  /\ \A e \in d.evidence : Scope[e] # {} => t \in Scope[e]

Opinion(a, agent, t, d) ==
  [id |-> a, agent |-> agent, target |-> t, up |-> d.up, down |-> d.down,
   direction |-> d.direction, evidence |-> d.evidence,
   edition |-> meeting.edition, rank |-> Absent]

OpinionsOf(c, agents, t) == {o \in c.opinions : o.agent \in agents /\ o.target = t}

\* As many opinions as agents; and one of every agent.
Counted(c, agents, t) == Cardinality(OpinionsOf(c, agents, t)) = Cardinality(agents)
CompleteFrom(c, agents, t) ==
  /\ Counted(c, agents, t)
  /\ {o.agent : o \in OpinionsOf(c, agents, t)} = agents

FreezeSnapshot(a) ==
  /\ member[a].pc = "freeze_snapshot"
  /\ Advanced(a, [member[a].channels EXCEPT
       !.quality = {"evidence", "wiki", "believability"}])

\* The research agents run in one superstep: if one raises, none has written.
Research(a, drafts) ==
  LET c == member[a].channels
      good(x) == /\ DraftAccepted(drafts[x])
                 /\ Bindable(drafts[x], x[2], meeting.snapshot, ~Demo)
  IN /\ member[a].pc = "research"
     /\ IF \A x \in Researchers \X Targets : good(x)
        THEN Advanced(a, [c EXCEPT !.opinions = @ \cup
               {Opinion(a, x[1], x[2], drafts[x]) : x \in Researchers \X Targets}])
        ELSE Raised(a, "draft")

Upstream(c, t) == UNION {o.evidence : o \in OpinionsOf(c, Researchers, t)}

ScoreOfDraft(d) == d.up - d.down

\* _annotate_strategy_context walks the scores down; one that is further than the
\* tolerance below the first of the last group begins another.
IsGroups(heads, values) ==
  \A v \in values : v \in heads <=> \A h \in heads : h > v => h - v > RankTie
GroupHeads(values) == CHOOSE heads \in SUBSET values : IsGroups(heads, values)

\* The rank of a target is the place of the first of its group.
Rank(scores, t) ==
  LET heads == GroupHeads({scores[x] : x \in DOMAIN scores})
  IN 1 + Cardinality({x \in DOMAIN scores :
                        \E h \in heads : scores[t] <= h /\ h < scores[x]})

\* Every target has its research, and that of its peers, before the first
\* draft; the strategist cites only what its research cited.
Strategize(a, drafts) ==
  LET c == member[a].channels
      good(t) == /\ DraftAccepted(drafts[t])
                 /\ drafts[t].evidence \subseteq Upstream(c, t)
                 /\ Bindable(drafts[t], t, meeting.snapshot, ~Demo)
      scores == [t \in Targets |-> ScoreOfDraft(drafts[t])]
  IN /\ member[a].pc = Strategist
     /\ \/ /\ \E t \in Targets : ~CompleteFrom(c, Researchers, t)
           /\ Raised(a, "incomplete")
        \/ /\ \A t \in Targets : CompleteFrom(c, Researchers, t)
           /\ IF \A t \in Targets : good(t)
              THEN Advanced(a, [c EXCEPT !.opinions = @ \cup
                     {[Opinion(a, Strategist, t, drafts[t]) EXCEPT
                         !.rank = Rank(scores, t)] : t \in Targets}])
              ELSE Raised(a, "draft")

\* The critic challenges what is there and adds no evidence.
Criticize(a, drafts) ==
  LET c == member[a].channels
      all(t) == Counted(c, Researchers \cup {Strategist}, t)
  IN /\ member[a].pc = Critic
     /\ \/ (\E t \in Targets : ~all(t)) /\ Raised(a, "incomplete")
        \/ /\ \A t \in Targets : all(t)
           /\ IF \A t \in Targets : DraftAccepted(drafts[t]) /\ drafts[t].evidence = {}
              THEN Advanced(a, [c EXCEPT !.opinions = @ \cup
                     {Opinion(a, Critic, t, drafts[t]) : t \in Targets}])
              ELSE Raised(a, "draft")

\* citation_is_valid and _citation_matches_evidence on an opinion's citations.
CitationsValid(o) ==
  /\ o.edition = meeting.edition
  /\ o.evidence \subseteq meeting.snapshot.items

\* Every citation is of the frozen Wiki and the frozen items, none of them
\* newer than the cutoff, and a live opinion has some.
ValidateEvidence(a) ==
  LET c == member[a].channels
      valid(o) ==
        /\ CitationsValid(o)
        /\ \A e \in o.evidence : Ingested[e] <= meeting.snapshot.cutoff
        /\ o.agent # Critic => Demo \/ o.evidence # {}
  IN /\ member[a].pc = "evidence_validator"
     /\ IF \A o \in c.opinions : valid(o)
        THEN Advanced(a, [c EXCEPT !.quality = @ \cup {"citations"}])
        ELSE Raised(a, "citation")

\* _apply_symmetric_haircut with DIRECTIONAL_MASS_HAIRCUT = 15 %.
Haircut(up, down) == [up |-> 85 * up, down |-> 85 * down]

\* The chief investment officer: the strategist's direction with 15 % of both
\* sides moved to the small-move bucket.
Decide(a) ==
  LET c == member[a].channels
      cut(o) == Haircut(o.up, o.down)
      strategy(t) == CHOOSE o \in c.opinions : o.agent = Strategist /\ o.target = t
      cited(t) == UNION {o.evidence :
                           o \in OpinionsOf(c, Researchers \cup {Strategist}, t)}
      verdict(t) ==
        LET p == cut(strategy(t))
        IN [target |-> t, id |-> a, up |-> p.up, down |-> p.down,
            neutral |-> 100 * Scale - p.up - p.down,
            direction |-> Direction(p.up, p.down), evidence |-> cited(t),
            edition |-> meeting.edition]
      opinion(t) ==
        [id |-> a, agent |-> Cio, target |-> t, up |-> cut(strategy(t)).up,
         down |-> cut(strategy(t)).down,
         direction |-> verdict(t).direction, evidence |-> cited(t),
         edition |-> meeting.edition, rank |-> Absent]
      all(t) == /\ Counted(c, Researchers, t)
                /\ \A x \in {Strategist, Critic} : OpinionsOf(c, {x}, t) # {}
  IN /\ member[a].pc = Cio
     /\ \/ (\E t \in Targets : ~all(t)) /\ Raised(a, "incomplete")
        \/ /\ \A t \in Targets : all(t)
           /\ IF \E t \in Targets :
                   Tied(cut(strategy(t)).up, cut(strategy(t)).down, 100)
              THEN Raised(a, "tie")
              ELSE Advanced(a, [c EXCEPT
                     !.opinions = @ \cup {opinion(t) : t \in Targets},
                     !.forecasts = {verdict(t) : t \in Targets}])

-----------------------------------------------------------------------------
(* The end of an attempt.                                                  *)

\* The result carries the believability seal of the frozen state, as shadow.
BoundaryHolds(c) == "believability" \in c.quality

\* One transaction under the fence: the opinions and the forecasts, whose
\* directions are checked again, and the completed run.
PersistResult(a) ==
  LET c == member[a].channels
  IN /\ member[a].pc = "persist"
     /\ \/ Stale(a)
        \/ /\ Fenced(a) /\ meeting.status = "running"
           /\ IF /\ BoundaryHolds(c)
                 /\ \A o \in c.opinions : o.direction = Direction(o.up, o.down)
              THEN /\ minutes' = c.opinions /\ verdicts' = c.forecasts
                   /\ meeting' = [meeting EXCEPT !.status = "completed"]
                   /\ member' = [member EXCEPT ![a].pc = "done"]
              ELSE /\ EndFailed(a, "seal")
                   /\ UNCHANGED <<minutes, verdicts>>
           /\ UNCHANGED <<edition, lease, saved>>

MarkAttemptFailed(a) ==
  /\ member[a].pc = "failed"
  /\ \/ Stale(a)
     \/ /\ Fenced(a) /\ meeting.status = "running"
        /\ EndFailed(a, member[a].error)
        /\ UNCHANGED <<edition, lease, saved, minutes, verdicts>>

Attempt(a) ==
  \/ \E r \in Runtimes : Begin(a, r)
  \/ FreezeSnapshot(a)
  \/ \E drafts \in [Researchers \X Targets -> Drafts] : Research(a, drafts)
  \/ \E drafts \in [Targets -> Drafts] : Strategize(a, drafts) \/ Criticize(a, drafts)
  \/ ValidateEvidence(a) \/ Decide(a) \/ PersistResult(a)
  \/ MarkAttemptFailed(a) \/ Die(a)

CommitteeNext ==
  \/ \E s \in Snapshots, r \in Runtimes : PrepareMeeting(s, r)
  \/ \E v \in Editions : Publish(v)
  \/ Claim \/ Exhaust
  \/ \E a \in Attempts : Attempt(a)

CommitteeSpec == CommitteeInit /\ [][CommitteeNext]_committeeVars

-----------------------------------------------------------------------------
(* Properties.                                                             *)

\* What a run publishes is one attempt's whole work: every seat of every
\* target once, each superstep once, nothing of an attempt that failed, died or
\* lost its lease, and nothing at all before the run is completed (the
\* reducers of CommitteeState add, so a shared checkpoint would repeat them).
PublishedWhole ==
  IF meeting.status = "completed"
  THEN /\ {<<o.agent, o.target>> : o \in minutes} = Seats
       /\ Cardinality(minutes) = Cardinality(Seats)
       /\ {f.target : f \in verdicts} = Targets
       /\ Cardinality(verdicts) = Cardinality(Targets)
       /\ Cardinality({o.id : o \in minutes} \cup {f.id : f \in verdicts}) = 1
       /\ \A a \in Attempts :
            member[a].pc = "done" => member[a].channels.steps = Supersteps
  ELSE minutes = {} /\ verdicts = {}

\* No attempt fails on what an earlier one left behind: the inputs a node
\* counts are complete whenever it runs (execute_prepared's thread ids).
NoInheritedInput == \A a \in Attempts : member[a].error # "incomplete"

\* The forecast keeps the strategist's direction and at least its small-move mass.
\* A better rank is a stronger forecast, and a forecast that is stronger by more
\* than the ranks' tolerance, after the haircut, has the better rank.  It cites only
\* frozen items about its target that were ingested by the cutoff, from the Wiki of
\* that time, however the Wiki changed meanwhile.
VerdictFollows ==
  \A f \in verdicts, o \in minutes :
    o.agent = Strategist /\ o.target = f.target =>
      /\ f.direction = o.direction
      /\ f.neutral + f.up + f.down = 100 * Scale
      /\ f.neutral >= 100 * (Scale - o.up - o.down)
      /\ \A g \in verdicts, p \in minutes :
           p.agent = Strategist /\ p.target = g.target =>
             /\ o.rank < p.rank => f.up - f.down > g.up - g.down
             /\ f.up - f.down > g.up - g.down + 85 * RankTie => o.rank < p.rank
      /\ \A e \in f.evidence :
           /\ e \in meeting.snapshot.items
           /\ Ingested[e] <= meeting.snapshot.cutoff
           /\ Scope[e] = {} \/ f.target \in Scope[e]
      /\ Demo \/ f.edition <= meeting.snapshot.cutoff

CommitteeSound == PublishedWhole /\ NoInheritedInput /\ VerdictFollows
===============================================================================
