-------------------------- MODULE ReflectionHandoff --------------------------
(***************************************************************************)
(* The file handoff of a Daily Reflection (services/reflection_handoff.py   *)
(* and the row rules of services/reflection.py), for one source run,        *)
(* horizon and evaluation set: `prepare` inserts a reflection_runs row and  *)
(* makes a package directory for it, a draft writer proposes sources,       *)
(* `freeze-sources` seals sources.json, the draft writer analyses, and      *)
(* `finalize` stores the findings and receipt.json.  A correction is a new  *)
(* row with a newer schema version that supersedes a completed one.         *)
(*                                                                          *)
(* The commands are local processes without a lock of their own: a step is  *)
(* one file operation or one database transaction.  A file is described by  *)
(* what its bytes depend on: the time the command read at its start and the *)
(* drafts it read, so two freezes never write the same sources.json.        *)
(***************************************************************************)
EXTENDS Naturals, FiniteSets

CONSTANTS
  Versions,     \* schema versions, ordered: a set of numbers
  Texts,        \* what a draft may say
  Operators,    \* commands that run at the same time
  MaxTime,      \* bound on the freeze and finalize commands
  MaxDrafts,    \* bound on the drafts written
  MaxFaults,    \* bound on failing file writes and commits
  MaxKills,     \* bound on killed commands
  Nothing       \* a row or a file that is not there

ASSUME ReflectionConfiguration ==
  /\ Versions \subseteq Nat /\ IsFiniteSet(Versions)
  /\ {MaxTime, MaxDrafts, MaxFaults, MaxKills} \subseteq Nat
  /\ Operators # {} /\ Nothing \notin Versions \cup Texts \cup Operators

VARIABLES
  run,          \* table reflection_runs, by schema version
  findings,     \* table reflection_findings: the receipts stored with them
  dir,          \* the package directory: none, made (no input.json), ready
  discovery,    \* source-discovery/drafts.json
  sources,      \* sources.json
  analysis,     \* analysis/drafts.json
  receiptFile,  \* receipt.json
  sealed,       \* the packages whose drafts are mode 0400
  late,         \* the packages whose finalize deadline has passed
  writeLock,    \* the command that holds the database's write lock
  command,      \* the command each operator runs
  time, written, faults, kills

packageFiles == <<dir, discovery, sources, analysis, receiptFile, sealed>>
tables == <<run, findings>>
budget == <<time, written, faults, kills>>
reflectionVars == <<tables, packageFiles, late, writeLock, command, budget>>

Snapshot == [at: 1..MaxTime, discovery: Texts]
ReceiptFile == [at: 1..MaxTime, sources: Snapshot, analysis: Texts]
Row == [status: {"awaiting_sources", "awaiting_analysis", "completed", "failed"},
        parent: Versions \cup {Nothing}, sources: Snapshot \cup {Nothing},
        receipt: ReceiptFile \cup {Nothing}]
Op == [pc: {"idle", "insert", "dir", "mkdir", "input", "mark",
            "freeze", "check", "replace", "sources", "undo",
            "claim", "lock", "publish", "receipt"},
       v: Versions \cup {Nothing}, parent: Versions \cup {Nothing},
       file: Snapshot \cup ReceiptFile \cup {Nothing}, mine: BOOLEAN]

\* What is not there is none of the things that can be.
ASSUME NoFileIsNothing == Nothing \notin Snapshot \cup ReceiptFile \cup Row

Idle == [pc |-> "idle", v |-> Nothing, parent |-> Nothing, file |-> Nothing,
         mine |-> FALSE]

ReflectionInit ==
  /\ run = [v \in Versions |-> Nothing]
  /\ findings = [v \in Versions |-> {}]
  /\ dir = [v \in Versions |-> "none"]
  /\ discovery = [v \in Versions |-> Nothing]
  /\ sources = [v \in Versions |-> Nothing]
  /\ analysis = [v \in Versions |-> Nothing]
  /\ receiptFile = [v \in Versions |-> Nothing]
  /\ sealed = {} /\ late = {}
  /\ writeLock = Nothing
  /\ command = [o \in Operators |-> Idle]
  /\ time = 0 /\ written = 0 /\ faults = 0 /\ kills = 0

Exists(v) == run[v] # Nothing
HasStatus(v, s) == Exists(v) /\ run[v].status = s
Active(v) == Exists(v) /\ run[v].status # "failed"
Successors(p) == {v \in Versions : Active(v) /\ run[v].parent = p}

At(o, pc) == command[o].pc = pc
MoveTo(o, pc) == command' = [command EXCEPT ![o].pc = pc]
Stop(o) == command' = [command EXCEPT ![o] = Idle]

-----------------------------------------------------------------------------
(* prepare                                                                  *)

\* A correction is of a completed reflection and has a newer schema version.
Supersedable(v, p) == HasStatus(p, "completed") /\ p < v

\* A new root needs a run without an active reflection, a correction one that
\* has no active successor.
MayCreate(v, p) ==
  IF p = Nothing THEN \A u \in Versions : ~Active(u)
  ELSE Supersedable(v, p) /\ Successors(p) = {}

\* An existing row of this version is used again while it awaits sources, to
\* make its package if there is none; one that is there is returned as it is.
PrepareLoad(o, v, p) ==
  /\ At(o, "idle")
  /\ \/ /\ ~Exists(v) /\ MayCreate(v, p)
        /\ command' = [command EXCEPT ![o] = [Idle EXCEPT !.pc = "insert", !.v = v, !.parent = p]]
     \/ /\ HasStatus(v, "awaiting_sources") /\ run[v].parent = p
        /\ dir[v] = "none"
        /\ command' = [command EXCEPT ![o] = [Idle EXCEPT !.pc = "dir", !.v = v, !.parent = p]]
  /\ UNCHANGED <<tables, packageFiles, late, writeLock, budget>>

\* uq_reflection_run_identity and uq_reflection_active_successor.
Insertable(v, p) == ~Exists(v) /\ (p # Nothing => Successors(p) = {})

PrepareInsert(o) ==
  LET v == command[o].v
      p == command[o].parent
  IN /\ At(o, "insert") /\ writeLock = Nothing
     /\ IF Insertable(v, p)
        THEN /\ run' = [run EXCEPT ![v] =
                  [status |-> "awaiting_sources", parent |-> p,
                   sources |-> Nothing, receipt |-> Nothing]]
             /\ MoveTo(o, "dir")
        ELSE UNCHANGED run /\ Stop(o)
     /\ UNCHANGED <<findings, packageFiles, late, writeLock, budget>>

\* After the commit the directory is looked at again: one that has appeared
\* belongs to the same request, and is returned if it has its input.json.
PrepareDir(o) ==
  LET v == command[o].v
  IN /\ At(o, "dir")
     /\ IF dir[v] = "none" THEN MoveTo(o, "mkdir") ELSE Stop(o)
     /\ UNCHANGED <<tables, packageFiles, late, writeLock, budget>>

\* A directory that exists by now is an error like any other.
PrepareMkdir(o) ==
  LET v == command[o].v
  IN /\ At(o, "mkdir")
     /\ IF dir[v] = "none"
        THEN dir' = [dir EXCEPT ![v] = "made"] /\ MoveTo(o, "input")
        ELSE UNCHANGED dir /\ MoveTo(o, "mark")
     /\ UNCHANGED <<tables, discovery, sources, analysis, receiptFile, sealed, late,
                    writeLock, budget>>

\* The other files of the package follow input.json and may fail as well.
PrepareInput(o) ==
  /\ At(o, "input")
  /\ \/ dir' = [dir EXCEPT ![command[o].v] = "ready"]
        /\ Stop(o) /\ UNCHANGED faults
     \/ faults < MaxFaults /\ faults' = faults + 1
        /\ \E d \in {"made", "ready"} : dir' = [dir EXCEPT ![command[o].v] = d]
        /\ MoveTo(o, "mark")
  /\ UNCHANGED <<tables, discovery, sources, analysis, receiptFile, sealed, late,
                 writeLock, time, written, kills>>

\* _mark_reflection_failed does not look at the status it replaces.
PrepareMark(o) ==
  /\ At(o, "mark") /\ writeLock = Nothing
  /\ run' = [run EXCEPT ![command[o].v].status = "failed"]
  /\ Stop(o)
  /\ UNCHANGED <<findings, packageFiles, late, writeLock, budget>>

-----------------------------------------------------------------------------
(* The draft writer, and the deadline.                                      *)

WriteDiscovery(v, t) ==
  /\ dir[v] = "ready" /\ v \notin sealed /\ written < MaxDrafts
  /\ discovery' = [discovery EXCEPT ![v] = t]
  /\ written' = written + 1
  /\ UNCHANGED <<tables, dir, sources, analysis, receiptFile, sealed, late, writeLock, command,
                 time, faults, kills>>

WriteAnalysis(v, t) ==
  /\ sources[v] # Nothing /\ v \notin sealed /\ written < MaxDrafts
  /\ analysis' = [analysis EXCEPT ![v] = t]
  /\ written' = written + 1
  /\ UNCHANGED <<tables, dir, discovery, sources, receiptFile, sealed, late, writeLock,
                 command, time, faults, kills>>

DeadlinePasses(v) ==
  /\ Exists(v) /\ v \notin late
  /\ late' = late \cup {v}
  /\ UNCHANGED <<tables, packageFiles, writeLock, command, budget>>

-----------------------------------------------------------------------------
(* freeze-sources                                                           *)

FreezeRead(o, v) ==
  /\ At(o, "idle") /\ time < MaxTime
  /\ dir[v] = "ready" /\ v \notin late /\ discovery[v] # Nothing
  /\ time' = time + 1
  /\ command' = [command EXCEPT ![o] = [Idle EXCEPT !.pc = "freeze", !.v = v,
       !.file = [at |-> time + 1, discovery |-> discovery[v]]]]
  /\ UNCHANGED <<tables, packageFiles, late, writeLock, written, faults, kills>>

FreezeLoad(o) ==
  /\ At(o, "freeze")
  /\ IF HasStatus(command[o].v, "awaiting_sources") THEN MoveTo(o, "check") ELSE Stop(o)
  /\ UNCHANGED <<tables, packageFiles, late, writeLock, budget>>

\* _publish_staged_file: an existing file must have the same bytes, a missing
\* one is moved into place by os.replace.
FreezeCheck(o) ==
  /\ At(o, "check")
  /\ CASE sources[command[o].v] = Nothing -> MoveTo(o, "replace")
       [] sources[command[o].v] = command[o].file -> MoveTo(o, "sources")
       [] OTHER -> Stop(o)
  /\ UNCHANGED <<tables, packageFiles, late, writeLock, budget>>

FreezeReplace(o) ==
  /\ At(o, "replace")
  /\ sources' = [sources EXCEPT ![command[o].v] = command[o].file]
  /\ command' = [command EXCEPT ![o].pc = "sources", ![o].mine = TRUE]
  /\ UNCHANGED <<tables, dir, discovery, analysis, receiptFile, sealed, late, writeLock,
                 budget>>

\* The UPDATE names the row and not the status it was loaded with: it may make a
\* failed row active again, unless uq_reflection_active_successor forbids it.
OnlyActive(v) ==
  run[v].parent # Nothing => Successors(run[v].parent) \subseteq {v}

FreezeCommit(o) ==
  LET v == command[o].v
  IN /\ At(o, "sources")
     /\ \/ /\ writeLock = Nothing /\ OnlyActive(v)
           /\ run' = [run EXCEPT ![v].status = "awaiting_analysis",
                                 ![v].sources = command[o].file]
           /\ Stop(o) /\ UNCHANGED faults
        \/ /\ writeLock = Nothing /\ ~OnlyActive(v)
           /\ MoveTo(o, "undo") /\ UNCHANGED <<run, faults>>
        \/ /\ faults < MaxFaults /\ faults' = faults + 1
           /\ MoveTo(o, "undo") /\ UNCHANGED run
     /\ UNCHANGED <<findings, packageFiles, late, writeLock, time, written, kills>>

\* A failed freeze that leaves what it published.
FreezeUndoKeep(o) ==
  /\ At(o, "undo")
  /\ Stop(o)
  /\ UNCHANGED <<tables, packageFiles, late, writeLock, budget>>

\* What this command published is taken back.
FreezeUndo(o) ==
  /\ At(o, "undo")
  /\ sources' = IF command[o].mine THEN [sources EXCEPT ![command[o].v] = Nothing] ELSE sources
  /\ Stop(o)
  /\ UNCHANGED <<tables, dir, discovery, analysis, receiptFile, sealed, late, writeLock,
                 budget>>

-----------------------------------------------------------------------------
(* finalize                                                                 *)

\* The discovery draft must still be the one the sources were frozen from.
FinalizeRead(o, v) ==
  /\ At(o, "idle") /\ time < MaxTime
  /\ dir[v] = "ready" /\ v \notin late
  /\ sources[v] # Nothing /\ analysis[v] # Nothing
  /\ discovery[v] = sources[v].discovery
  /\ time' = time + 1
  /\ command' = [command EXCEPT ![o] = [Idle EXCEPT !.pc = "claim", !.v = v,
       !.file = [at |-> time + 1, sources |-> sources[v],
                 analysis |-> analysis[v]]]]
  /\ UNCHANGED <<tables, packageFiles, late, writeLock, written, faults, kills>>

\* The sources must be the ones the row was sealed with.
SourcesSealed(o) == run[command[o].v].sources = command[o].file.sources

FinalizeLoad(o) ==
  /\ At(o, "claim")
  /\ IF HasStatus(command[o].v, "awaiting_analysis") /\ SourcesSealed(o)
     THEN MoveTo(o, "lock") ELSE Stop(o)
  /\ UNCHANGED <<tables, packageFiles, late, writeLock, budget>>

\* The first INSERT takes the write lock; the row is then claimed by an UPDATE
\* that asks for the status again.
FinalizeClaim(o) ==
  /\ At(o, "lock") /\ writeLock = Nothing
  /\ IF HasStatus(command[o].v, "awaiting_analysis")
     THEN writeLock' = o /\ MoveTo(o, "publish")
     ELSE UNCHANGED writeLock /\ Stop(o)
  /\ UNCHANGED <<tables, packageFiles, late, budget>>

\* A receipt that is already there differs, since it was made at another time.
FinalizePublish(o) ==
  LET v == command[o].v
  IN /\ At(o, "publish")
     /\ sealed' = sealed \cup {v}
     /\ IF receiptFile[v] = Nothing
        THEN /\ receiptFile' = [receiptFile EXCEPT ![v] = command[o].file]
             /\ MoveTo(o, "receipt") /\ UNCHANGED writeLock
        ELSE UNCHANGED receiptFile /\ writeLock' = Nothing /\ Stop(o)
     /\ UNCHANGED <<tables, dir, discovery, sources, analysis, late, budget>>

\* A finalize that stores its findings in a transaction of their own.
FinalizeCommitSplit(o) ==
  LET v == command[o].v
  IN /\ At(o, "receipt")
     /\ writeLock' = Nothing /\ Stop(o)
     /\ findings' = [findings EXCEPT ![v] = @ \cup {command[o].file}]
     /\ \/ /\ run' = [run EXCEPT ![v].status = "completed",
                                 ![v].receipt = command[o].file]
           /\ UNCHANGED <<receiptFile, faults>>
        \/ /\ faults < MaxFaults /\ faults' = faults + 1
           /\ receiptFile' = [receiptFile EXCEPT ![v] = Nothing]
           /\ UNCHANGED run
     /\ UNCHANGED <<dir, discovery, sources, analysis, sealed, late, time,
                    written, kills>>

FinalizeCommit(o) ==
  LET v == command[o].v
  IN /\ At(o, "receipt")
     /\ writeLock' = Nothing /\ Stop(o)
     /\ \/ /\ run' = [run EXCEPT ![v].status = "completed",
                                 ![v].receipt = command[o].file]
           /\ findings' = [findings EXCEPT ![v] = @ \cup {command[o].file}]
           /\ UNCHANGED <<receiptFile, faults>>
        \/ /\ faults < MaxFaults /\ faults' = faults + 1
           /\ receiptFile' = [receiptFile EXCEPT ![v] = Nothing]
           /\ UNCHANGED tables
     /\ UNCHANGED <<dir, discovery, sources, analysis, sealed, late, time,
                    written, kills>>

-----------------------------------------------------------------------------
\* A killed command leaves its files; the database rolls its transaction back.
Kill(o) ==
  /\ ~At(o, "idle") /\ kills < MaxKills
  /\ kills' = kills + 1
  /\ writeLock' = IF writeLock = o THEN Nothing ELSE writeLock
  /\ Stop(o)
  /\ UNCHANGED <<tables, packageFiles, late, time, written, faults>>

Prepare(o) ==
  \/ \E v \in Versions, p \in Versions \cup {Nothing} : PrepareLoad(o, v, p)
  \/ PrepareInsert(o) \/ PrepareDir(o) \/ PrepareMkdir(o) \/ PrepareInput(o)
  \/ PrepareMark(o)

Freeze(o) ==
  \/ \E v \in Versions : FreezeRead(o, v)
  \/ FreezeLoad(o) \/ FreezeCheck(o) \/ FreezeReplace(o) \/ FreezeCommit(o)
  \/ FreezeUndo(o)

Finalize(o) ==
  \/ \E v \in Versions : FinalizeRead(o, v)
  \/ FinalizeLoad(o) \/ FinalizeClaim(o) \/ FinalizePublish(o) \/ FinalizeCommit(o)

ReflectionNext ==
  \/ \E o \in Operators : Prepare(o) \/ Freeze(o) \/ Finalize(o) \/ Kill(o)
  \/ \E v \in Versions, t \in Texts : WriteDiscovery(v, t) \/ WriteAnalysis(v, t)
  \/ \E v \in Versions : DeadlinePasses(v)

ReflectionSpec == ReflectionInit /\ [][ReflectionNext]_reflectionVars

-----------------------------------------------------------------------------
(* Properties.                                                              *)

\* The tables, the files and the commands hold values of their kinds.
ReflectionTypeOK ==
  /\ \A v \in Versions : Exists(v) => run[v] \in Row
  /\ \A v \in Versions : findings[v] \subseteq ReceiptFile
  /\ dir \in [Versions -> {"none", "made", "ready"}]
  /\ discovery \in [Versions -> Texts \cup {Nothing}]
  /\ analysis \in [Versions -> Texts \cup {Nothing}]
  /\ \A v \in Versions : sources[v] # Nothing => sources[v] \in Snapshot
  /\ \A v \in Versions : receiptFile[v] # Nothing => receiptFile[v] \in ReceiptFile
  /\ sealed \cup late \subseteq Versions
  /\ writeLock \in Operators \cup {Nothing}
  /\ \A o \in Operators : command[o] \in Op

\* From the freeze on, the row's seals are the files': sources.json is what the
\* row names, a completed reflection has the receipt it names, made from those
\* sources, and a reflection whose findings are stored is and stays completed.
SealMatches ==
  \A v \in Versions :
    /\ HasStatus(v, "awaiting_analysis") \/ HasStatus(v, "completed") =>
         sources[v] = run[v].sources
    /\ HasStatus(v, "completed") =>
         /\ receiptFile[v] = run[v].receipt
         /\ receiptFile[v].sources = sources[v]
    /\ findings[v] # {} => HasStatus(v, "completed")

\* Findings are stored once for a reflection, whatever commands compete for it,
\* and the receipt on disk is the one they were stored with.
FindingsOnce ==
  \A v \in Versions : findings[v] # {} => findings[v] = {receiptFile[v]}

\* A completed reflection is superseded by at most one active correction, and
\* every correction hangs on a reflection that was completed before it.
OneSuccessor ==
  \A p \in Versions :
    /\ Cardinality(Successors(p)) <= 1
    /\ Successors(p) # {} => Exists(p) /\ findings[p] # {}

\* A run, horizon and evaluation set has one active reflection that supersedes
\* none; the others are its corrections.
OneRoot == Cardinality(Successors(Nothing)) <= 1

\* Between two commands every reflection that is not finished can go on: it has
\* no package or one that freeze can seal, or sealed sources and no receipt.
Retryable ==
  (\A o \in Operators : At(o, "idle")) =>
    \A v \in Versions :
      /\ HasStatus(v, "awaiting_sources") =>
           dir[v] = "none" \/ (dir[v] = "ready" /\ sources[v] = Nothing)
      /\ HasStatus(v, "awaiting_analysis") =>
           dir[v] = "ready" /\ sources[v] = run[v].sources /\ receiptFile[v] = Nothing
=============================================================================
