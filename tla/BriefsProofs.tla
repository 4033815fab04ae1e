---------------------------- MODULE BriefsProofs ----------------------------
(***************************************************************************)
(* Proofs about recovery bundles, the generation of drafts, the owner's     *)
(* messages and pre-market forecasts, for every set of pages, drafters,     *)
(* streams, posters, slots, jobs and operators.                             *)
(***************************************************************************)
EXTENDS MCBriefs, FiniteSetTheorems, WellFoundedInduction, TLAPS

-----------------------------------------------------------------------------
(* Recovery bundles: Recovery.                                             *)

BackupState == [step : {"idle", "list", "copy"}, db : SUBSET Pages, listed : SUBSET Pages,
                root : SUBSET Pages, quiet : BOOLEAN, owed : SUBSET Pages]
ReceiptState == [db : SUBSET Pages, root : SUBSET Pages]
TargetState == [step : {"empty", "copy", "failed", "done"}, copied : SUBSET Pages,
                spoiled : SUBSET Pages, receipt : ReceiptState \cup {Nothing}]

\* The bundle lacks only what the properties let it lack.
WholeBundle ==
  /\ bundle \in Bundles
  /\ Missing(bundle) \subseteq RowFirst
  /\ bundle.quiet => Missing(bundle) \subseteq bundle.owed

\* A page that is published before its row is in the live root, which never loses it, when
\* the directory is listed; in a paused system nothing moves between the two copies.
BackupHolds(b) ==
  /\ b \in BackupState
  /\ b.step = "list" => b.db \subseteq rows
  /\ b.step = "list" /\ b.quiet => paused /\ b.db = rows /\ b.owed = rows \ files
  /\ b.step = "copy" => b.db \ b.listed \subseteq RowFirst
  /\ b.step = "copy" /\ b.quiet => b.db \ b.listed \subseteq b.owed

RecoveryInv ==
  /\ paused \in BOOLEAN /\ files \subseteq Pages /\ rows \subseteq files \cup RowFirst
  /\ BackupHolds(backup)
  /\ backup.step # "idle" => bundle = Nothing
  /\ bundle = Nothing \/ WholeBundle
  /\ target \in TargetState /\ target.spoiled = {}
  /\ target.step # "empty" => bundle # Nothing
  /\ target.receipt # Nothing =>
       target.step # "empty" /\ target.receipt = [db |-> bundle.db, root |-> bundle.root]

LEMMA RecoveryInitHolds == RecoveryInit => RecoveryInv
  <1> SUFFICES ASSUME RecoveryInit PROVE RecoveryInv
    OBVIOUS
  <1>1. BackupHolds(backup) /\ backup.step = "idle"
    BY DEF RecoveryInit, NoBackup, BackupState, BackupHolds
  <1>2. target \in TargetState /\ target.spoiled = {} /\ target.step = "empty" /\ target.receipt = Nothing
    BY DEF RecoveryInit, EmptyTarget, TargetState
  <1> QED BY <1>1, <1>2 DEF RecoveryInit, RecoveryInv

\* A step of the backup that leaves bundle and target.
LEMMA BackupMoves ==
  ASSUME RecoveryInv, NEW b, BackupHolds(b), bundle = Nothing, backup' = b,
         UNCHANGED <<paused, files, rows, bundle, target>>
  PROVE  RecoveryInv'
  BY DEF RecoveryInv, WholeBundle, BackupHolds

LEMMA BackupKeeps == RecoveryInv /\ BackupStep => RecoveryInv'
  <1> SUFFICES ASSUME RecoveryInv, BackupStep PROVE RecoveryInv'
    OBVIOUS
  <1>1. UNCHANGED <<paused, files, rows, target>>
    BY DEF BackupStep, liveVars
  <1>2. BackupHolds(NoBackup) /\ NoBackup.step = "idle"
    BY DEF NoBackup, BackupState, BackupHolds
  <1>3. ASSUME backup' = NoBackup, bundle = Nothing, UNCHANGED bundle PROVE RecoveryInv'
    BY <1>1, <1>2, <1>3, BackupMoves
  <1>4. ASSUME CopyDatabase, UNCHANGED bundle PROVE RecoveryInv'
    <2>1. PICK b : b = [NoBackup EXCEPT !.step = "list", !.db = rows, !.quiet = paused, !.owed = rows \ files]
      OBVIOUS
    <2>2. b.step = "list" /\ b.db = rows /\ b.quiet = paused /\ b.owed = rows \ files /\ b.listed = {} /\ b.root = {}
      BY <2>1 DEF NoBackup
    <2>3. rows \subseteq Pages
      BY RowFirstFiles DEF RecoveryInv
    <2>4. BackupHolds(b)
      BY <2>1, <2>2, <2>3 DEF BackupHolds, BackupState, NoBackup, RecoveryInv
    <2>5. backup' = b /\ bundle = Nothing
      BY <1>4, <2>1 DEF CopyDatabase
    <2> QED BY <1>1, <1>4, <2>4, <2>5, BackupMoves
  <1>5. ASSUME ListRoot, UNCHANGED bundle PROVE RecoveryInv'
    <2>1. PICK b : b = [backup EXCEPT !.step = "copy", !.listed = files]
      OBVIOUS
    <2>2. /\ b \in BackupState /\ b.step = "copy" /\ b.listed = files
          /\ b.db = backup.db /\ b.quiet = backup.quiet /\ b.owed = backup.owed
      BY <2>1 DEF BackupState, RecoveryInv, BackupHolds
    <2>3. BackupHolds(b)
      BY <1>5, <2>2 DEF ListRoot, RecoveryInv, BackupHolds
    <2>4. backup' = b /\ bundle = Nothing
      BY <1>5, <2>1 DEF ListRoot, RecoveryInv
    <2> QED BY <1>1, <1>5, <2>3, <2>4, BackupMoves
  <1>6. ASSUME NEW p \in Pages, CopyFile(p), UNCHANGED bundle PROVE RecoveryInv'
    <2>0. bundle = Nothing
      BY <1>6 DEF CopyFile, RecoveryInv
    <2>1. CASE p \notin files
      BY <1>3, <1>6, <2>0, <2>1 DEF CopyFile
    <2>2. CASE p \in files
      <3>1. PICK b : b = [backup EXCEPT !.root = @ \cup {p}]
        OBVIOUS
      <3>2. /\ b \in BackupState /\ b.step = backup.step /\ b.listed = backup.listed
            /\ b.db = backup.db /\ b.quiet = backup.quiet /\ b.owed = backup.owed
        BY <3>1 DEF BackupState, RecoveryInv, BackupHolds
      <3>3. BackupHolds(b)
        BY <3>2 DEF RecoveryInv, BackupHolds
      <3>4. backup' = b
        BY <1>6, <2>2, <3>1 DEF CopyFile
      <3> QED BY <1>1, <1>6, <2>0, <3>3, <3>4, BackupMoves
    <2> QED BY <2>1, <2>2
  <1>7. ASSUME PublishBundle PROVE RecoveryInv'
    <2>1. PICK b : b = [db |-> backup.db, root |-> backup.root, spoiled |-> {},
                        quiet |-> backup.quiet, owed |-> backup.owed]
      OBVIOUS
    <2>2. /\ bundle' = b /\ backup' = NoBackup /\ bundle = Nothing
          /\ backup.step = "copy" /\ backup.root = backup.listed
      BY <1>7, <2>1 DEF PublishBundle, RecoveryInv
    <2>3. /\ b \in Bundles /\ b.db = backup.db /\ b.root = backup.listed
          /\ b.quiet = backup.quiet /\ b.owed = backup.owed
      BY <2>1, <2>2 DEF Bundles, RecoveryInv, BackupState, BackupHolds
    <2>4. WholeBundle'
      BY <2>2, <2>3 DEF WholeBundle, Missing, RecoveryInv, BackupHolds
    <2>5. target.step = "empty" /\ target.receipt = Nothing
      BY <2>2 DEF RecoveryInv
    <2>6. BackupHolds(backup)'
      BY <1>1, <1>2, <2>2 DEF BackupHolds
    <2> QED BY <1>1, <1>2, <2>2, <2>4, <2>5, <2>6 DEF RecoveryInv
  <1>8. ASSUME KillBackup, UNCHANGED bundle PROVE RecoveryInv'
    BY <1>3, <1>8 DEF KillBackup, RecoveryInv
  <1> QED BY <1>4, <1>5, <1>6, <1>7, <1>8 DEF BackupStep

\* A step of the restore.
LEMMA RestoreKeeps == RecoveryInv /\ RestoreStep => RecoveryInv'
  <1> SUFFICES ASSUME RecoveryInv, RestoreStep PROVE RecoveryInv'
    OBVIOUS
  <1>1. UNCHANGED <<paused, files, rows, backup, bundle>>
    BY DEF RestoreStep, liveVars
  <1>2. ASSUME NEW t \in TargetState, target' = t, t.spoiled = {}, bundle # Nothing, t.step # "empty",
               t.receipt # Nothing => t.receipt = [db |-> bundle.db, root |-> bundle.root]
        PROVE  RecoveryInv'
    BY <1>1, <1>2 DEF RecoveryInv, WholeBundle, BackupHolds
  <1>3. ASSUME NEW step \in {"copy", "failed"}, target' = [target EXCEPT !.step = step], bundle # Nothing
        PROVE  RecoveryInv'
    <2> DEFINE t == [target EXCEPT !.step = step]
    <2>1. t \in TargetState /\ t.spoiled = {} /\ t.receipt = target.receipt /\ t.step # "empty"
      BY DEF TargetState, RecoveryInv
    <2>2. target' = t
      BY <1>3
    <2> HIDE DEF t
    <2> QED BY <1>2, <1>3, <2>1, <2>2 DEF RecoveryInv
  <1>4. ASSUME RestoreStart PROVE RecoveryInv'
    BY <1>3, <1>4 DEF RestoreStart, VerifyBackup
  <1>5. ASSUME KillRestore PROVE RecoveryInv'
    BY <1>3, <1>5 DEF KillRestore, RecoveryInv
  <1>6. ASSUME NEW p \in Pages, RestoreFile(p) PROVE RecoveryInv'
    <2>1. bundle # Nothing
      BY <1>6 DEF RestoreFile, RecoveryInv
    <2>2. CASE ~CopyVerified(p)
      BY <1>3, <1>6, <2>1, <2>2 DEF RestoreFile
    <2>3. CASE CopyVerified(p)
      <3> DEFINE t == [target EXCEPT !.copied = @ \cup {p}, !.spoiled = @ \cup (bundle.spoiled \cap {p})]
      <3>1. bundle.spoiled \cap {p} = {}
        BY <2>3 DEF CopyVerified
      <3>2. t \in TargetState /\ t.spoiled = {} /\ t.receipt = target.receipt /\ t.step = target.step
        BY <3>1 DEF TargetState, RecoveryInv
      <3>3. target' = t /\ target.step # "empty"
        BY <1>6, <2>3 DEF RestoreFile
      <3> HIDE DEF t
      <3> QED BY <1>2, <2>1, <3>2, <3>3 DEF RecoveryInv
    <2> QED BY <2>2, <2>3
  <1>7. ASSUME RestoreReceipt PROVE RecoveryInv'
    <2> DEFINE r == [db |-> bundle.db, root |-> target.copied]
               t == [target EXCEPT !.step = "done", !.receipt = r]
    <2>1. bundle # Nothing /\ WholeBundle /\ target.copied = bundle.root
      BY <1>7 DEF RestoreReceipt, RecoveryInv
    <2>2. r \in ReceiptState /\ r = [db |-> bundle.db, root |-> bundle.root]
      BY <2>1 DEF ReceiptState, WholeBundle, Bundles
    <2>3. target' = t
      BY <1>7 DEF RestoreReceipt
    <2> HIDE DEF r
    <2>4. t \in TargetState /\ t.spoiled = {} /\ t.receipt = r /\ t.step # "empty"
      BY <2>2 DEF TargetState, RecoveryInv
    <2> HIDE DEF t
    <2> QED BY <1>2, <2>1, <2>2, <2>3, <2>4
  <1> QED BY <1>4, <1>5, <1>6, <1>7 DEF RestoreStep

LEMMA RecoveryStepKeeps == RecoveryInv /\ [RecoveryStep]_recoveryVars => RecoveryInv'
  <1> SUFFICES ASSUME RecoveryInv, [RecoveryStep]_recoveryVars PROVE RecoveryInv'
    OBVIOUS
  <1>1. CASE UNCHANGED recoveryVars
    BY <1>1 DEF recoveryVars, RecoveryInv, WholeBundle, BackupHolds
  <1>2. CASE LiveStep
    <2>1. /\ UNCHANGED <<paused, backup, bundle, target>> /\ ~paused /\ rows \subseteq rows'
          /\ rows' \subseteq files' \cup RowFirst /\ files' \subseteq Pages
      BY <1>2 DEF LiveStep, LinkPage, CommitRow, TakeBack, CommitFirst, WriteAfter, RecoveryInv
    <2>2. BackupHolds(backup)'
      BY <2>1 DEF RecoveryInv, BackupHolds
    <2> QED BY <2>1, <2>2 DEF RecoveryInv, WholeBundle
  <1>3. ASSUME NEW p \in Pages, SpoilBundle(p) PROVE RecoveryInv'
    <2> DEFINE b == [bundle EXCEPT !.spoiled = @ \cup {p}]
    <2>1. WholeBundle /\ bundle # Nothing
      BY <1>3 DEF SpoilBundle, RecoveryInv
    <2>2. b \in Bundles /\ b.db = bundle.db /\ b.root = bundle.root /\ b.quiet = bundle.quiet /\ b.owed = bundle.owed
      BY <2>1 DEF WholeBundle, Bundles
    <2>3. bundle' = b /\ UNCHANGED <<paused, files, rows, backup, target>>
      BY <1>3 DEF SpoilBundle, liveVars
    <2> HIDE DEF b
    <2>4. WholeBundle' /\ bundle' # Nothing
      BY <2>1, <2>2, <2>3, NothingIsNoBundle DEF WholeBundle, Missing
    <2>5. BackupHolds(backup)'
      BY <2>3 DEF RecoveryInv, BackupHolds
    <2>6. backup.step = "idle"
      BY <2>1 DEF RecoveryInv, BackupHolds, BackupState
    <2> QED BY <2>1, <2>2, <2>3, <2>4, <2>5, <2>6 DEF RecoveryInv
  <1>4. CASE Pause
    <2>1. paused' = TRUE /\ UNCHANGED <<files, rows, backup, bundle, target>>
      BY <1>4 DEF Pause
    <2>2. BackupHolds(backup)'
      BY <1>4, <2>1 DEF RecoveryInv, BackupHolds, Pause
    <2> QED BY <2>1, <2>2 DEF RecoveryInv, WholeBundle
  <1>5. CASE Unpause
    <2>1. PICK b : b = [backup EXCEPT !.quiet = FALSE]
      OBVIOUS
    <2>2. paused' = FALSE /\ backup' = b /\ UNCHANGED <<files, rows, bundle, target>>
      BY <1>5, <2>1 DEF Unpause
    <2>3. b \in BackupState /\ ~b.quiet /\ b.step = backup.step /\ b.db = backup.db /\ b.listed = backup.listed
      BY <2>1 DEF RecoveryInv, BackupHolds, BackupState
    <2>4. BackupHolds(backup)'
      BY <2>2, <2>3 DEF RecoveryInv, BackupHolds
    <2> QED BY <2>2, <2>3, <2>4 DEF RecoveryInv, WholeBundle
  <1> QED BY <1>1, <1>2, <1>3, <1>4, <1>5, BackupKeeps, RestoreKeeps DEF RecoveryStep

\* A backup copies database and files one after the other.  Taken while the system writes
\* it lacks no page that was published before its row, and taken in a pause no file that
\* the system itself had; a restored target is that bundle, byte for byte, whatever
\* damages the bundle meanwhile (create_backup, restore_backup).
THEOREM RestoredIsWhole == RecoverySpec => []RestoredNamesFiles
  <1>1. RecoveryInv => RestoredNamesFiles
    BY DEF RecoveryInv, WholeBundle, RestoredNamesFiles
  <1> QED BY <1>1, RecoveryInitHolds, RecoveryStepKeeps, PTL DEF RecoverySpec

-----------------------------------------------------------------------------
(* The generation of drafts: DraftGeneration.                              *)

Before == {ss \in Nat \X Nat : ss[1] < ss[2]}

\* A set of positions that is not empty has a first one.
LEMMA FirstPosition ==
  ASSUME NEW T \in SUBSET Nat, T # {}
  PROVE  \E n \in T : \A k \in T : n <= k
  <1>1. OpToRel(<, Nat) = Before
    BY Zenon DEF OpToRel, Before
  <1>2. IsWellFoundedOn(Before, Nat)
    BY <1>1, NatLessThanWellFounded
  <1>3. PICK x \in T : \A y \in T : ~(<<y, x>> \in Before)
    BY <1>2, WFMin
  <1>4. \A y \in T : x \in Nat /\ y \in Nat /\ ~(y < x)
    BY <1>3 DEF Before
  <1> QED BY <1>4

\* A stream that ends has a first event that ends it.
LEMMA FirstEndIsFirst ==
  ASSUME NEW s \in Streams, Ends(s) # {}
  PROVE  FirstEnd(s) \in Nat /\ DOMAIN s \subseteq Nat /\ s[FirstEnd(s)].id \in Nat
  <1>1. s \in Seq([kind : Kinds, id : Nat, code : Codes])
    BY GenerationAssumption DEF GenerationAssumption
  <1>2. Len(s) \in Nat /\ DOMAIN s = 1..Len(s)
    BY <1>1
  <1>3. Ends(s) \in SUBSET Nat
    BY <1>2 DEF Ends
  <1>4. \E n \in Ends(s) : \A k \in Ends(s) : n <= k
    BY <1>3, FirstPosition
  <1>5. FirstEnd(s) \in Ends(s) /\ \A k \in Ends(s) : FirstEnd(s) <= k
    BY <1>4 DEF FirstEnd
  <1>6. FirstEnd(s) \in DOMAIN s
    BY <1>5 DEF Ends
  <1>7. \A i \in 1..Len(s) : s[i] \in [kind : Kinds, id : Nat, code : Codes]
    <2>1. PICK T : T = [kind : Kinds, id : Nat, code : Codes]
      OBVIOUS
    <2>2. s \in Seq(T)
      BY <1>1, <2>1
    <2>3. \A i \in 1..Len(s) : s[i] \in T
      BY <2>2
    <2> QED BY <2>1, <2>3
  <1>8. \A i \in DOMAIN s : s[i].id \in Nat
    BY <1>2, <1>7
  <1> QED BY <1>2, <1>3, <1>5, <1>6, <1>8

\* The identity that the reader compares is the one announced last.
LEMMA LastAnnounced ==
  ASSUME NEW s, NEW n \in Nat, NEW k \in Nat, SameResponse(s, n), Announced(s, k, n)
  PROVE  s[k].id = s[n].id
  <1>1. k \in Created(s, n) /\ Created(s, n) \subseteq Nat
    BY DEF Announced, Created
  <1>2. \A m \in Created(s, n) : m <= k
    BY DEF Announced, Created
  <1>3. \A i \in Created(s, n) : (\A m \in Created(s, n) : m <= i) => i = k
    BY <1>1, <1>2
  <1>4. (CHOOSE i \in Created(s, n) : \A m \in Created(s, n) : m <= i) = k
    BY <1>1, <1>2, <1>3
  <1> QED BY <1>1, <1>4 DEF SameResponse

\* A response that brings drafts was completed; one that lets the fallback write ended in
\* a confirmed failure.
LEMMA ResponseMeans ==
  ASSUME NEW s
  PROVE  /\ ReadResponse(s) = "drafts" =>
              /\ Ends(s) # {}
              /\ s[FirstEnd(s)].kind = "completed" /\ s[FirstEnd(s)].code # "bad_output"
              /\ SameResponse(s, FirstEnd(s))
         /\ ReadResponse(s) = "unavailable" => Ends(s) # {} /\ Confirmed(s[FirstEnd(s)])
  BY DEF ReadResponse, AvailabilityReason, Confirmed, OutputValid

DrawState == [step : {"idle", "primary", "fallback", "bundle", "publish"}, stream : Streams \cup {<<>>},
              by : {"openai_responses", "codex", NoDraft}, id : Nat \cup {NoDraft},
              failed : Nat \cup {NoDraft}, at : Nat]

\* d has drafts of the service, or of the fallback after a failure until the instant t.
FromService(d) ==
  /\ d.by = "openai_responses" /\ d.failed = NoDraft /\ ReadResponse(d.stream) = "drafts"
  /\ d.id = d.stream[FirstEnd(d.stream)].id
FailedUntil(d, t) ==
  d.failed \in Nat /\ d.failed <= t /\ Routed /\ ReadResponse(d.stream) = "unavailable"
HasDrafts(d, t) ==
  d.stream \in Streams /\ (FromService(d) \/ (d.by = "codex" /\ d.id = NoDraft /\ FailedUntil(d, t)))

\* Drafts of the instant t were composed while the run waited for them.
Timely(t) == ended # NoDraft => t <= ended

\* What a draft command knows of its stream at the instant t.
DrawOK(d, t) ==
  /\ d.step = "primary" => d.failed = NoDraft /\ d.id = NoDraft
  /\ d.step = "fallback" => d.id = NoDraft /\ d.stream \in Streams /\ FailedUntil(d, t)
  /\ d.step \in {"bundle", "publish"} => HasDrafts(d, t)
  /\ d.step = "publish" => d.at < Cutoff /\ d.at <= t /\ HasDrafts(d, d.at) /\ Timely(d.at)

GenerationInv ==
  /\ instant \in 0..LastInstant /\ (ended # NoDraft => ended \in Nat /\ ended <= instant)
  /\ draw \in [Drafters -> DrawState]
  /\ \A c \in Drafters : DrawOK(draw[c], instant)
  /\ output # NoDraft =>
       output.at \in Nat /\ output.at < Cutoff /\ output.at <= instant /\ HasDrafts(output, output.at) /\ Timely(output.at)

LEMMA IdleDraws ==
  ASSUME NEW t PROVE IdleDraw \in DrawState /\ IdleDraw.step = "idle" /\ IdleDraw.failed = NoDraft /\ DrawOK(IdleDraw, t)
  BY DEF IdleDraw, DrawState, DrawOK

LEMMA GenerationInitHolds == GenerationInit => GenerationInv
  BY IdleDraws, GenerationAssumption DEF GenerationInit, GenerationInv, GenerationAssumption

LEMMA GenerationFacts ==
  ASSUME GenerationInv, NEW c \in Drafters
  PROVE  /\ instant \in Nat /\ Cutoff \in Nat /\ draw[c] \in DrawState /\ DrawOK(draw[c], instant)
         /\ draw \in [Drafters -> DrawState]
  BY GenerationAssumption DEF GenerationInv, GenerationAssumption

LEMMA DrawMoves ==
  ASSUME GenerationInv, NEW c \in Drafters, NEW d \in DrawState, draw' = [draw EXCEPT ![c] = d],
         DrawOK(d, instant), UNCHANGED <<instant, ended, output>>
  PROVE  GenerationInv'
  <1>1. draw' \in [Drafters -> DrawState] /\ \A e \in Drafters : draw'[e] = IF e = c THEN d ELSE draw[e]
    BY GenerationFacts
  <1>2. \A e \in Drafters : DrawOK(draw'[e], instant)
    BY <1>1 DEF GenerationInv
  <1> QED BY <1>1, <1>2 DEF GenerationInv, DrawOK, Timely

LEMMA DraftStepKeeps ==
  ASSUME GenerationInv, NEW c \in Drafters,
         \/ DraftStart(c) \/ PublishDrafts(c) \/ KillDrafter(c)
         \/ \E s \in Streams : PrimaryEnds(c, s)
         \/ \E b \in BOOLEAN : FallbackEnds(c, b) \/ Bundle(c, b)
  PROVE  GenerationInv'
  <1>1. ASSUME DraftFails(c), UNCHANGED <<instant, ended, output>> PROVE GenerationInv'
    BY <1>1, IdleDraws, DrawMoves DEF DraftFails
  <1>2. ASSUME DraftStart(c) PROVE GenerationInv'
    <2> DEFINE d == [IdleDraw EXCEPT !.step = "primary"]
    <2>1. d \in DrawState /\ d.step = "primary" /\ d.failed = NoDraft /\ d.id = NoDraft
      BY DEF IdleDraw, DrawState
    <2>2. draw' = [draw EXCEPT ![c] = d] /\ UNCHANGED <<instant, ended, output>>
      BY <1>2 DEF DraftStart
    <2> HIDE DEF d
    <2>3. DrawOK(d, instant)
      BY <2>1 DEF DrawOK
    <2> QED BY <2>1, <2>2, <2>3, DrawMoves
  <1>3. ASSUME PublishDrafts(c) PROVE GenerationInv'
    <2>1. draw[c].step = "publish" /\ draw' = [draw EXCEPT ![c] = IdleDraw] /\ UNCHANGED <<instant, ended>>
      BY <1>3 DEF PublishDrafts, DraftFails
    <2>2. draw' \in [Drafters -> DrawState] /\ \A e \in Drafters : DrawOK(draw'[e], instant)
      BY <2>1, IdleDraws, GenerationFacts DEF GenerationInv
    <2>3. /\ draw[c].at \in Nat /\ draw[c].at < Cutoff /\ draw[c].at <= instant
          /\ HasDrafts(draw[c], draw[c].at) /\ Timely(draw[c].at)
      BY <2>1, GenerationFacts DEF DrawOK, DrawState
    <2> DEFINE o == Provenance(draw[c])
    <2>4. o.at \in Nat /\ o.at < Cutoff /\ o.at <= instant /\ HasDrafts(o, o.at) /\ Timely(o.at)
      <3>1. o.at = draw[c].at /\ o.by = draw[c].by /\ o.id = draw[c].id /\ o.failed = draw[c].failed /\ o.stream = draw[c].stream
        BY DEF Provenance
      <3> HIDE DEF o
      <3> QED BY <2>3, <3>1 DEF HasDrafts, FromService, FailedUntil
    <2>5. output' = output \/ output' = o
      BY <1>3 DEF PublishDrafts
    <2> HIDE DEF o
    <2> QED BY <2>1, <2>2, <2>4, <2>5 DEF GenerationInv, DrawOK, Timely
  <1>4. ASSUME NEW s \in Streams, PrimaryEnds(c, s) PROVE GenerationInv'
    <2>0. draw[c].step = "primary" /\ draw[c].failed = NoDraft /\ draw[c].id = NoDraft /\ UNCHANGED <<instant, ended, output>>
      BY <1>4, GenerationFacts DEF PrimaryEnds, DrawOK
    <2>1. CASE /\ ReadResponse(s) = "drafts"
               /\ draw' = [draw EXCEPT ![c].step = "bundle", ![c].by = "openai_responses",
                                       ![c].id = s[FirstEnd(s)].id, ![c].stream = s]
      <3> DEFINE d == [draw[c] EXCEPT !.step = "bundle", !.by = "openai_responses",
                                      !.id = s[FirstEnd(s)].id, !.stream = s]
      <3>0. s[FirstEnd(s)].id \in Nat
        BY <2>1, ResponseMeans, FirstEndIsFirst
      <3>1. /\ d \in DrawState /\ d.step = "bundle" /\ d.by = "openai_responses" /\ d.stream = s
            /\ d.failed = draw[c].failed /\ d.id = s[FirstEnd(s)].id
        BY <3>0, GenerationFacts DEF DrawState
      <3>2. draw' = [draw EXCEPT ![c] = d]
        BY <2>1, GenerationFacts
      <3> HIDE DEF d
      <3>3. DrawOK(d, instant)
        BY <2>0, <2>1, <3>1 DEF DrawOK, HasDrafts, FromService
      <3> QED BY <2>0, <3>1, <3>2, <3>3, DrawMoves
    <2>2. CASE /\ ReadResponse(s) = "unavailable" /\ Routed
               /\ draw' = [draw EXCEPT ![c].step = "fallback", ![c].failed = instant, ![c].stream = s]
      <3> DEFINE d == [draw[c] EXCEPT !.step = "fallback", !.failed = instant, !.stream = s]
      <3>1. d \in DrawState /\ d.step = "fallback" /\ d.failed = instant /\ d.stream = s /\ d.id = draw[c].id
        BY GenerationFacts DEF DrawState
      <3>2. draw' = [draw EXCEPT ![c] = d]
        BY <2>2, GenerationFacts
      <3> HIDE DEF d
      <3>3. DrawOK(d, instant)
        BY <2>0, <2>2, <3>1, GenerationFacts DEF DrawOK, FailedUntil
      <3> QED BY <2>0, <3>1, <3>2, <3>3, DrawMoves
    <2>3. CASE DraftFails(c)
      BY <1>1, <2>0, <2>3
    <2> QED BY <1>4, <2>1, <2>2, <2>3 DEF PrimaryEnds
  <1>5. ASSUME NEW b \in BOOLEAN, FallbackEnds(c, b) PROVE GenerationInv'
    <2>0. draw[c].step = "fallback" /\ UNCHANGED <<instant, ended, output>>
      BY <1>5 DEF FallbackEnds
    <2>1. CASE draw' = [draw EXCEPT ![c].step = "bundle", ![c].by = "codex"]
      <3> DEFINE d == [draw[c] EXCEPT !.step = "bundle", !.by = "codex"]
      <3>1. /\ d \in DrawState /\ d.step = "bundle" /\ d.by = "codex" /\ d.stream = draw[c].stream
            /\ d.failed = draw[c].failed /\ d.id = draw[c].id
        BY GenerationFacts DEF DrawState
      <3>2. draw' = [draw EXCEPT ![c] = d]
        BY <2>1, GenerationFacts
      <3> HIDE DEF d
      <3>3. DrawOK(d, instant)
        BY <2>0, <3>1, GenerationFacts DEF DrawOK, HasDrafts, FailedUntil
      <3> QED BY <2>0, <3>1, <3>2, <3>3, DrawMoves
    <2> QED BY <1>1, <1>5, <2>0, <2>1 DEF FallbackEnds
  <1>6. ASSUME NEW b \in BOOLEAN, Bundle(c, b) PROVE GenerationInv'
    <2>0. draw[c].step = "bundle" /\ UNCHANGED <<instant, ended, output>>
      BY <1>6 DEF Bundle
    <2>1. CASE InTime /\ Sealed /\ draw' = [draw EXCEPT ![c].step = "publish", ![c].at = instant]
      <3> DEFINE d == [draw[c] EXCEPT !.step = "publish", !.at = instant]
      <3>1. /\ d \in DrawState /\ d.step = "publish" /\ d.by = draw[c].by /\ d.stream = draw[c].stream
            /\ d.failed = draw[c].failed /\ d.at = instant /\ d.id = draw[c].id
        BY GenerationFacts DEF DrawState
      <3>2. draw' = [draw EXCEPT ![c] = d]
        BY <2>1, GenerationFacts
      <3> HIDE DEF d
      <3>3. DrawOK(d, instant)
        BY <2>0, <2>1, <3>1, GenerationFacts DEF DrawOK, HasDrafts, FailedUntil, FromService, InTime, Sealed, Timely
      <3> QED BY <2>0, <3>1, <3>2, <3>3, DrawMoves
    <2> QED BY <1>1, <1>6, <2>0, <2>1 DEF Bundle
  <1> QED BY <1>1, <1>2, <1>3, <1>4, <1>5, <1>6 DEF KillDrafter

LEMMA GenerationStepKeeps == GenerationInv /\ [GenerationStep]_generationVars => GenerationInv'
  <1> SUFFICES ASSUME GenerationInv, [GenerationStep]_generationVars PROVE GenerationInv'
    OBVIOUS
  <1>1. CASE UNCHANGED generationVars
    BY <1>1 DEF generationVars, GenerationInv, DrawOK, Timely
  <1>2. CASE Pass
    <2>1. instant' = instant + 1 /\ instant' \in 0..LastInstant /\ UNCHANGED <<ended, output, draw>>
      BY <1>2, GenerationAssumption DEF Pass, GenerationInv, GenerationAssumption
    <2>2. \A c \in Drafters : DrawOK(draw[c], instant')
      <3> SUFFICES ASSUME NEW c \in Drafters PROVE DrawOK(draw[c], instant + 1)
        BY <2>1
      <3>1. draw[c] \in DrawState /\ instant \in Nat /\ DrawOK(draw[c], instant)
        BY GenerationFacts
      <3>2. draw[c].at \in Nat
        BY <3>1 DEF DrawState
      <3> QED BY <3>1, <3>2 DEF DrawOK, HasDrafts, FailedUntil
    <2> QED BY <2>1, <2>2 DEF GenerationInv, DrawOK, Timely
  <1>3. CASE Unseal
    <2>1. ended' = instant /\ instant \in Nat /\ UNCHANGED <<instant, output, draw>>
      BY <1>3, GenerationAssumption DEF Unseal, GenerationInv, GenerationAssumption
    <2> QED BY <2>1 DEF GenerationInv, DrawOK, Timely
  <1> QED BY <1>1, <1>2, <1>3, DraftStepKeeps DEF GenerationStep

\* Whatever the service sends and however draft commands overlap, are killed or lose their
\* seal, what drafts.json says of its origin is true (draft_research_run).
THEOREM OriginsAreTrue == GenerationSpec => []ProvenanceTrue
  <1>1. GenerationInv => ProvenanceTrue
    <2> SUFFICES ASSUME GenerationInv, output # NoDraft PROVE ProvenanceTrue
      BY DEF ProvenanceTrue
    <2>1. PICK s : s = output.stream
      OBVIOUS
    <2>2. PICK n : n = FirstEnd(s)
      OBVIOUS
    <2>3. s \in Streams /\ output.at < Cutoff /\ Timely(output.at) /\ HasDrafts(output, output.at)
      BY <2>1 DEF GenerationInv, HasDrafts
    <2>4. Ends(s) # {}
      BY <2>1, <2>3, ResponseMeans DEF HasDrafts, FromService, FailedUntil
    <2>5. n \in Nat /\ DOMAIN s \subseteq Nat
      BY <2>2, <2>3, <2>4, FirstEndIsFirst
    <2>6. ASSUME output.by = "openai_responses"
          PROVE  /\ s[n].kind = "completed" /\ s[n].code # "bad_output" /\ s[n].id = output.id
                 /\ \A k \in DOMAIN s : Announced(s, k, n) => s[k].id = output.id
                 /\ output.failed = NoDraft
      <3>1. FromService(output)
        BY <2>3, <2>6 DEF HasDrafts
      <3>2. /\ s[n].kind = "completed" /\ s[n].code # "bad_output" /\ SameResponse(s, n)
            /\ s[n].id = output.id /\ output.failed = NoDraft
        BY <2>1, <2>2, <3>1, ResponseMeans DEF FromService
      <3>3. \A k \in DOMAIN s : Announced(s, k, n) => s[k].id = s[n].id
        BY <2>5, <3>2, LastAnnounced
      <3> QED BY <3>2, <3>3
    <2>7. ASSUME output.by # "openai_responses"
          PROVE  Routed /\ Confirmed(s[n]) /\ output.id = NoDraft /\ output.failed <= output.at
      BY <2>1, <2>2, <2>3, <2>7, ResponseMeans DEF HasDrafts, FromService, FailedUntil
    <2> QED BY <2>1, <2>2, <2>3, <2>4, <2>6, <2>7 DEF ProvenanceTrue, Timely
  <1> QED BY <1>1, GenerationInitHolds, GenerationStepKeeps, PTL DEF GenerationSpec

-----------------------------------------------------------------------------
(* The owner's messages: OwnerDelivery.                                    *)

\* Publication p, if under way, holds the lock of a slot that has no marker.
PostOK(p) ==
  /\ post[p] = [step |-> post[p].step, slot |-> post[p].slot, brief |-> post[p].brief]
  /\ post[p].step \in {"idle", "send", "mark"}
  /\ post[p].step # "idle" =>
       LET s == post[p].slot IN
       /\ s \in Slots \ Legacy /\ gate[s] = p /\ marker[s] = NoBrief
       /\ post[p].step = "send" => owner[s] = NoBrief \/ s \in broken
       /\ post[p].step = "mark" =>
            /\ owner[s] = post[p].brief \/ s \in broken
            /\ owner[s] = NoBrief => post[p].brief = NoBrief

\* A slot without a marker has no message unless one was cut off.
SlotOK(s) ==
  /\ marker[s] # NoBrief => owner[s] # NoBrief /\ (s \notin broken => owner[s] = marker[s])
  /\ s \in Legacy => owner[s] = NoBrief
  /\ gate[s] = NoBrief /\ marker[s] = NoBrief => owner[s] = NoBrief \/ s \in broken
  /\ gate[s] # NoBrief => post[gate[s]].step # "idle" /\ post[gate[s]].slot = s

DeliveryInv ==
  /\ DOMAIN marker = Slots /\ DOMAIN owner = Slots /\ gate \in [Slots -> Posters \cup {NoBrief}]
  /\ DOMAIN post = Posters /\ post = [p \in Posters |-> post[p]]
  /\ marker = [s \in Slots |-> marker[s]] /\ owner = [s \in Slots |-> owner[s]]
  /\ \A p \in Posters : PostOK(p)
  /\ \A s \in Slots : SlotOK(s)

LEMMA DeliveryInitHolds == DeliveryInit => DeliveryInv
  <1> SUFFICES ASSUME DeliveryInit PROVE DeliveryInv
    OBVIOUS
  <1>1. \A s \in Slots : marker[s] = NoBrief /\ owner[s] = NoBrief /\ gate[s] = NoBrief
    BY DEF DeliveryInit
  <1>2. \A p \in Posters : post[p] = IdlePost
    BY DEF DeliveryInit
  <1>3. \A p \in Posters : PostOK(p)
    BY <1>2 DEF PostOK, IdlePost
  <1>4. \A s \in Slots : SlotOK(s)
    BY <1>1 DEF SlotOK
  <1> QED BY <1>3, <1>4 DEF DeliveryInit, DeliveryInv

\* Publication p goes to x and its slot s to marker m, message w and lock g.
LEMMA PostMoves ==
  ASSUME DeliveryInv, NEW p \in Posters, NEW x, post' = [post EXCEPT ![p] = x],
         NEW s \in Slots, gate[s] \in {p, NoBrief}, post[p].step # "idle" => post[p].slot = s,
         NEW m, marker' = [marker EXCEPT ![s] = m], NEW w, owner' = [owner EXCEPT ![s] = w],
         gate' \in [Slots -> Posters \cup {NoBrief}], \A t \in Slots \ {s} : gate'[t] = gate[t],
         broken \subseteq broken', broken' \subseteq broken \cup {s},
         PostOK(p)', SlotOK(s)'
  PROVE  DeliveryInv'
  <1>1. /\ DOMAIN post' = Posters /\ post' = [q \in Posters |-> post'[q]] /\ post'[p] = x
        /\ \A q \in Posters \ {p} : post'[q] = post[q]
    BY DEF DeliveryInv
  <1>2. /\ DOMAIN marker' = Slots /\ marker' = [t \in Slots |-> marker'[t]] /\ marker'[s] = m
        /\ \A t \in Slots \ {s} : marker'[t] = marker[t]
    BY DEF DeliveryInv
  <1>3. /\ DOMAIN owner' = Slots /\ owner' = [t \in Slots |-> owner'[t]] /\ owner'[s] = w
        /\ \A t \in Slots \ {s} : owner'[t] = owner[t]
    BY DEF DeliveryInv
  <1>4. NoBrief \notin Posters
    BY DeliveryAssumption DEF DeliveryAssumption
  <1>5. ASSUME NEW q \in Posters \ {p} PROVE PostOK(q)'
    <2>1. PostOK(q)
      BY DEF DeliveryInv
    <2>2. post[q].step # "idle" => post[q].slot \in Slots \ {s}
      BY <1>4, <2>1 DEF PostOK
    <2> QED BY <1>1, <1>2, <1>3, <2>1, <2>2 DEF PostOK
  <1>6. ASSUME NEW t \in Slots \ {s} PROVE SlotOK(t)'
    <2>1. SlotOK(t) /\ gate[t] \in Posters \cup {NoBrief}
      BY DEF DeliveryInv
    <2>2. gate[t] # p
      BY <1>4, <2>1 DEF SlotOK
    <2> QED BY <1>1, <1>2, <1>3, <2>1, <2>2 DEF SlotOK
  <1> QED BY <1>1, <1>2, <1>3, <1>5, <1>6 DEF DeliveryInv

LEMMA DeliveryFacts ==
  ASSUME DeliveryInv, NEW p \in Posters
  PROVE  /\ PostOK(p) /\ p # NoBrief
         /\ \A s \in Slots : SlotOK(s) /\ marker = [marker EXCEPT ![s] = marker[s]]
                             /\ owner = [owner EXCEPT ![s] = owner[s]]
         /\ DOMAIN marker = Slots /\ DOMAIN owner = Slots /\ DOMAIN post = Posters
         /\ gate \in [Slots -> Posters \cup {NoBrief}]
  BY DeliveryAssumption DEF DeliveryInv, DeliveryAssumption

LEMMA PublishKeeps ==
  ASSUME DeliveryInv, NEW p \in Posters, NEW s \in Slots, NEW b, PublishBrief(p, s, b)
  PROVE  DeliveryInv'
  <1> DEFINE x == [step |-> "send", slot |-> s, brief |-> b]
  <1>1. x.step = "send" /\ x.slot = s /\ x.brief = b /\ x = [step |-> x.step, slot |-> x.slot, brief |-> x.brief]
    OBVIOUS
  <1>2. /\ post' = [post EXCEPT ![p] = x] /\ gate' = [gate EXCEPT ![s] = p] /\ gate[s] = NoBrief
        /\ marker[s] = NoBrief /\ s \notin Legacy /\ post[p].step = "idle" /\ UNCHANGED <<marker, owner, broken>>
    BY DEF PublishBrief, GateOpen, AlreadyMarked
  <1> HIDE DEF x
  <1>3. post'[p] = x /\ gate'[s] = p /\ (\A t \in Slots \ {s} : gate'[t] = gate[t])
        /\ gate' \in [Slots -> Posters \cup {NoBrief}]
    BY <1>2, DeliveryFacts
  <1>4. owner[s] = NoBrief \/ s \in broken
    BY <1>2, DeliveryFacts DEF SlotOK
  <1>5. PostOK(p)'
    BY <1>1, <1>2, <1>3, <1>4 DEF PostOK
  <1>6. SlotOK(s)'
    BY <1>1, <1>2, <1>3, DeliveryFacts DEF SlotOK
  <1>7. marker' = [marker EXCEPT ![s] = marker[s]] /\ owner' = [owner EXCEPT ![s] = owner[s]]
    BY <1>2, DeliveryFacts
  <1> QED BY <1>2, <1>3, <1>5, <1>6, <1>7, PostMoves

LEMMA PostStepKeeps ==
  ASSUME DeliveryInv, NEW p \in Posters, PostStep(p)
  PROVE  DeliveryInv'
  <1>01. PICK s \in Slots : s = post[p].slot
    BY DeliveryFacts DEF PostStep, Send, SendFails, WriteMarker, KillPoster, PostOK
  <1>02. PICK b : b = post[p].brief
    OBVIOUS
  <1>1. /\ post[p].slot = s /\ post[p].brief = b /\ post[p].step \in {"send", "mark"} /\ gate[s] = p /\ s \notin Legacy
        /\ marker[s] = NoBrief /\ p # NoBrief
        /\ post[p].step = "send" => owner[s] = NoBrief \/ s \in broken
        /\ post[p].step = "mark" => (owner[s] = b \/ s \in broken) /\ (owner[s] = NoBrief => b = NoBrief)
        /\ post[p] = [step |-> post[p].step, slot |-> s, brief |-> b]
    BY <1>01, <1>02, DeliveryFacts DEF PostStep, Send, SendFails, WriteMarker, KillPoster, PostOK
  <1>2. CASE Send(p)
    <2> DEFINE x == [post[p] EXCEPT !.step = "mark"]
               w == Received(owner[s], b)
    <2>1. x = [step |-> "mark", slot |-> s, brief |-> b]
      BY <1>1
    <2>2. x.step = "mark" /\ x.slot = s /\ x.brief = b /\ x = [step |-> x.step, slot |-> x.slot, brief |-> x.brief]
      BY <2>1
    <2>3. /\ post' = [post EXCEPT ![p] = x] /\ owner' = [owner EXCEPT ![s] = w] /\ UNCHANGED <<marker, gate, broken>>
          /\ post[p].step = "send"
      BY <1>1, <1>2, DeliveryFacts DEF Send
    <2>4. w = IF owner[s] = NoBrief THEN b ELSE owner[s]
      BY DEF Received
    <2> HIDE DEF x, w
    <2>5. post'[p] = x /\ owner'[s] = w
      BY <2>3, DeliveryFacts
    <2>6. PostOK(p)'
      BY <1>1, <2>2, <2>3, <2>4, <2>5 DEF PostOK
    <2>7. SlotOK(s)'
      BY <1>1, <2>2, <2>3, <2>4, <2>5 DEF SlotOK
    <2>8. marker' = [marker EXCEPT ![s] = marker[s]]
      BY <2>3, DeliveryFacts
    <2> QED BY <1>1, <2>3, <2>6, <2>7, <2>8, DeliveryFacts, PostMoves
  <1>3. ASSUME EndPost(p), NEW m, marker' = [marker EXCEPT ![s] = m], NEW w, owner' = [owner EXCEPT ![s] = w],
               broken \subseteq broken', broken' \subseteq broken \cup {s},
               m # NoBrief => w # NoBrief /\ (s \notin broken' => w = m),
               m = NoBrief => w = NoBrief \/ s \in broken'
        PROVE  DeliveryInv'
    <2>1. post' = [post EXCEPT ![p] = IdlePost] /\ post'[p] = IdlePost
      BY <1>3, DeliveryFacts DEF EndPost
    <2>2. /\ gate' \in [Slots -> Posters \cup {NoBrief}] /\ gate'[s] = NoBrief
          /\ \A t \in Slots \ {s} : gate'[t] = gate[t]
      <3>1. \A t \in Slots \ {s} : gate[t] # p
        BY <1>1, DeliveryFacts DEF SlotOK
      <3>2. gate' = [t \in Slots |-> IF gate[t] = p THEN NoBrief ELSE gate[t]]
        BY <1>3 DEF EndPost
      <3> QED BY <1>1, <3>1, <3>2, DeliveryFacts
    <2>3. PostOK(p)'
      BY <2>1 DEF PostOK, IdlePost
    <2>4. marker'[s] = m /\ owner'[s] = w
      BY <1>3, DeliveryFacts
    <2>5. SlotOK(s)'
      BY <1>1, <1>3, <2>2, <2>4 DEF SlotOK
    <2> QED BY <1>1, <1>3, <2>1, <2>2, <2>3, <2>5, PostMoves
  <1>4. ASSUME NEW arrived \in BOOLEAN, SendFails(p, arrived) PROVE DeliveryInv'
    <2>1. CASE arrived
      <3> DEFINE w == Received(owner[s], b)
      <3>1. /\ owner' = [owner EXCEPT ![s] = w] /\ broken' = broken \cup {s}
            /\ marker' = [marker EXCEPT ![s] = NoBrief] /\ EndPost(p)
        BY <1>1, <1>4, <2>1, DeliveryFacts DEF SendFails
      <3> HIDE DEF w
      <3> QED BY <1>3, <3>1
    <2>2. CASE ~arrived
      <3>1. /\ owner' = [owner EXCEPT ![s] = owner[s]] /\ broken' = broken
            /\ marker' = [marker EXCEPT ![s] = NoBrief] /\ EndPost(p) /\ post[p].step = "send"
        BY <1>1, <1>4, <2>2, DeliveryFacts DEF SendFails
      <3> QED BY <1>1, <1>3, <3>1
    <2> QED BY <2>1, <2>2
  <1>5. ASSUME WriteMarker(p) PROVE DeliveryInv'
    <2>1. /\ owner' = [owner EXCEPT ![s] = owner[s]] /\ broken' = broken
          /\ marker' = [marker EXCEPT ![s] = b] /\ EndPost(p) /\ post[p].step = "mark"
      BY <1>1, <1>5, DeliveryFacts DEF WriteMarker
    <2> QED BY <1>1, <1>3, <2>1
  <1>6. ASSUME KillPoster(p) PROVE DeliveryInv'
    <2>1. /\ owner' = [owner EXCEPT ![s] = owner[s]] /\ marker' = [marker EXCEPT ![s] = NoBrief] /\ EndPost(p)
          /\ broken' = IF post[p].step = "mark" THEN broken \cup {s} ELSE broken
      BY <1>1, <1>6, DeliveryFacts DEF KillPoster
    <2> QED BY <1>1, <1>3, <2>1
  <1> QED BY <1>2, <1>4, <1>5, <1>6 DEF PostStep

LEMMA DeliveryStands == DeliveryInv /\ UNCHANGED deliveryVars => DeliveryInv'
  <1> SUFFICES ASSUME DeliveryInv, UNCHANGED <<marker, owner, gate, post, broken>> PROVE DeliveryInv'
    BY DEF deliveryVars
  <1>1. \A p \in Posters : PostOK(p)'
    BY DEF DeliveryInv, PostOK
  <1>2. \A s \in Slots : SlotOK(s)'
    BY DEF DeliveryInv, SlotOK
  <1> QED BY <1>1, <1>2 DEF DeliveryInv

\* However publications overlap, fail, are killed or repeated, a marker says what the owner
\* has (publish_premarket_brief, publish_daily_brief).
THEOREM MarkersAreTrue == DeliverySpec => []MarkedIsDelivered
  <1>1. DeliveryInv => MarkedIsDelivered
    <2> SUFFICES ASSUME DeliveryInv PROVE MarkedIsDelivered
      OBVIOUS
    <2>1. \A s \in Legacy : s \in Slots
      BY DeliveryAssumption DEF DeliveryAssumption
    <2> QED BY <2>1 DEF DeliveryInv, SlotOK, MarkedIsDelivered
  <1>2. DeliveryInv /\ [\E p \in Posters : PostStep(p) \/ \E s \in Slots : \E b : PublishBrief(p, s, b)]_deliveryVars
            => DeliveryInv'
    BY PostStepKeeps, PublishKeeps, DeliveryStands
  <1> QED BY <1>1, <1>2, DeliveryInitHolds, PTL DEF DeliverySpec

-----------------------------------------------------------------------------
(* Pre-market forecasts: Premarket.                                        *)

Finalizing == {"check_forecast", "forecast", "check_receipt", "receipt", "check_answer"}
Evaluating == {"outcome", "evaluation"}
Locking == Finalizing \cup Evaluating
OpSteps == Locking \cup {"idle", "input", "evaluate"}

JobState == [input : 0..LastTime \cup {Absent, Empty}, drafts : DraftFile \cup {Absent},
             forecast : ForecastFile \cup {Absent}, receipt : ReceiptFile \cup {Absent},
             outcome : OutcomeFile \cup {Absent}, evaluation : EvaluationFile \cup {Absent}]
OpState == [step : OpSteps, job : Jobs \cup {Absent}, at : 0..LastTime, drafts : DraftFile \cup {Absent},
            forecast : ForecastFile \cup {Absent}, outcome : OutcomeFile \cup {Absent}]
AnswerState == [forecast : ForecastFile, drafts : DraftFile, at : 0..LastTime]

InWindow(j, f) == f.job = j /\ DecisionTime(j) <= f.at /\ f.at < Deadline(j)

\* The files of job j are one chain.
FilesOK(j) ==
  LET r == job[j] IN
  /\ r.drafts # Absent => r.drafts.at <= now /\ r.input # Absent
  /\ r.forecast # Absent => InWindow(j, r.forecast) /\ r.input # Absent
  /\ r.receipt # Absent => r.forecast # Absent /\ r.receipt = Receipt(r.forecast)
  /\ r.outcome # Absent => r.receipt # Absent /\ r.outcome.forecast = r.forecast
  /\ r.evaluation # Absent =>
       /\ r.outcome # Absent /\ Evaluable(r.forecast, r.outcome, r.evaluation.at)
       /\ r.evaluation = Evaluated(r.forecast, r.outcome, r.evaluation.at)

\* What a command o relies on while it holds the lock of its job.
OpOK(o) ==
  LET c == op[o]
      r == job[op[o].job] IN
  /\ c.step # "idle" => c.job \in Jobs
  /\ c.step \in {"input"} \cup Finalizing => r.input # Absent
  /\ c.step \in Locking => lock[c.job] = o /\ c.forecast \in ForecastFile
  /\ c.step \in Finalizing =>
       InWindow(c.job, c.forecast) /\ c.drafts \in DraftFile /\ Reproduces(c.job, c.forecast, c.drafts)
  /\ c.step \in {"check_forecast", "forecast"} => r.forecast = Absent /\ r.receipt = Absent
  /\ c.step \in {"check_receipt", "receipt"} => r.forecast = c.forecast /\ r.receipt = Absent
  /\ c.step \in {"check_answer"} \cup Evaluating => r.forecast = c.forecast /\ r.receipt = Receipt(c.forecast)
  /\ c.step \in {"evaluate"} \cup Evaluating => c.outcome \in OutcomeFile
  /\ c.step \in Evaluating => r.evaluation = Absent /\ Evaluable(c.forecast, c.outcome, c.at)
  /\ c.step = "outcome" => r.outcome \in {Absent, c.outcome}
  /\ c.step = "evaluation" => r.outcome = c.outcome

LockOK(j) == lock[j] # Absent => op[lock[j]].job = j /\ op[lock[j]].step \in Locking

AnswerOK(a) ==
  LET j == a.forecast.job IN
  /\ a.at < Deadline(j) /\ job[j].forecast = a.forecast /\ job[j].receipt = Receipt(a.forecast)
  /\ Finalized(j, a.drafts, a.forecast.at) = a.forecast

PremarketInv ==
  /\ now \in 0..LastTime /\ job \in [Jobs -> JobState] /\ op \in [Operators -> OpState]
  /\ lock \in [Jobs -> Operators \cup {Absent}] /\ answered \subseteq AnswerState
  /\ \A j \in Jobs : FilesOK(j) /\ LockOK(j)
  /\ \A o \in Operators : OpOK(o)
  /\ \A a \in answered : AnswerOK(a)

LEMMA PremarketInitHolds == PremarketInit => PremarketInv
  <1> SUFFICES ASSUME PremarketInit PROVE PremarketInv
    OBVIOUS
  <1>1. /\ NoJob \in JobState /\ NoJob.drafts = Absent /\ NoJob.forecast = Absent /\ NoJob.receipt = Absent
        /\ NoJob.outcome = Absent /\ NoJob.evaluation = Absent
    BY DEF NoJob, JobState
  <1>2. LastTime \in Nat
    BY PremarketAssumption DEF PremarketAssumption
  <1>3. IdleOp \in OpState /\ IdleOp.step = "idle"
    BY <1>2 DEF IdleOp, OpState, OpSteps
  <1>4. \A j \in Jobs : job[j] = NoJob /\ lock[j] = Absent
    BY DEF PremarketInit
  <1>5. \A o \in Operators : op[o] = IdleOp
    BY DEF PremarketInit
  <1>6. \A j \in Jobs : FilesOK(j) /\ LockOK(j)
    BY <1>1, <1>4 DEF FilesOK, LockOK
  <1>7. \A o \in Operators : OpOK(o)
    BY <1>3, <1>5 DEF OpOK, Locking, Finalizing, Evaluating
  <1> QED BY <1>1, <1>2, <1>3, <1>6, <1>7 DEF PremarketInit, PremarketInv

LEMMA PremarketFacts ==
  ASSUME PremarketInv
  PROVE  /\ now \in Nat /\ now \in 0..LastTime /\ LastTime \in Nat
         /\ job \in [Jobs -> JobState] /\ op \in [Operators -> OpState]
         /\ lock \in [Jobs -> Operators \cup {Absent}] /\ answered \subseteq AnswerState
         /\ \A j \in Jobs :
              /\ job[j] \in JobState /\ FilesOK(j) /\ LockOK(j) /\ Session[j] \in Nat
              /\ job[j].input \in 0..LastTime \cup {Absent, Empty} /\ job[j].drafts \in DraftFile \cup {Absent}
              /\ job[j].forecast \in ForecastFile \cup {Absent} /\ job[j].receipt \in ReceiptFile \cup {Absent}
              /\ job[j].outcome \in OutcomeFile \cup {Absent}
              /\ job[j].evaluation \in EvaluationFile \cup {Absent}
         /\ \A o \in Operators :
              /\ op[o] \in OpState /\ OpOK(o) /\ op[o].step \in OpSteps /\ op[o].job \in Jobs \cup {Absent}
              /\ op[o].at \in 0..LastTime /\ op[o].drafts \in DraftFile \cup {Absent}
              /\ op[o].forecast \in ForecastFile \cup {Absent} /\ op[o].outcome \in OutcomeFile \cup {Absent}
              /\ o # Absent
         /\ \A a \in answered : AnswerOK(a)
         /\ IdleOp \in OpState /\ IdleOp.step = "idle"
  <1>1. LastTime \in Nat /\ \A j \in Jobs : Session[j] \in Nat
    BY PremarketAssumption DEF PremarketAssumption
  <1>2. IdleOp \in OpState /\ IdleOp.step = "idle"
    BY <1>1 DEF IdleOp, OpState, OpSteps
  <1>3. ASSUME NEW j \in Jobs
        PROVE  /\ job[j] \in JobState /\ FilesOK(j) /\ LockOK(j)
               /\ job[j].input \in 0..LastTime \cup {Absent, Empty} /\ job[j].drafts \in DraftFile \cup {Absent}
               /\ job[j].forecast \in ForecastFile \cup {Absent} /\ job[j].receipt \in ReceiptFile \cup {Absent}
               /\ job[j].outcome \in OutcomeFile \cup {Absent}
               /\ job[j].evaluation \in EvaluationFile \cup {Absent}
    BY DEF PremarketInv, JobState
  <1>4. ASSUME NEW o \in Operators
        PROVE  /\ op[o] \in OpState /\ OpOK(o) /\ op[o].step \in OpSteps /\ op[o].job \in Jobs \cup {Absent}
               /\ op[o].at \in 0..LastTime /\ op[o].drafts \in DraftFile \cup {Absent}
               /\ op[o].forecast \in ForecastFile \cup {Absent} /\ op[o].outcome \in OutcomeFile \cup {Absent}
               /\ o # Absent
    BY NoFileIsNoContent DEF PremarketInv, OpState, NoFileIsNoContent
  <1> QED BY <1>1, <1>2, <1>3, <1>4 DEF PremarketInv

SameSealed(j) ==
  /\ job'[j].forecast = job[j].forecast /\ job'[j].receipt = job[j].receipt
  /\ job'[j].outcome = job[j].outcome /\ job'[j].evaluation = job[j].evaluation

\* A step of command o: it takes or frees no lock but its own, and the sealed files of a
\* job whose lock it does not hold stand.
LEMMA OpStepKeeps ==
  ASSUME PremarketInv, NEW o \in Operators, NEW c \in OpState, op' = [op EXCEPT ![o] = c], now' = now,
         job' \in [Jobs -> JobState], lock' \in [Jobs -> Operators \cup {Absent}],
         \A j \in Jobs : job[j].input # Absent => job'[j].input # Absent,
         \A j \in Jobs : lock[j] # o => SameSealed(j),
         \A j \in Jobs : \/ lock'[j] = lock[j]
                         \/ lock[j] = o /\ lock'[j] = Absent
                         \/ lock[j] = Absent /\ lock'[j] = o,
         \A j \in Jobs : lock'[j] = o => c.job = j /\ c.step \in Locking,
         OpOK(o)', \A j \in Jobs : FilesOK(j)', answered' \subseteq AnswerState, \A a \in answered' : AnswerOK(a)'
  PROVE  PremarketInv'
  <1>1. op' \in [Operators -> OpState] /\ op'[o] = c /\ \A p \in Operators \ {o} : op'[p] = op[p]
    BY PremarketFacts
  <1>2. ASSUME NEW p \in Operators \ {o} PROVE OpOK(p)'
    <2>1. OpOK(p) /\ op'[p] = op[p] /\ p # Absent
      BY <1>1, PremarketFacts
    <2>2. op[p].step # "idle" => op[p].job \in Jobs
      BY <2>1 DEF OpOK
    <2>3. op[p].step \in Locking => lock[op[p].job] = p /\ lock'[op[p].job] = p /\ SameSealed(op[p].job)
      <3>1. CASE op[p].step \in Locking
        <4>1. op[p].job \in Jobs /\ lock[op[p].job] = p
          BY <2>1, <3>1 DEF OpOK, Locking, Finalizing, Evaluating
        <4> QED BY <2>1, <4>1
      <3> QED BY <3>1
    <2>4. op[p].step # "idle" /\ job[op[p].job].input # Absent => job'[op[p].job].input # Absent
      BY <2>2
    <2> QED BY <2>1, <2>2, <2>3, <2>4 DEF OpOK, SameSealed, Locking, Finalizing, Evaluating
  <1>3. ASSUME NEW j \in Jobs PROVE LockOK(j)'
    <2>1. LockOK(j) /\ lock[j] \in Operators \cup {Absent}
      BY PremarketFacts
    <2> QED BY <1>1, <2>1 DEF LockOK
  <1> QED BY <1>1, <1>2, <1>3 DEF PremarketInv

\* A command that moves while the files stand.
LEMMA OpMoves ==
  ASSUME PremarketInv, NEW o \in Operators, NEW c \in OpState, op' = [op EXCEPT ![o] = c],
         UNCHANGED <<now, job, answered>>, lock' \in [Jobs -> Operators \cup {Absent}],
         \A j \in Jobs : \/ lock'[j] = lock[j]
                         \/ lock[j] = o /\ lock'[j] = Absent
                         \/ lock[j] = Absent /\ lock'[j] = o,
         \A j \in Jobs : lock'[j] = o => c.job = j /\ c.step \in Locking,
         OpOK(o)'
  PROVE  PremarketInv'
  <1>1. \A j \in Jobs : FilesOK(j)' /\ SameSealed(j)
    BY PremarketFacts DEF FilesOK, SameSealed
  <1>2. \A a \in answered' : AnswerOK(a)'
    BY PremarketFacts DEF AnswerOK
  <1> QED BY <1>1, <1>2, PremarketFacts, OpStepKeeps

\* The locks that command o holds.
LEMMA OwnLock ==
  ASSUME PremarketInv, NEW o \in Operators
  PROVE  /\ \A j \in Jobs : lock[j] = o => op[o].job = j /\ op[o].step \in Locking
         /\ op[o].step \in Locking => op[o].job \in Jobs /\ lock[op[o].job] = o
  <1>1. \A j \in Jobs : LockOK(j)
    BY PremarketFacts
  <1>2. OpOK(o) /\ o # Absent
    BY PremarketFacts
  <1> QED BY <1>1, <1>2 DEF LockOK, OpOK, Locking, Finalizing, Evaluating

\* Command o ends and frees its lock, or had none.
LEMMA EndsKeeps ==
  ASSUME PremarketInv, NEW o \in Operators, Idle(o), UNCHANGED <<now, job, answered>>,
         \/ op[o].step \notin Locking /\ lock' = lock
         \/ op[o].step \in Locking /\ Release(o)
         \/ lock' = [j \in Jobs |-> IF lock[j] = o THEN Absent ELSE lock[j]]
  PROVE  PremarketInv'
  <1>1. op' = [op EXCEPT ![o] = IdleOp] /\ op'[o] = IdleOp /\ IdleOp \in OpState /\ IdleOp.step = "idle"
    BY PremarketFacts DEF Idle
  <1>2. OpOK(o)'
    BY <1>1 DEF OpOK, Locking, Finalizing, Evaluating
  <1>3. /\ lock' \in [Jobs -> Operators \cup {Absent}]
        /\ \A j \in Jobs : lock'[j] # o /\ (lock'[j] = lock[j] \/ (lock[j] = o /\ lock'[j] = Absent))
    BY PremarketFacts, OwnLock DEF Release
  <1> QED BY <1>1, <1>2, <1>3, OpMoves

\* Command o goes on to the next step with its lock as it is.
LEMMA GoesOn ==
  ASSUME PremarketInv, NEW o \in Operators, NEW step \in OpSteps, Goto(o, step)
  PROVE  \E c \in OpState :
           /\ op' = [op EXCEPT ![o] = c] /\ op'[o] = c /\ c.step = step /\ c.job = op[o].job /\ c.at = op[o].at
           /\ c.drafts = op[o].drafts /\ c.forecast = op[o].forecast /\ c.outcome = op[o].outcome
  <1> DEFINE c == [op[o] EXCEPT !.step = step]
  <1>1. /\ c \in OpState /\ c.step = step /\ c.job = op[o].job /\ c.at = op[o].at
        /\ c.drafts = op[o].drafts /\ c.forecast = op[o].forecast /\ c.outcome = op[o].outcome
    BY PremarketFacts DEF OpState
  <1>2. op' = [op EXCEPT ![o] = c]
    BY DEF Goto
  <1> HIDE DEF c
  <1>3. op'[o] = c
    BY <1>2, PremarketFacts
  <1> QED BY <1>1, <1>2, <1>3

LEMMA CheckWindowKeeps ==
  ASSUME PremarketInv, NEW o \in Operators, CheckWindow(o)
  PROVE  PremarketInv'
  <1>1. op[o].step \in {"check_forecast", "check_receipt"} /\ op[o].step \in Locking /\ UNCHANGED <<now, job, answered>>
    BY DEF CheckWindow, Locking, Finalizing
  <1>2. CASE ~WindowOpen(op[o].job)
    BY <1>1, <1>2, EndsKeeps DEF CheckWindow
  <1>3. CASE WindowOpen(op[o].job)
    <2> DEFINE step == IF At(o, "check_forecast") THEN "forecast" ELSE "receipt"
    <2>1. /\ Goto(o, step) /\ lock' = lock /\ step \in OpSteps
          /\ step = "forecast" <=> op[o].step = "check_forecast"
          /\ step \in {"forecast", "receipt"}
      BY <1>3 DEF CheckWindow, OpSteps, Locking, Finalizing, At
    <2> HIDE DEF step
    <2>2. PICK c \in OpState :
           /\ op' = [op EXCEPT ![o] = c] /\ op'[o] = c /\ c.step = step /\ c.job = op[o].job /\ c.at = op[o].at
           /\ c.drafts = op[o].drafts /\ c.forecast = op[o].forecast /\ c.outcome = op[o].outcome
      BY <2>1, GoesOn
    <2>3. OpOK(o)'
      BY <1>1, <2>1, <2>2, PremarketFacts DEF OpOK, Locking, Finalizing, Evaluating
    <2>4. \A j \in Jobs : lock[j] = o => c.job = j /\ c.step \in Locking
      BY <2>1, <2>2, OwnLock DEF Locking, Finalizing
    <2> QED BY <1>1, <2>1, <2>2, <2>3, <2>4, OpMoves, PremarketFacts
  <1> QED BY <1>2, <1>3

LEMMA FinalizeReadKeeps ==
  ASSUME PremarketInv, NEW o \in Operators, NEW j \in Jobs, FinalizeRead(o, j)
  PROVE  PremarketInv'
  <1>0. PICK d, f, r : d = job[j].drafts /\ f = job[j].forecast /\ r = job[j].receipt
    OBVIOUS
  <1>1. /\ d \in DraftFile /\ f \in ForecastFile \cup {Absent} /\ job[j].input # Absent
        /\ Acceptable(j, d, now) /\ op[o].step = "idle" /\ lock[j] = Absent
        /\ ~(r # Absent /\ f = Absent)
        /\ f # Absent => Reproduces(j, f, d) /\ InWindow(j, f)
        /\ f # Absent /\ r # Absent => r = Receipt(f)
        /\ lock' = [lock EXCEPT ![j] = o] /\ UNCHANGED <<now, job, answered>>
    BY <1>0, PremarketFacts DEF FinalizeRead, At, Prepared, FilesOK
  <1> DEFINE new == Finalized(j, d, now)
             g == IF f = Absent THEN new ELSE f
             step == CASE f = Absent -> "check_forecast"
                       [] f # Absent /\ r = Absent -> "check_receipt"
                       [] OTHER -> "check_answer"
             c == [IdleOp EXCEPT !.job = j, !.at = now, !.drafts = d, !.forecast = g, !.step = step]
  <1>2. op' = [op EXCEPT ![o] = c]
    BY <1>0 DEF FinalizeRead
  <1>3. new \in ForecastFile /\ new.job = j /\ new.at = now /\ Reproduces(j, new, d) /\ InWindow(j, new)
    <2>1. MaxLabels(Blend(Content[d.text])) # {}
      BY <1>1, FS_EmptySet DEF Acceptable, Decided
    <2>2. (CHOOSE l \in MaxLabels(Blend(Content[d.text])) : TRUE) \in Labels
      BY <2>1 DEF MaxLabels
    <2>3. new \in ForecastFile /\ new.job = j /\ new.at = now
      BY <1>1, <2>2, PremarketFacts DEF Finalized, ForecastFile
    <2>4. Acceptable(j, d, new.at) /\ Finalized(j, d, new.at) = new
      BY <1>1, <2>3
    <2> QED BY <1>1, <2>3, <2>4 DEF Reproduces, InWindow, Acceptable, BindsHandoff
  <1> HIDE DEF new
  <1>4. g \in ForecastFile /\ Reproduces(j, g, d) /\ InWindow(j, g) /\ (f # Absent => g = f)
    BY <1>1, <1>3
  <1>5. /\ step \in Finalizing /\ (step = "check_forecast" <=> f = Absent)
        /\ step = "check_receipt" <=> f # Absent /\ r = Absent
        /\ step \in {"check_forecast", "check_receipt", "check_answer"}
    BY <1>1 DEF Finalizing
  <1> HIDE DEF step, g
  <1>6. c \in OpState /\ c.step = step /\ c.job = j /\ c.drafts = d /\ c.forecast = g
    <2>1. /\ IdleOp.outcome = Absent /\ now \in 0..LastTime /\ step \in OpSteps
          /\ j \in Jobs \cup {Absent} /\ d \in DraftFile \cup {Absent} /\ g \in ForecastFile \cup {Absent}
      BY <1>1, <1>4, <1>5, PremarketFacts DEF IdleOp, OpSteps, Locking
    <2>2. c \in [step : {step}, job : {j}, at : {now}, drafts : {d}, forecast : {g}, outcome : {Absent}]
      BY <2>1 DEF IdleOp
    <2> HIDE DEF c
    <2> QED BY <2>1, <2>2 DEF OpState
  <1> HIDE DEF c
  <1>7. op'[o] = c /\ lock'[j] = o /\ lock' \in [Jobs -> Operators \cup {Absent}]
        /\ \A k \in Jobs \ {j} : lock'[k] = lock[k]
    BY <1>1, <1>2, PremarketFacts
  <1>8. OpOK(o)'
    BY <1>0, <1>1, <1>4, <1>5, <1>6, <1>7 DEF OpOK, Locking, Finalizing, Evaluating
  <1>9. \A k \in Jobs : lock[k] # o
    BY <1>1, OwnLock DEF Locking, Finalizing, Evaluating
  <1> QED BY <1>1, <1>2, <1>5, <1>6, <1>7, <1>8, <1>9, OpMoves DEF Locking

LEMMA EvaluateReadsKeep ==
  ASSUME PremarketInv, NEW o \in Operators,
         EvaluateRead(o) \/ \E j \in Jobs, x \in OutcomeFile : EvaluateStart(o, j, x)
  PROVE  PremarketInv'
  <1>1. ASSUME NEW j \in Jobs, NEW x \in OutcomeFile, EvaluateStart(o, j, x) PROVE PremarketInv'
    <2> DEFINE c == [IdleOp EXCEPT !.step = "evaluate", !.job = j, !.at = now, !.outcome = x]
    <2>1. c \in OpState /\ c.step = "evaluate" /\ c.job = j /\ c.outcome = x
      BY PremarketFacts DEF OpState, IdleOp, OpSteps
    <2>2. op' = [op EXCEPT ![o] = c] /\ op[o].step = "idle" /\ UNCHANGED <<now, job, lock, answered>>
      BY <1>1 DEF EvaluateStart, At
    <2> HIDE DEF c
    <2>3. op'[o] = c
      BY <2>2, PremarketFacts
    <2>4. OpOK(o)'
      BY <2>1, <2>3 DEF OpOK, Locking, Finalizing, Evaluating
    <2>5. \A k \in Jobs : lock[k] # o
      BY <2>2, OwnLock DEF Locking, Finalizing, Evaluating
    <2> QED BY <2>1, <2>2, <2>4, <2>5, OpMoves, PremarketFacts
  <1>2. ASSUME EvaluateRead(o) PROVE PremarketInv'
    <2>0. PICK j \in Jobs : j = op[o].job
      BY <1>2, PremarketFacts DEF EvaluateRead, At, OpOK
    <2> DEFINE x == IF job[j].outcome # Absent THEN job[j].outcome ELSE op[o].outcome
               goes == /\ Completed(j) /\ x = op[o].outcome /\ job[j].evaluation = Absent
                       /\ Evaluable(job[j].forecast, x, op[o].at)
    <2>1. /\ op[o].step = "evaluate" /\ op[o].step \notin Locking /\ lock[j] = Absent /\ op[o].job = j
          /\ op[o].outcome \in OutcomeFile /\ UNCHANGED <<now, job, answered>>
      BY <1>2, <2>0, PremarketFacts DEF EvaluateRead, At, OpOK, Locking, Finalizing, Evaluating
    <2>2. CASE ~goes
      BY <1>2, <2>0, <2>1, <2>2, EndsKeeps DEF EvaluateRead
    <2>3. CASE goes
      <3> DEFINE c == [op[o] EXCEPT !.step = "outcome", !.forecast = job[j].forecast]
      <3>1. /\ op' = [op EXCEPT ![o].step = "outcome", ![o].forecast = job[j].forecast]
            /\ lock' = [lock EXCEPT ![j] = o]
        BY <1>2, <2>0, <2>3 DEF EvaluateRead
      <3>2. op' = [op EXCEPT ![o] = c]
        BY <3>1, PremarketFacts
      <3>3. job[j].forecast \in ForecastFile /\ job[j].receipt = Receipt(job[j].forecast)
        BY <2>3, PremarketFacts DEF Completed
      <3> HIDE DEF x, goes
      <3>4. /\ c \in OpState /\ c.step = "outcome" /\ c.job = j /\ c.outcome = op[o].outcome /\ c.at = op[o].at
            /\ c.forecast = job[j].forecast
        <4>1. PICK f \in ForecastFile, y \in OpState : f = job[j].forecast /\ y = op[o]
          BY <3>3, PremarketFacts
        <4>2. "outcome" \in OpSteps
          BY DEF OpSteps, Locking, Evaluating
        <4>3. [y EXCEPT !.step = "outcome", !.forecast = f] \in OpState
          BY <4>2 DEF OpState
        <4> QED BY <2>1, <4>1, <4>3 DEF OpState
      <3> HIDE DEF c
      <3>5. op'[o] = c /\ lock'[j] = o /\ lock' \in [Jobs -> Operators \cup {Absent}]
            /\ \A k \in Jobs \ {j} : lock'[k] = lock[k]
        BY <3>1, <3>2, PremarketFacts
      <3>6. OpOK(o)'
        BY <2>1, <2>3, <3>3, <3>4, <3>5 DEF OpOK, Locking, Finalizing, Evaluating, x, goes
      <3>7. \A k \in Jobs : lock[k] # o
        BY <2>1, OwnLock
      <3>8. c.step \in Locking
        BY <3>4 DEF Locking, Evaluating
      <3>9. \A k \in Jobs : /\ lock'[k] = lock[k] \/ (lock[k] = Absent /\ lock'[k] = o)
                            /\ lock'[k] = o => c.job = k
        BY <2>1, <3>4, <3>5, <3>7
      <3> QED BY <2>1, <3>2, <3>4, <3>5, <3>6, <3>8, <3>9, OpMoves
    <2> QED BY <2>2, <2>3
  <1> QED BY <1>1, <1>2

\* A write to the files of job j that keeps a sealed forecast keeps the answers.
LEMMA AnswersStay ==
  ASSUME PremarketInv, NEW j \in Jobs, NEW y \in JobState, job' = [job EXCEPT ![j] = y],
         job[j].receipt # Absent => y.forecast = job[j].forecast /\ y.receipt = job[j].receipt
  PROVE  /\ job' \in [Jobs -> JobState] /\ job'[j] = y /\ \A k \in Jobs \ {j} : job'[k] = job[k]
         /\ \A a \in answered : AnswerOK(a)'
  <1>1. job' \in [Jobs -> JobState] /\ job'[j] = y /\ \A k \in Jobs \ {j} : job'[k] = job[k]
    BY PremarketFacts
  <1>2. ASSUME NEW a \in answered PROVE AnswerOK(a)'
    <2>1. AnswerOK(a) /\ a.forecast \in ForecastFile /\ a.forecast.job \in Jobs
      BY PremarketFacts DEF AnswerState, ForecastFile
    <2>2. Receipt(a.forecast) # Absent
      <3>1. Receipt(a.forecast) \in ReceiptFile
        BY <2>1 DEF Receipt, ReceiptFile, ForecastFile
      <3> QED BY <3>1, NoFileIsNoContent DEF NoFileIsNoContent
    <2> QED BY <1>1, <2>1, <2>2 DEF AnswerOK
  <1> QED BY <1>1, <1>2

LEMMA WriteKeeps ==
  ASSUME PremarketInv, NEW o \in Operators, NEW c \in OpState, op' = [op EXCEPT ![o] = c],
         NEW j \in Jobs, NEW y \in JobState, job' = [job EXCEPT ![j] = y], UNCHANGED <<now, answered>>,
         job[j].input # Absent => y.input # Absent,
         lock[j] = o \/ (/\ y.forecast = job[j].forecast /\ y.receipt = job[j].receipt
                         /\ y.outcome = job[j].outcome /\ y.evaluation = job[j].evaluation),
         job[j].receipt # Absent => y.forecast = job[j].forecast /\ y.receipt = job[j].receipt,
         lock' \in [Jobs -> Operators \cup {Absent}],
         \A k \in Jobs : lock'[k] = lock[k] \/ (lock[k] = o /\ lock'[k] = Absent),
         \A k \in Jobs : lock'[k] = o => c.job = k /\ c.step \in Locking,
         OpOK(o)', FilesOK(j)'
  PROVE  PremarketInv'
  <1>1. /\ job' \in [Jobs -> JobState] /\ job'[j] = y /\ (\A k \in Jobs \ {j} : job'[k] = job[k])
        /\ \A a \in answered' : AnswerOK(a)'
    BY AnswersStay
  <1>2. \A k \in Jobs \ {j} : FilesOK(k)' /\ SameSealed(k)
    BY <1>1, PremarketFacts DEF FilesOK, SameSealed
  <1>3. lock[j] # o => SameSealed(j)
    BY <1>1 DEF SameSealed
  <1>4. answered' \subseteq AnswerState
    BY PremarketFacts
  <1>5. \A k \in Jobs : FilesOK(k)' /\ (lock[k] # o => SameSealed(k))
                        /\ (job[k].input # Absent => job'[k].input # Absent)
    BY <1>1, <1>2, <1>3
  <1> QED BY <1>1, <1>4, <1>5, OpStepKeeps

LEMMA PrepareKeeps ==
  ASSUME PremarketInv, NEW o \in Operators, PrepareInput(o) \/ \E j \in Jobs : PrepareMkdir(o, j)
  PROVE  PremarketInv'
  <1>1. ASSUME NEW j \in Jobs, NEW v \in 0..LastTime \cup {Empty}, NEW c \in OpState, op' = [op EXCEPT ![o] = c],
               Write(j, "input", v), UNCHANGED <<now, lock, answered>>, op[o].step \notin Locking,
               c.step = "idle" \/ (c.step = "input" /\ c.job = j)
        PROVE  PremarketInv'
    <2> DEFINE y == [job[j] EXCEPT !["input"] = v]
    <2>1. /\ y \in JobState /\ y.input = v /\ y.drafts = job[j].drafts /\ y.forecast = job[j].forecast
          /\ y.receipt = job[j].receipt /\ y.outcome = job[j].outcome /\ y.evaluation = job[j].evaluation
      BY PremarketFacts DEF JobState
    <2>2. job' = [job EXCEPT ![j] = y]
      BY <1>1 DEF Write
    <2> HIDE DEF y
    <2>3. v # Absent /\ job'[j] = y /\ op'[o] = c
      BY <1>1, <2>2, PremarketFacts, NoFileIsNoContent DEF NoFileIsNoContent
    <2>4. FilesOK(j)'
      BY <1>1, <2>1, <2>3, PremarketFacts DEF FilesOK
    <2>5. OpOK(o)'
      BY <1>1, <2>1, <2>3 DEF OpOK, Locking, Finalizing, Evaluating
    <2>6. \A k \in Jobs : lock'[k] = lock[k] /\ lock'[k] # o
      BY <1>1, OwnLock
    <2>7. lock' \in [Jobs -> Operators \cup {Absent}]
      BY <1>1, PremarketFacts
    <2> QED BY <1>1, <2>1, <2>2, <2>3, <2>4, <2>5, <2>6, <2>7, WriteKeeps
  <1>2. ASSUME NEW j \in Jobs, PrepareMkdir(o, j) PROVE PremarketInv'
    <2> DEFINE c == [IdleOp EXCEPT !.step = "input", !.job = j, !.at = now]
    <2>1. c \in OpState /\ c.step = "input" /\ c.job = j
      BY PremarketFacts DEF OpState, IdleOp, OpSteps
    <2>2. /\ op' = [op EXCEPT ![o] = c] /\ Write(j, "input", Empty) /\ UNCHANGED <<now, lock, answered>>
          /\ op[o].step \notin Locking
      BY <1>2 DEF PrepareMkdir, At, Locking, Finalizing, Evaluating
    <2> HIDE DEF c
    <2> QED BY <1>1, <2>1, <2>2
  <1>3. ASSUME PrepareInput(o) PROVE PremarketInv'
    <2>1. PICK j \in Jobs, v \in 0..LastTime : j = op[o].job /\ v = op[o].at
      BY <1>3, PremarketFacts DEF PrepareInput, At, OpOK
    <2>2. /\ op' = [op EXCEPT ![o] = IdleOp] /\ Write(j, "input", v) /\ UNCHANGED <<now, lock, answered>>
          /\ op[o].step \notin Locking
      BY <1>3, <2>1 DEF PrepareInput, At, Locking, Finalizing, Evaluating, Idle
    <2> QED BY <1>1, <2>1, <2>2, PremarketFacts
  <1> QED BY <1>2, <1>3

LEMMA WriteDraftsKeeps ==
  ASSUME PremarketInv, NEW j \in Jobs, NEW t \in Texts, WriteDrafts(j, t)
  PROVE  PremarketInv'
  <1> DEFINE d == [text |-> t, at |-> now]
             y == [job[j] EXCEPT !["drafts"] = d]
  <1>1. d \in DraftFile /\ d.at = now
    BY PremarketFacts DEF DraftFile
  <1>2. job' = [job EXCEPT ![j] = y] /\ UNCHANGED <<now, lock, op, answered>> /\ job[j].input # Absent
    BY DEF WriteDrafts, Write, Prepared
  <1> HIDE DEF d
  <1>3. /\ y \in JobState /\ y.input = job[j].input /\ y.drafts = d /\ y.forecast = job[j].forecast
        /\ y.receipt = job[j].receipt /\ y.outcome = job[j].outcome /\ y.evaluation = job[j].evaluation
    BY <1>1, PremarketFacts DEF JobState
  <1> HIDE DEF y
  <1>4. /\ job' \in [Jobs -> JobState] /\ job'[j] = y /\ (\A k \in Jobs \ {j} : job'[k] = job[k])
        /\ \A a \in answered : AnswerOK(a)'
    BY <1>2, <1>3, AnswersStay
  <1>5. \A k \in Jobs : /\ SameSealed(k) /\ job'[k].input = job[k].input
    BY <1>3, <1>4 DEF SameSealed
  <1>6. FilesOK(j)'
    BY <1>1, <1>2, <1>3, <1>4, PremarketFacts DEF FilesOK
  <1>7. \A k \in Jobs \ {j} : FilesOK(k)'
    BY <1>2, <1>4, PremarketFacts DEF FilesOK
  <1>8. ASSUME NEW o \in Operators PROVE OpOK(o)'
    <2>1. OpOK(o) /\ op'[o] = op[o] /\ lock' = lock
      BY <1>2, PremarketFacts
    <2>2. op[o].step # "idle" => SameSealed(op[o].job) /\ job'[op[o].job].input = job[op[o].job].input
      BY <1>5, <2>1 DEF OpOK
    <2> QED BY <2>1, <2>2 DEF OpOK, SameSealed, Locking, Finalizing, Evaluating
  <1>9. \A k \in Jobs : LockOK(k)'
    BY <1>2, PremarketFacts DEF LockOK
  <1> QED BY <1>2, <1>4, <1>6, <1>7, <1>8, <1>9 DEF PremarketInv

LEMMA TickKeeps == PremarketInv /\ Tick => PremarketInv'
  <1> SUFFICES ASSUME PremarketInv, Tick PROVE PremarketInv'
    OBVIOUS
  <1>1. now' = now + 1 /\ now' \in 0..LastTime /\ UNCHANGED <<job, lock, op, answered>>
    BY PremarketFacts DEF Tick
  <1>2. ASSUME NEW j \in Jobs PROVE FilesOK(j)' /\ LockOK(j)'
    <2>1. FilesOK(j) /\ LockOK(j) /\ now \in Nat
      BY PremarketFacts
    <2>2. job[j].drafts # Absent => job[j].drafts.at \in 0..LastTime
      BY PremarketFacts DEF DraftFile
    <2> QED BY <1>1, <2>1, <2>2, PremarketFacts DEF FilesOK, LockOK
  <1>3. \A o \in Operators : OpOK(o)'
    BY <1>1, PremarketFacts DEF OpOK
  <1>4. \A a \in answered : AnswerOK(a)'
    BY <1>1, PremarketFacts DEF AnswerOK
  <1> QED BY <1>1, <1>2, <1>3, <1>4 DEF PremarketInv

\* A command that writes forecast.json, receipt.json or the outcome under its lock and goes on.
LEMMA SealKeeps ==
  ASSUME PremarketInv, NEW o \in Operators, WriteForecast(o) \/ WriteReceipt(o) \/ WriteOutcome(o)
  PROVE  PremarketInv'
  <1>0. op[o].step \in {"forecast", "receipt", "outcome"} /\ op[o].step \in Locking
    BY DEF WriteForecast, WriteReceipt, WriteOutcome, At, Locking, Finalizing, Evaluating
  <1>1. PICK j \in Jobs, f \in ForecastFile : j = op[o].job /\ f = op[o].forecast /\ lock[j] = o
    BY <1>0, PremarketFacts DEF OpOK, Locking
  <1>2. /\ UNCHANGED <<now, lock, answered>> /\ op[o].job = j /\ op[o].forecast = f /\ OpOK(o) /\ FilesOK(j)
        /\ lock' \in [Jobs -> Operators \cup {Absent}]
    BY <1>1, PremarketFacts DEF WriteForecast, WriteReceipt, WriteOutcome
  <1>3. Receipt(f) \in ReceiptFile /\ Receipt(f) # Absent /\ f # Absent
    <2>1. Receipt(f) \in ReceiptFile
      BY DEF Receipt, ReceiptFile, ForecastFile
    <2> QED BY <2>1, NoFileIsNoContent DEF NoFileIsNoContent
  <1>4. \A step \in Locking : step \in OpSteps
    BY DEF OpSteps
  <1>5. ASSUME NEW step \in Locking, Goto(o, step), NEW y \in JobState, job' = [job EXCEPT ![j] = y],
               y.input = job[j].input, y.drafts = job[j].drafts,
               job[j].receipt # Absent => y.forecast = job[j].forecast /\ y.receipt = job[j].receipt,
               y.forecast # Absent => InWindow(j, y.forecast) /\ y.input # Absent,
               y.receipt # Absent => y.forecast # Absent /\ y.receipt = Receipt(y.forecast),
               y.outcome # Absent => y.receipt # Absent /\ y.outcome.forecast = y.forecast,
               y.evaluation = Absent,
               step \in Finalizing => op[o].step \in Finalizing,
               step \in {"check_receipt"} => y.forecast = f /\ y.receipt = Absent,
               step \in {"check_answer", "evaluation"} => y.forecast = f /\ y.receipt = Receipt(f),
               step = "evaluation" => op[o].step = "outcome" /\ y.outcome = op[o].outcome,
               step \in {"check_receipt", "check_answer", "evaluation"}
        PROVE  PremarketInv'
    <2>1. PICK c \in OpState :
           /\ op' = [op EXCEPT ![o] = c] /\ op'[o] = c /\ c.step = step /\ c.job = op[o].job /\ c.at = op[o].at
           /\ c.drafts = op[o].drafts /\ c.forecast = op[o].forecast /\ c.outcome = op[o].outcome
      BY <1>4, <1>5, GoesOn
    <2>2. job'[j] = y
      BY <1>5, PremarketFacts
    <2>3. FilesOK(j)'
      BY <1>2, <1>5, <2>2 DEF FilesOK
    <2>4. OpOK(o)'
      BY <1>1, <1>2, <1>5, <2>1, <2>2 DEF OpOK, Locking, Finalizing, Evaluating
    <2>5. \A k \in Jobs : lock'[k] = lock[k] /\ (lock'[k] = o => c.job = k /\ c.step \in Locking)
      BY <1>2, <1>5, <2>1, OwnLock
    <2> QED BY <1>1, <1>2, <1>5, <2>1, <2>3, <2>4, <2>5, WriteKeeps
  <1>6. ASSUME WriteForecast(o) PROVE PremarketInv'
    <2> DEFINE y == [job[j] EXCEPT !["forecast"] = f]
    <2>1. /\ y \in JobState /\ y.input = job[j].input /\ y.drafts = job[j].drafts /\ y.forecast = f
          /\ y.receipt = job[j].receipt /\ y.outcome = job[j].outcome /\ y.evaluation = job[j].evaluation
      BY PremarketFacts DEF JobState
    <2>2. job' = [job EXCEPT ![j] = y] /\ Goto(o, "check_receipt") /\ op[o].step = "forecast"
      BY <1>2, <1>6 DEF WriteForecast, Write, At
    <2> HIDE DEF y
    <2>3. /\ InWindow(j, f) /\ job[j].forecast = Absent /\ job[j].receipt = Absent /\ job[j].input # Absent
          /\ job[j].outcome = Absent /\ job[j].evaluation = Absent
      BY <1>2, <2>2 DEF OpOK, FilesOK, Finalizing
    <2>4. "check_receipt" \in Locking /\ op[o].step \in Finalizing
      BY <2>2 DEF Locking, Finalizing
    <2> QED BY <1>3, <1>5, <2>1, <2>2, <2>3, <2>4
  <1>7. ASSUME WriteReceipt(o) PROVE PremarketInv'
    <2> DEFINE y == [job[j] EXCEPT !["receipt"] = Receipt(f)]
    <2>1. /\ y \in JobState /\ y.input = job[j].input /\ y.drafts = job[j].drafts /\ y.forecast = job[j].forecast
          /\ y.receipt = Receipt(f) /\ y.outcome = job[j].outcome /\ y.evaluation = job[j].evaluation
      BY <1>3, PremarketFacts DEF JobState
    <2>2. job' = [job EXCEPT ![j] = y] /\ Goto(o, "check_answer") /\ op[o].step = "receipt"
      BY <1>2, <1>7 DEF WriteReceipt, Write, At
    <2> HIDE DEF y
    <2>3. /\ InWindow(j, f) /\ job[j].forecast = f /\ job[j].receipt = Absent /\ job[j].input # Absent
          /\ job[j].outcome = Absent /\ job[j].evaluation = Absent
      BY <1>2, <2>2 DEF OpOK, FilesOK, Finalizing
    <2>4. "check_answer" \in Locking /\ op[o].step \in Finalizing
      BY <2>2 DEF Locking, Finalizing
    <2> QED BY <1>3, <1>5, <2>1, <2>2, <2>3, <2>4
  <1>8. ASSUME WriteOutcome(o) PROVE PremarketInv'
    <2>0. PICK x \in OutcomeFile : x = op[o].outcome
      BY <1>2, <1>8 DEF OpOK, WriteOutcome, At, Evaluating
    <2> DEFINE y == [job[j] EXCEPT !["outcome"] = x]
    <2>1. /\ y \in JobState /\ y.input = job[j].input /\ y.drafts = job[j].drafts /\ y.forecast = job[j].forecast
          /\ y.receipt = job[j].receipt /\ y.outcome = x /\ y.evaluation = job[j].evaluation
      BY PremarketFacts DEF JobState
    <2>2. job' = [job EXCEPT ![j] = y] /\ Goto(o, "evaluation") /\ op[o].step = "outcome"
      BY <1>2, <1>8, <2>0 DEF WriteOutcome, Write, At
    <2> HIDE DEF y
    <2>3. /\ InWindow(j, f) /\ job[j].forecast = f /\ job[j].receipt = Receipt(f) /\ job[j].input # Absent
          /\ job[j].evaluation = Absent /\ x.forecast = f
      BY <1>2, <1>3, <2>0, <2>2 DEF OpOK, FilesOK, Evaluating, Evaluable
    <2>4. "evaluation" \in Locking /\ "evaluation" \notin Finalizing
      BY DEF Locking, Evaluating, Finalizing
    <2> QED BY <1>3, <1>5, <2>0, <2>1, <2>2, <2>3, <2>4
  <1> QED BY <1>6, <1>7, <1>8

LEMMA WriteEvaluationKeeps ==
  ASSUME PremarketInv, NEW o \in Operators, WriteEvaluation(o)
  PROVE  PremarketInv'
  <1>0. op[o].step = "evaluation" /\ op[o].step \in Locking
    BY DEF WriteEvaluation, At, Locking, Evaluating
  <1>1. PICK j \in Jobs, f \in ForecastFile, x \in OutcomeFile, at \in 0..LastTime :
            j = op[o].job /\ f = op[o].forecast /\ x = op[o].outcome /\ at = op[o].at /\ lock[j] = o
    BY <1>0, PremarketFacts DEF OpOK, Locking, Evaluating
  <1>2. /\ job[j].forecast = f /\ job[j].outcome = x /\ job[j].receipt = Receipt(f)
        /\ Evaluable(f, x, at) /\ FilesOK(j) /\ UNCHANGED <<now, answered>>
    BY <1>0, <1>1, PremarketFacts DEF OpOK, Evaluating, WriteEvaluation
  <1> DEFINE e == Evaluated(f, x, at)
             y == [job[j] EXCEPT !["evaluation"] = e]
  <1>3. e \in EvaluationFile /\ e.at = at
    <2>1. x.move \in Int /\ Threshold \in Nat
      BY PremarketAssumption DEF OutcomeFile, PremarketAssumption
    <2>2. Label(x.move) \in Labels
      BY <2>1 DEF Label, Labels
    <2> QED BY <2>2 DEF Evaluated, EvaluationFile
  <1>4. job' = [job EXCEPT ![j] = y] /\ op' = [op EXCEPT ![o] = IdleOp] /\ lock' = [lock EXCEPT ![j] = Absent]
    BY <1>1 DEF WriteEvaluation, Write, Idle, Release
  <1>5. e = Evaluated(f, x, e.at)
    BY <1>3
  <1> HIDE DEF e
  <1>6. /\ y \in JobState /\ y.input = job[j].input /\ y.drafts = job[j].drafts /\ y.forecast = job[j].forecast
        /\ y.receipt = job[j].receipt /\ y.outcome = job[j].outcome /\ y.evaluation = e
    BY <1>3, PremarketFacts DEF JobState
  <1> HIDE DEF y
  <1>7. job'[j] = y /\ op'[o] = IdleOp /\ IdleOp \in OpState /\ IdleOp.step = "idle"
    BY <1>4, PremarketFacts
  <1>8. x # Absent
    BY NoFileIsNoContent DEF NoFileIsNoContent
  <1>9. FilesOK(j)'
    BY <1>2, <1>3, <1>5, <1>6, <1>7, <1>8 DEF FilesOK
  <1>10. OpOK(o)'
    BY <1>7 DEF OpOK, Locking, Finalizing, Evaluating
  <1>11. /\ lock' \in [Jobs -> Operators \cup {Absent}]
         /\ \A k \in Jobs : lock'[k] # o /\ (lock'[k] = lock[k] \/ (lock[k] = o /\ lock'[k] = Absent))
    BY <1>1, <1>4, PremarketFacts, OwnLock
  <1>12. /\ lock[j] = o /\ (job[j].input # Absent => y.input # Absent)
         /\ (job[j].receipt # Absent => y.forecast = job[j].forecast /\ y.receipt = job[j].receipt)
    BY <1>1, <1>6
  <1>13. /\ \A k \in Jobs : lock'[k] = lock[k] \/ (lock[k] = o /\ lock'[k] = Absent)
         /\ \A k \in Jobs : lock'[k] = o => IdleOp.job = k /\ IdleOp.step \in Locking
         /\ lock' \in [Jobs -> Operators \cup {Absent}]
    BY <1>11
  <1>14. /\ IdleOp \in OpState /\ op' = [op EXCEPT ![o] = IdleOp] /\ y \in JobState
         /\ job' = [job EXCEPT ![j] = y] /\ UNCHANGED <<now, answered>>
    BY <1>2, <1>4, <1>6, <1>7
  <1> QED BY ZenonT(40), <1>9, <1>10, <1>12, <1>13, <1>14, WriteKeeps

LEMMA FinalizeAnswerKeeps ==
  ASSUME PremarketInv, NEW o \in Operators, FinalizeAnswer(o)
  PROVE  PremarketInv'
  <1>0. op[o].step = "check_answer" /\ op[o].step \in Locking /\ op[o].step \in Finalizing
    BY DEF FinalizeAnswer, At, Locking, Finalizing
  <1>1. PICK j \in Jobs, f \in ForecastFile, d \in DraftFile :
            j = op[o].job /\ f = op[o].forecast /\ d = op[o].drafts /\ lock[j] = o
    BY <1>0, PremarketFacts DEF OpOK, Locking
  <1>2. /\ job[j].forecast = f /\ job[j].receipt = Receipt(f) /\ f.job = j /\ Finalized(j, d, f.at) = f
        /\ UNCHANGED <<now, job>>
    BY <1>0, <1>1, PremarketFacts DEF OpOK, InWindow, Reproduces, FinalizeAnswer
  <1>3. op' = [op EXCEPT ![o] = IdleOp] /\ lock' = [lock EXCEPT ![j] = Absent]
    BY <1>1 DEF FinalizeAnswer, Idle, Release
  <1>4. op'[o] = IdleOp /\ IdleOp \in OpState /\ IdleOp.step = "idle"
    BY <1>3, PremarketFacts
  <1>5. PICK a \in AnswerState : a = [forecast |-> f, drafts |-> d, at |-> now]
    BY PremarketFacts DEF AnswerState
  <1>6. /\ answered' \subseteq answered \cup {a} /\ (a \in answered' \ answered => now < Deadline(j))
        /\ a.forecast = f /\ a.drafts = d /\ a.at = now
    BY <1>1, <1>5 DEF FinalizeAnswer, WindowOpen
  <1>7. \A b \in answered : AnswerOK(b)'
    BY <1>2, PremarketFacts DEF AnswerOK
  <1>8. a \in answered' \ answered => AnswerOK(a)'
    BY <1>2, <1>5, <1>6 DEF AnswerOK
  <1>9. answered' \subseteq AnswerState /\ \A b \in answered' : AnswerOK(b)'
    BY <1>5, <1>6, <1>7, <1>8, PremarketFacts
  <1>10. OpOK(o)'
    BY <1>4 DEF OpOK, Locking, Finalizing, Evaluating
  <1>11. /\ lock' \in [Jobs -> Operators \cup {Absent}]
         /\ \A k \in Jobs : lock'[k] # o /\ (lock'[k] = lock[k] \/ (lock[k] = o /\ lock'[k] = Absent))
    BY <1>1, <1>3, PremarketFacts, OwnLock
  <1>12. \A k \in Jobs : FilesOK(k)' /\ SameSealed(k) /\ job'[k].input = job[k].input
    BY <1>2, PremarketFacts DEF FilesOK, SameSealed
  <1>13. job' \in [Jobs -> JobState]
    BY <1>2, PremarketFacts
  <1> QED BY <1>2, <1>3, <1>4, <1>9, <1>10, <1>11, <1>12, <1>13, OpStepKeeps

LEMMA PremarketStepKeeps == PremarketInv /\ [PremarketStep]_jobVars => PremarketInv'
  <1> SUFFICES ASSUME PremarketInv, [PremarketStep]_jobVars PROVE PremarketInv'
    OBVIOUS
  <1>1. CASE UNCHANGED jobVars
    BY <1>1 DEF jobVars, PremarketInv, FilesOK, LockOK, OpOK, AnswerOK
  <1>2. ASSUME NEW o \in Operators, KillCommand(o) PROVE PremarketInv'
    BY <1>2, EndsKeeps DEF KillCommand
  <1>3. ASSUME NEW o \in Operators, CommandStep(o) PROVE PremarketInv'
    BY <1>3, PrepareKeeps, CheckWindowKeeps, SealKeeps, FinalizeAnswerKeeps, EvaluateReadsKeep, WriteEvaluationKeeps
    DEF CommandStep
  <1> QED BY <1>1, <1>2, <1>3, PrepareKeeps, FinalizeReadKeeps, EvaluateReadsKeep, WriteDraftsKeeps, TickKeeps
      DEF PremarketStep

LEMMA PremarketInvIsEnough == PremarketInv => ForecastsStand /\ PremarketTypeOK
  <1> SUFFICES ASSUME PremarketInv PROVE ForecastsStand /\ PremarketTypeOK
    OBVIOUS
  <1>1. ASSUME NEW j \in Jobs, job[j].evaluation # Absent PROVE Maturity(j) <= job[j].evaluation.at
    <2>1. /\ Evaluable(job[j].forecast, job[j].outcome, job[j].evaluation.at)
          /\ job[j].forecast.job = j /\ job[j].outcome # Absent
      BY <1>1, PremarketFacts DEF FilesOK, InWindow
    <2>2. job[j].outcome.observed \in Int /\ job[j].evaluation.at \in Int /\ Maturity(j) \in Int
      BY <1>1, <2>1, PremarketFacts DEF OutcomeFile, EvaluationFile, Maturity
    <2> QED BY <2>1, <2>2 DEF Evaluable
  <1>2. ChainHolds
    BY <1>1, PremarketFacts DEF ChainHolds, FilesOK, InWindow
  <1>3. AnswersStand
    BY PremarketFacts DEF AnswersStand, AnswerOK
  <1>4. \A f \in ForecastFile : Forecast(f)
    BY DEF ForecastFile, Forecast, DraftFile
  <1>5. \A j \in Jobs : /\ job[j].drafts # Absent => job[j].drafts.text \in Texts /\ job[j].drafts.at <= now
                        /\ job[j].forecast # Absent => Forecast(job[j].forecast)
                        /\ job[j].input \in 0..LastTime \cup {Absent, Empty}
                        /\ lock[j] \in Operators \cup {Absent} /\ (lock[j] # Absent => op[lock[j]].job = j)
    BY <1>4, PremarketFacts DEF FilesOK, LockOK, DraftFile
  <1>6. \A a \in answered : Forecast(a.forecast)
    BY <1>4, PremarketFacts DEF AnswerState
  <1> QED BY <1>2, <1>3, <1>5, <1>6, PremarketFacts DEF ForecastsStand, PremarketTypeOK

\* However prepare, finalize and evaluate overlap on the jobs, whoever rewrites the drafts
\* and whenever a command is killed, the files of a job are one chain and what finalize
\* answers stands on it (finalize_premarket_run, evaluate_premarket_run).
THEOREM ForecastsAlwaysStand == PremarketSpec => []ForecastsStand
  BY PremarketInitHolds, PremarketStepKeeps, PremarketInvIsEnough, PTL DEF PremarketSpec

-----------------------------------------------------------------------------
(* All of it in the regimes of MCBriefs, and the history of briefs.        *)

\* Where drafts are written once, the drafts on disk are those a forecast was made of.
JobInHistory(j) ==
  /\ job[j].input # Absent => j \in {"a", "d"}
  /\ job[j].forecast # Absent => job[j].drafts # Absent /\ Reproduces(j, job[j].forecast, job[j].drafts)
OpInHistory(o) == op[o].step \in Finalizing => op[o].drafts = job[op[o].job].drafts

HistoryInv ==
  regime = "history" => (\A j \in Jobs : JobInHistory(j)) /\ (\A o \in Operators : OpInHistory(o))

LEMMA WriteFields ==
  ASSUME PremarketInv, NEW j \in Jobs, NEW v, Write(j, "input", v) \/ Write(j, "receipt", v)
                                              \/ Write(j, "outcome", v) \/ Write(j, "evaluation", v)
  PROVE  /\ \A k \in Jobs : job'[k].drafts = job[k].drafts /\ job'[k].forecast = job[k].forecast
         /\ \A k \in Jobs \ {j} : job'[k] = job[k]
  <1> DEFINE y(file) == [job[j] EXCEPT ![file] = v]
  <1>1. \A file \in {"input", "receipt", "outcome", "evaluation"} :
           y(file).drafts = job[j].drafts /\ y(file).forecast = job[j].forecast
    BY PremarketFacts DEF JobState
  <1>2. \A file : Write(j, file, v) => job' = [job EXCEPT ![j] = y(file)]
    BY DEF Write
  <1> HIDE DEF y
  <1>3. PICK file \in {"input", "receipt", "outcome", "evaluation"} : Write(j, file, v)
    OBVIOUS
  <1>4. job'[j] = y(file) /\ \A k \in Jobs \ {j} : job'[k] = job[k]
    BY <1>2, <1>3, PremarketFacts
  <1> QED BY <1>1, <1>3, <1>4

\* What a step other than the writing of drafts may do.
LEMMA HistoryFrame ==
  ASSUME PremarketInv, HistoryInv, regime = "history", regime' = regime, NEW o \in Operators,
         \A j \in Jobs : job'[j].drafts = job[j].drafts,
         \A j \in Jobs : job'[j].input # Absent => job[j].input # Absent \/ j \in {"a", "d"},
         \A j \in Jobs : \/ job'[j].forecast = job[j].forecast
                         \/ job[j].drafts # Absent /\ Reproduces(j, job'[j].forecast, job[j].drafts),
         \A p \in Operators \ {o} : op'[p] = op[p],
         op'[o].step \in Finalizing =>
            /\ op'[o].job \in Jobs
            /\ \/ op'[o].drafts = job[op'[o].job].drafts
               \/ op[o].step \in Finalizing /\ op'[o].job = op[o].job /\ op'[o].drafts = op[o].drafts
  PROVE  HistoryInv'
  <1>1. ASSUME NEW j \in Jobs PROVE JobInHistory(j)'
    BY DEF HistoryInv, JobInHistory
  <1>2. ASSUME NEW p \in Operators \ {o} PROVE OpInHistory(p)'
    <2>1. op[p].step \in Finalizing => op[p].job \in Jobs
      BY PremarketFacts DEF OpOK, Finalizing
    <2> QED BY <2>1 DEF HistoryInv, OpInHistory
  <1>3. OpInHistory(o)'
    BY DEF HistoryInv, OpInHistory
  <1> QED BY <1>1, <1>2, <1>3 DEF HistoryInv

LEMMA HistoryCommandKeeps ==
  ASSUME PremarketInv, HistoryInv, regime = "history", regime' = regime, NEW o \in Operators,
         \/ CommandStep(o) \/ KillCommand(o)
         \/ \E j \in {"a", "d"} : PrepareMkdir(o, j) \/ FinalizeRead(o, j) \/ \E x : EvaluateStart(o, j, x)
  PROVE  HistoryInv'
  <1>0. {"a", "d"} \subseteq Jobs
    BY RegimeJobs DEF RegimeJobs
  <1>1. \A p \in Operators \ {o} : op'[p] = op[p]
    <2>1. CASE EvaluateRead(o)
      BY <2>1, PremarketFacts DEF EvaluateRead, Idle
    <2>2. CASE Idle(o) \/ \E step : Goto(o, step)
      BY <2>2, PremarketFacts DEF Idle, Goto
    <2>3. CASE \E j \in {"a", "d"} : PrepareMkdir(o, j) \/ FinalizeRead(o, j) \/ \E x : EvaluateStart(o, j, x)
      <3>1. \E c : op' = [op EXCEPT ![o] = c]
        BY <2>3 DEF PrepareMkdir, FinalizeRead, EvaluateStart
      <3> QED BY <3>1, PremarketFacts
    <2> QED BY <2>1, <2>2, <2>3 DEF CommandStep, KillCommand, PrepareInput, CheckWindow,
            WriteForecast, WriteReceipt, FinalizeAnswer, WriteOutcome, WriteEvaluation
  <1>2. ASSUME NEW c, op' = [op EXCEPT ![o] = c], c.step \notin Finalizing PROVE op'[o].step \notin Finalizing
    BY <1>2, PremarketFacts
  <1>3. IdleOp.step \notin Finalizing
    BY DEF IdleOp, Finalizing
  <1>4. Idle(o) => op'[o].step \notin Finalizing
    BY <1>2, <1>3 DEF Idle
  <1>5. ASSUME NEW j \in Jobs, NEW v,
               Write(j, "input", v) \/ Write(j, "receipt", v) \/ Write(j, "outcome", v) \/ Write(j, "evaluation", v),
               job[j].input # Absent \/ j \in {"a", "d"},
               \/ op'[o].step \notin Finalizing
               \/ op[o].step \in Finalizing /\ op'[o].job = op[o].job /\ op'[o].drafts = op[o].drafts
        PROVE  HistoryInv'
    <2>1. /\ \A k \in Jobs : job'[k].drafts = job[k].drafts /\ job'[k].forecast = job[k].forecast
          /\ \A k \in Jobs \ {j} : job'[k] = job[k]
      BY <1>5, WriteFields
    <2>2. op[o].step \in Finalizing => op[o].job \in Jobs
      BY PremarketFacts DEF OpOK, Finalizing
    <2> QED BY <1>1, <1>5, <2>1, <2>2, HistoryFrame
  <1>6. ASSUME job' = job, op'[o].step \in Finalizing =>
                 /\ op'[o].job \in Jobs
                 /\ \/ op'[o].drafts = job[op'[o].job].drafts
                    \/ op[o].step \in Finalizing /\ op'[o].job = op[o].job /\ op'[o].drafts = op[o].drafts
        PROVE  HistoryInv'
    BY <1>1, <1>6, HistoryFrame
  <1>7. ASSUME NEW step \in OpSteps, Goto(o, step)
        PROVE  op'[o].step = step /\ op'[o].job = op[o].job /\ op'[o].drafts = op[o].drafts
    BY <1>7, GoesOn
  <1>8. /\ {"forecast", "receipt", "check_receipt", "check_answer", "evaluation"} \subseteq OpSteps
        /\ {"check_forecast", "check_receipt", "forecast", "receipt"} \subseteq Finalizing
        /\ {"input", "evaluate", "outcome", "evaluation"} \cap Finalizing = {}
        /\ op[o].step # "idle" => op[o].job \in Jobs
    BY PremarketFacts DEF OpSteps, Locking, Finalizing, Evaluating, OpOK
  <1>9. ASSUME NEW j \in {"a", "d"}, PrepareMkdir(o, j) PROVE HistoryInv'
    <2> DEFINE c == [IdleOp EXCEPT !.step = "input", !.job = j, !.at = now]
    <2>1. c.step = "input" /\ op' = [op EXCEPT ![o] = c]
      BY <1>9 DEF PrepareMkdir, IdleOp
    <2> HIDE DEF c
    <2> QED BY <1>0, <1>2, <1>5, <1>8, <1>9, <2>1 DEF PrepareMkdir
  <1>10. ASSUME NEW j \in {"a", "d"}, NEW x, EvaluateStart(o, j, x) PROVE HistoryInv'
    <2> DEFINE c == [IdleOp EXCEPT !.step = "evaluate", !.job = j, !.at = now, !.outcome = x]
    <2>1. c.step = "evaluate" /\ op' = [op EXCEPT ![o] = c]
      BY <1>10 DEF EvaluateStart, IdleOp
    <2> HIDE DEF c
    <2> QED BY <1>2, <1>6, <1>8, <1>10, <2>1 DEF EvaluateStart
  <1>11. ASSUME NEW j \in {"a", "d"}, FinalizeRead(o, j) PROVE HistoryInv'
    <2>1. PICK step, g : op' = [op EXCEPT ![o] = [IdleOp EXCEPT !.job = j, !.at = now, !.drafts = job[j].drafts,
                                                   !.forecast = g, !.step = step]]
      BY <1>11 DEF FinalizeRead
    <2> DEFINE c == [IdleOp EXCEPT !.job = j, !.at = now, !.drafts = job[j].drafts, !.forecast = g, !.step = step]
    <2>2. c.job = j /\ c.drafts = job[j].drafts
      BY DEF IdleOp
    <2> HIDE DEF c
    <2>3. op'[o] = c
      BY <2>1, PremarketFacts DEF c
    <2> QED BY <1>0, <1>6, <1>11, <2>2, <2>3 DEF FinalizeRead
  <1>12. ASSUME PrepareInput(o) PROVE HistoryInv'
    <2>1. op[o].step = "input" /\ op[o].job \in Jobs /\ job[op[o].job].input # Absent
      BY <1>12, PremarketFacts DEF PrepareInput, At, OpOK
    <2> QED BY <1>4, <1>5, <1>12, <2>1 DEF PrepareInput
  <1>13. ASSUME CheckWindow(o) PROVE HistoryInv'
    <2>1. CASE WindowOpen(op[o].job)
      <3>1. Goto(o, "forecast") \/ Goto(o, "receipt")
        BY <1>13, <2>1 DEF CheckWindow
      <3> QED BY <1>6, <1>7, <1>8, <1>13, <3>1 DEF CheckWindow
    <2> QED BY <1>4, <1>6, <1>13, <2>1 DEF CheckWindow
  <1>14. ASSUME op[o].step \in Locking PROVE op[o].job \in Jobs /\ job[op[o].job].input # Absent
    <2>1. op[o].job \in Jobs /\ OpOK(o) /\ FilesOK(op[o].job)
      BY <1>14, OwnLock, PremarketFacts
    <2>2. op[o].step \in Evaluating => job[op[o].job].forecast # Absent
      BY <2>1, <1>14, NoFileIsNoContent DEF OpOK, NoFileIsNoContent
    <2> QED BY <1>14, <2>1, <2>2 DEF OpOK, FilesOK, Locking
  <1>15. ASSUME WriteReceipt(o) PROVE HistoryInv'
    <2>1. /\ Write(op[o].job, "receipt", Receipt(op[o].forecast)) /\ op[o].step = "receipt" /\ Goto(o, "check_answer")
          /\ op[o].step \in Locking /\ op[o].step \in Finalizing
      BY <1>15 DEF WriteReceipt, At, Locking, Finalizing
    <2> QED BY <1>5, <1>7, <1>8, <1>14, <2>1
  <1>16. ASSUME WriteOutcome(o) PROVE HistoryInv'
    <2>1. /\ Write(op[o].job, "outcome", op[o].outcome) /\ Goto(o, "evaluation") /\ op[o].step \in Locking
      BY <1>16 DEF WriteOutcome, At, Locking, Evaluating
    <2> QED BY <1>5, <1>7, <1>8, <1>14, <2>1
  <1>17. ASSUME WriteEvaluation(o) PROVE HistoryInv'
    <2>1. op[o].step \in Locking /\ \E v : Write(op[o].job, "evaluation", v)
      BY <1>17 DEF WriteEvaluation, At, Locking, Evaluating
    <2> QED BY <1>4, <1>5, <1>14, <1>17, <2>1 DEF WriteEvaluation
  <1>18. ASSUME WriteForecast(o) PROVE HistoryInv'
    <2>0. op[o].step \in Finalizing /\ op[o].step \in Locking /\ Goto(o, "check_receipt")
      BY <1>18 DEF WriteForecast, At, Locking, Finalizing
    <2>1. PICK j \in Jobs, f \in ForecastFile, d \in DraftFile : j = op[o].job /\ f = op[o].forecast /\ d = op[o].drafts
      BY <1>14, <2>0, PremarketFacts DEF OpOK
    <2>2. Reproduces(j, f, d) /\ d = job[j].drafts
      BY <2>0, <2>1, PremarketFacts DEF OpOK, HistoryInv, OpInHistory
    <2>3. d # Absent
      BY NoFileIsNoContent DEF NoFileIsNoContent
    <2> DEFINE y == [job[j] EXCEPT !["forecast"] = f]
    <2>4. y.drafts = job[j].drafts /\ y.forecast = f /\ y.input = job[j].input
      BY PremarketFacts DEF JobState
    <2>5. job' = [job EXCEPT ![j] = y]
      BY <1>18, <2>1 DEF WriteForecast, Write
    <2> HIDE DEF y
    <2>6. job'[j] = y /\ \A k \in Jobs \ {j} : job'[k] = job[k]
      BY <2>5, PremarketFacts
    <2>7. op'[o].job = j /\ op'[o].drafts = op[o].drafts /\ op[o].job = j
      BY <1>7, <1>8, <2>0, <2>1
    <2> QED BY <1>1, <2>0, <2>2, <2>3, <2>4, <2>6, <2>7, HistoryFrame
  <1>19. ASSUME EvaluateRead(o) PROVE HistoryInv'
    <2>1. Idle(o) \/ op'[o].step = "outcome"
      BY <1>19, PremarketFacts DEF EvaluateRead, OpState
    <2> QED BY <1>4, <1>6, <1>8, <1>19, <2>1 DEF EvaluateRead
  <1>20. ASSUME FinalizeAnswer(o) \/ KillCommand(o) PROVE HistoryInv'
    BY <1>4, <1>6, <1>20 DEF FinalizeAnswer, KillCommand
  <1> QED BY <1>9, <1>10, <1>11, <1>12, <1>13, <1>15, <1>16, <1>17, <1>18, <1>19, <1>20 DEF CommandStep

\* Drafts are written before any forecast is made of them.
LEMMA HistoryDraftsKeep ==
  ASSUME PremarketInv, HistoryInv, regime = "history", regime' = regime, NEW j \in Jobs, NEW t,
         job[j].drafts = Absent, WriteDrafts(j, t)
  PROVE  HistoryInv'
  <1> DEFINE d == [text |-> t, at |-> now]
             y == [job[j] EXCEPT !["drafts"] = d]
  <1>1. job' = [job EXCEPT ![j] = y] /\ op' = op
    BY DEF WriteDrafts, Write
  <1>2. y.input = job[j].input /\ y.forecast = job[j].forecast
    BY PremarketFacts DEF JobState
  <1> HIDE DEF y
  <1>3. job'[j] = y /\ \A k \in Jobs \ {j} : job'[k] = job[k]
    BY <1>1, PremarketFacts
  <1>4. job[j].forecast = Absent
    BY DEF HistoryInv, JobInHistory
  <1>5. \A k \in Jobs : JobInHistory(k)'
    BY <1>2, <1>3, <1>4 DEF HistoryInv, JobInHistory
  <1>6. ASSUME NEW o \in Operators, op[o].step \in Finalizing PROVE op[o].job \in Jobs \ {j}
    <2>1. op[o].job \in Jobs /\ op[o].drafts \in DraftFile /\ op[o].drafts = job[op[o].job].drafts
      BY <1>6, PremarketFacts DEF OpOK, Finalizing, HistoryInv, OpInHistory
    <2> QED BY <2>1, NoFileIsNoContent DEF NoFileIsNoContent
  <1>7. \A o \in Operators : OpInHistory(o)'
    BY <1>1, <1>3, <1>6 DEF HistoryInv, OpInHistory
  <1> QED BY <1>5, <1>7 DEF HistoryInv

BriefsInv == PremarketInv /\ DeliveryInv /\ RecoveryInv /\ GenerationInv /\ HistoryInv

LEMMA BriefsInitHolds == MCInit => BriefsInv
  <1> SUFFICES ASSUME MCInit PROVE BriefsInv
    OBVIOUS
  <1>1. PremarketInv /\ DeliveryInv /\ RecoveryInv /\ GenerationInv
    BY PremarketInitHolds, DeliveryInitHolds, RecoveryInitHolds, GenerationInitHolds DEF MCInit
  <1>2. \A j \in Jobs : job[j].input = Absent /\ job[j].forecast = Absent
    BY DEF MCInit, PremarketInit, NoJob
  <1>3. \A o \in Operators : op[o].step = "idle"
    BY DEF MCInit, PremarketInit, IdleOp
  <1> QED BY <1>1, <1>2, <1>3 DEF BriefsInv, HistoryInv, JobInHistory, OpInHistory, Finalizing

LEMMA JobsOfRegime == MyJobs \subseteq {"a", "d"} /\ {"a", "d"} \subseteq Jobs
  BY RegimeJobs DEF MyJobs, RegimeJobs

\* The steps of the regimes are steps of the component.
LEMMA JobStepKeeps ==
  ASSUME PremarketInv, HistoryInv, JobStep
  PROVE  PremarketInv' /\ HistoryInv'
  <1> USE JobsOfRegime
  <1>0. regime' = regime
    BY DEF JobStep
  <1>1. ASSUME NEW o \in Operators,
               CommandStep(o) \/ KillCommand(o) \/ \E j \in MyJobs : PrepareMkdir(o, j) \/ FinalizeRead(o, j)
        PROVE  PremarketInv' /\ HistoryInv'
    <2>1. PremarketStep
      BY <1>1 DEF PremarketStep
    <2>2. regime = "history" => HistoryInv'
      BY <1>0, <1>1, HistoryCommandKeeps
    <2> QED BY <1>0, <2>1, <2>2, PremarketStepKeeps DEF HistoryInv
  <1>2. ASSUME NEW o \in Operators, NEW j \in MyJobs, NEW x \in OutcomeFiles(j), EvaluateStart(o, j, x)
        PROVE  PremarketInv' /\ HistoryInv'
    <2>1. x \in OutcomeFile
      <3>1. job[j].forecast \in ForecastFile /\ Maturity(j) - 1 \in Int /\ now \in Int
        BY <1>2, PremarketFacts DEF OutcomeFiles, Maturity
      <3>2. Threshold + 1 \in Int /\ Moves \subseteq Int
        BY PremarketAssumption DEF PremarketAssumption
      <3> QED BY <1>2, <3>1, <3>2 DEF OutcomeFiles, OutcomeFile
    <2>2. PremarketStep
      BY <1>2, <2>1 DEF PremarketStep
    <2>3. regime = "history" => HistoryInv'
      BY <1>0, <1>2, HistoryCommandKeeps
    <2> QED BY <1>0, <2>2, <2>3, PremarketStepKeeps DEF HistoryInv
  <1>3. ASSUME NEW j \in MyJobs, NEW t \in Texts, WriteDrafts(j, t), regime = "history" => job[j].drafts = Absent
        PROVE  PremarketInv' /\ HistoryInv'
    <2>1. PremarketStep
      BY <1>3 DEF PremarketStep
    <2>2. regime = "history" => HistoryInv'
      BY <1>0, <1>3, HistoryDraftsKeep
    <2> QED BY <1>0, <2>1, <2>2, PremarketStepKeeps DEF HistoryInv
  <1>4. ASSUME Tick PROVE PremarketInv' /\ HistoryInv'
    BY <1>0, <1>4, TickKeeps DEF Tick, HistoryInv, JobInHistory, OpInHistory
  <1> QED BY <1>1, <1>2, <1>3, <1>4 DEF JobStep

LEMMA JobsStand == PremarketInv /\ HistoryInv /\ UNCHANGED <<jobVars, regime>> => PremarketInv' /\ HistoryInv'
  <1> SUFFICES ASSUME PremarketInv, HistoryInv, UNCHANGED <<jobVars, regime>> PROVE PremarketInv' /\ HistoryInv'
    OBVIOUS
  <1>1. PremarketInv'
    BY PremarketStepKeeps
  <1> QED BY <1>1 DEF jobVars, HistoryInv, JobInHistory, OpInHistory

LEMMA BriefsStepKeeps == BriefsInv /\ [MCNext]_allVars => BriefsInv'
  <1> SUFFICES ASSUME BriefsInv, [MCNext]_allVars PROVE BriefsInv'
    OBVIOUS
  <1> USE DEF BriefsInv
  <1>1. UNCHANGED <<jobVars, regime>> => PremarketInv' /\ HistoryInv'
    BY JobsStand
  <1>2. UNCHANGED deliveryVars => DeliveryInv'
    BY DeliveryStands
  <1>3. UNCHANGED recoveryVars => RecoveryInv'
    BY RecoveryStepKeeps
  <1>4. UNCHANGED generationVars => GenerationInv'
    BY GenerationStepKeeps
  <1>5. CASE JobStep
    BY <1>2, <1>3, <1>4, <1>5, JobStepKeeps DEF JobStep
  <1>6. CASE BriefStep
    <2>1. MyPosters \subseteq Posters
      BY RegimeJobs DEF MyPosters, RegimeJobs
    <2>2. \A j \in MyJobs : Session[j] \in Slots
      BY JobsOfRegime, RegimeJobs DEF RegimeJobs
    <2>3. DeliveryInv'
      BY <1>6, <2>1, <2>2, PublishKeeps, PostStepKeeps DEF BriefStep, PostStep
    <2> QED BY <1>1, <1>3, <1>4, <1>6, <2>3 DEF BriefStep, mcVars
  <1>7. CASE DeliveryStep
    <2>1. DeliveryInv'
      BY <1>7, PublishKeeps, PostStepKeeps DEF DeliveryStep, PostStep
    <2> QED BY <1>1, <1>3, <1>4, <1>7, <2>1 DEF DeliveryStep
  <1>8. CASE BundleStep
    BY <1>1, <1>2, <1>4, <1>8, RecoveryStepKeeps DEF BundleStep, mcVars
  <1>9. CASE DraftingStep
    BY <1>1, <1>2, <1>3, <1>9, GenerationStepKeeps DEF DraftingStep, mcVars
  <1>10. CASE UNCHANGED allVars
    BY <1>1, <1>2, <1>3, <1>4, <1>10 DEF allVars, mcVars
  <1> QED BY <1>5, <1>6, <1>7, <1>8, <1>9, <1>10 DEF MCNext

\* In every regime jobs, bundles and draft commands keep the types of their files and rows
\* (premarket.py, recovery.py, the draft commands).
THEOREM TypeCorrect == MCSpec => []TypeOK
  <1>1. GenerationInv => GenerationTypeOK
    BY DEF GenerationInv, GenerationTypeOK, DrawState
  <1>2. RecoveryInv => RecoveryTypeOK
    BY DEF RecoveryInv, RecoveryTypeOK, BackupState, BackupHolds, TargetState, WholeBundle
  <1>3. BriefsInv => TypeOK
    BY <1>1, <1>2, PremarketInvIsEnough DEF BriefsInv, TypeOK
  <1> QED BY <1>3, BriefsInitHolds, BriefsStepKeeps, PTL DEF MCSpec

\* The owner has what the markers say; and where a session has one job and its drafts are
\* written once, no kill leaves a history that cannot be read
\* (publish_premarket_brief, load_premarket_history).
THEOREM BriefsAlwaysHold == MCSpec => []BriefsHold
  <1>1. BriefsInv => BriefsHold
    <2> SUFFICES ASSUME BriefsInv PROVE BriefsHold
      OBVIOUS
    <2>1. MarkedIsDelivered
      <3>1. \A s \in Legacy : s \in Slots
        BY DeliveryAssumption DEF DeliveryAssumption
      <3> QED BY <3>1 DEF BriefsInv, DeliveryInv, SlotOK, MarkedIsDelivered
    <2>2. ASSUME regime = "history", NEW j \in Scored
          PROVE  /\ j \in {"a", "d"} /\ job[j].outcome # Absent /\ Completed(j)
                 /\ Evaluable(job[j].forecast, job[j].outcome, job[j].evaluation.at)
                 /\ job[j].evaluation = Evaluated(job[j].forecast, job[j].outcome, job[j].evaluation.at)
      <3>1. j \in Jobs /\ job[j].evaluation # Absent /\ FilesOK(j) /\ JobInHistory(j)
        BY <2>2, PremarketFacts DEF Scored, BriefsInv, HistoryInv
      <3> QED BY <3>1 DEF FilesOK, JobInHistory, Completed
    <2>3. regime = "history" => HistoryReadable(LastTime)
      BY <2>2, RegimeJobs DEF HistoryReadable, Settled, RegimeJobs
    <2> QED BY <2>1, <2>3 DEF BriefsHold
  <1> QED BY <1>1, BriefsInitHolds, BriefsStepKeeps, PTL DEF MCSpec
=============================================================================
