---------------------------- MODULE HandoffProofs ----------------------------
(***************************************************************************)
(* Proofs about the file handoffs: Handoff, for every number of operators, *)
(* attempts, drafts, crashes and API starts, and for both protocols; and   *)
(* ReflectionHandoff with ReflectionFindings, for every number of          *)
(* reflections, operators, failures and kills.                             *)
(***************************************************************************)
EXTENDS Handoff, MCReflectionHandoff, FiniteSetTheorems, TLAPS

-----------------------------------------------------------------------------
(* The inductive invariant.                                                *)

Executing == {"begin", "graph", "finalize", "mark_failed"}
Completing == {"recover", "promote"}
Writing == {"create", "fill", "chmod"}
Archiving == {"archive_drafts", "unlink_drafts", "archive_receipt",
              "unlink_receipt", "rearm"}
V3Only == {"seal", "publish", "seal_failed"} \cup RetryPC

\* Transition n - 1 lies before the drafts and the finalized_at of attempt n.
SinceRetry(n, a, retries) ==
    n = 1 \/ (retries[n - 1] <= a.drafts.gen /\ retries[n - 1] <= a.finalized_at)

\* Which seal goes with which row.
RowSeal ==
    {<<"absent", "none">>, <<"awaiting_draft", "none">>, <<"failed", "none">>,
     <<"awaiting_draft", "awaiting_draft">>, <<"completed", "validating">>,
     <<"completed", "completed">>}
      \cup IF v3 THEN {<<"awaiting_draft", "validating">>, <<"running", "validating">>,
                       <<"failed", "validating">>, <<"failed", "failed">>}
           ELSE {<<"running", "awaiting_draft">>, <<"failed", "awaiting_draft">>}

\* The seal of a prepared package counts its attempts; a legacy package has one.
SealOK ==
    /\ <<status, seal.status>> \in RowSeal
    /\ status = "absent" <=> prep = "new"
    /\ seal.status = "none" => seal = NoSeal
    /\ seal.status # "none" =>
          /\ prep = "done" /\ seal.attempt \in Attempts
          /\ Contiguous(seal)
          /\ ~v3 => seal.attempt = 1
    /\ seal.status \notin {"none", "awaiting_draft"} => seal.drafts # NoDraft
    /\ seal.status = "failed" =>
          /\ Last(seal.history).drafts = seal.drafts
          /\ Last(seal.history).attempt = seal.attempt

\* An attempt not yet reached has not been executed, nor has one that still waits.
ClaimsOK ==
    \A n \in Attempts :
        /\ claims[n] <= 1
        /\ n > seal.attempt => claims[n] = 0
        /\ n = seal.attempt /\ status \in {"absent", "awaiting_draft"} => claims[n] = 0

\* A complete receipt says of the current attempt what the row says.
SlotOK ==
    v3 /\ receipt.status \in {"failed", "completed"} =>
        /\ receipt.attempt = seal.attempt /\ receipt.drafts = seal.drafts
        /\ receipt.finalized_at = seal.finalized_at
        /\ receipt.status = status

\* Whoever works on a v3 package holds its lock.
LockOK ==
    IF v3 THEN \A p \in Procs : pc[p] # "idle" <=> lock = p ELSE lock = Nobody

\* What the holder of the lock knows of the row, the seal and the files.
HeldOK(p) ==
    /\ pc[p] = "read" =>
          /\ status = "awaiting_draft" /\ audit[p] = seal
          /\ seal.status \in {"awaiting_draft", "validating"}
    /\ pc[p] = "seal" =>
          /\ status = "awaiting_draft" /\ seal.status # "none"
          /\ audit[p].status = "validating" /\ audit[p].drafts # NoDraft
          /\ audit[p].attempt = seal.attempt /\ audit[p].history = seal.history
          /\ audit[p].transitions = seal.transitions
          /\ SinceRetry(seal.attempt, audit[p], seal.transitions)
    /\ pc[p] \in Executing =>
          /\ audit[p] = seal /\ seal.status = "validating"
          /\ IF pc[p] = "begin" THEN status = "awaiting_draft"
                                ELSE status \in {"running", "failed"}
    /\ pc[p] \in Completing => status = "completed" /\ audit[p] = seal
    /\ pc[p] \in Writing /\ op[p] = "completed" =>
          /\ status = "completed" /\ seal.status = "completed"
          /\ rcpt[p] = CompletedReceipt(seal)
    /\ pc[p] \in {"publish", "seal_failed"} \cup Writing /\ op[p] # "completed" =>
          /\ status = "failed" /\ seal.status = "validating" /\ audit[p] = seal
          /\ rcpt[p] = FailedReceipt(seal, rcpt[p].error)
    /\ pc[p] \in {"publish", "seal_failed"} => op[p] # "completed"
    /\ pc[p] = "retry_seal" =>
          status = "failed" /\ seal.status # "none" /\ audit[p] = seal
    /\ pc[p] \in {"verify"} \cup Archiving =>
          status = "failed" /\ seal.status = "failed" /\ audit[p] = seal
    /\ pc[p] \in Archiving => rcpt[p] = ReceiptOf(Last(seal.history))
    /\ pc[p] \in Archiving \ {"archive_drafts"} =>
          archive[seal.attempt].drafts = seal.drafts
    /\ pc[p] \in {"unlink_receipt", "rearm"} => archive[seal.attempt].receipt = rcpt[p]
    /\ pc[p] = "rearm" => receipt = NoReceipt

\* What a process working on a legacy package, which has no lock, can rely on.
LooseOK(p) ==
    /\ pc[p] \notin V3Only
    /\ pc[p] \in {"read"} \cup Executing \cup Completing =>
          /\ seal.status # "none" /\ audit[p].attempt = 1
          /\ audit[p].history = <<>> /\ audit[p].transitions = <<>>
    /\ pc[p] \in Executing => audit[p].status = "validating" /\ audit[p].drafts # NoDraft
    /\ pc[p] \in Completing => status = "completed"

LocalOK(p) == IF v3 THEN HeldOK(p) ELSE LooseOK(p)

IndInv ==
    /\ TypeOK
    /\ SealOK
    /\ EpochOrder
    /\ OutputSealed
    /\ ClaimsOK
    /\ SlotOK
    /\ ArchiveMatches
    /\ LockOK
    /\ \A p \in Procs : LocalOK(p)

-----------------------------------------------------------------------------
(* The values a process handles.                                           *)

Steps == {"idle"} \cup FinalizePC \cup RetryPC \cup ReceiptPC

LEMMA Values ==
    /\ NoDraft \in Bundle
    /\ NoReceipt \in Receipt /\ TornReceipt \in Receipt
    /\ NoSeal \in Seal
    /\ NoReceipt.status = "none" /\ TornReceipt.status = "torn"
    /\ NoSeal.status = "none" /\ NoSeal.attempt = 0
    /\ NoSeal.history = <<>> /\ NoSeal.transitions = <<>>
  <1>1. NoDraft \in Bundle
    BY DEF NoDraft, Bundle
  <1>2. NoReceipt \in Receipt /\ TornReceipt \in Receipt
    BY <1>1 DEF NoReceipt, TornReceipt, Receipt, Errors
  <1>3. NoSeal \in Seal
    BY <1>1 DEF NoSeal, Seal
  <1> QED BY <1>1, <1>2, <1>3 DEF NoReceipt, TornReceipt, NoSeal

\* The parts of a seal.
LEMMA SealParts ==
    ASSUME NEW s \in Seal
    PROVE  /\ s.status \in {"none", "awaiting_draft", "validating", "failed", "completed"}
           /\ s.attempt \in Nat /\ s.drafts \in Bundle /\ s.finalized_at \in Nat
           /\ s.history \in Seq(Entry) /\ s.transitions \in Seq(Nat)
           /\ s = [status |-> s.status, attempt |-> s.attempt, drafts |-> s.drafts,
                   finalized_at |-> s.finalized_at, history |-> s.history,
                   transitions |-> s.transitions]
  BY DEF Seal

\* The receipts of an attempt, failed or completed.
LEMMA ReceiptParts ==
    ASSUME NEW s \in Seal, NEW e \in Errors
    PROVE  /\ FailedReceipt(s, e) \in Receipt /\ CompletedReceipt(s) \in Receipt
           /\ FailedReceipt(s, e).status = "failed"
           /\ FailedReceipt(s, e).attempt = s.attempt
           /\ FailedReceipt(s, e).drafts = s.drafts
           /\ FailedReceipt(s, e).finalized_at = s.finalized_at
           /\ FailedReceipt(s, e).error = e
           /\ CompletedReceipt(s).status = "completed"
           /\ CompletedReceipt(s).attempt = s.attempt
           /\ CompletedReceipt(s).drafts = s.drafts
           /\ CompletedReceipt(s).finalized_at = s.finalized_at
  BY SealParts DEF FailedReceipt, CompletedReceipt, Receipt, Errors

LEMMA EntryParts ==
    ASSUME NEW e \in Entry
    PROVE  /\ ReceiptOf(e) \in Receipt /\ ReceiptOf(e).status = "failed"
           /\ e.attempt \in Nat /\ e.drafts \in Bundle /\ e.drafts.gen \in Nat
           /\ e.finalized_at \in Nat /\ e.completed_at \in Nat /\ e.error \in Errors
  BY DEF ReceiptOf, Entry, Receipt, Bundle

\* What the parts of the invariant say of one process.
LEMMA Facts ==
    ASSUME IndInv, NEW p \in Procs
    PROVE  /\ TypeOK /\ SealOK /\ EpochOrder /\ OutputSealed /\ ClaimsOK /\ SlotOK
           /\ ArchiveMatches /\ LockOK
           /\ v3 => HeldOK(p)
           /\ ~v3 => LooseOK(p)
           /\ pc[p] \in Steps /\ audit[p] \in Seal /\ rcpt[p] \in Receipt /\ seal \in Seal
           /\ at[p] \in Nat /\ op[p] \in {"none", "failed", "completed", "retry"}
           /\ v3 \in BOOLEAN /\ v3 /\ pc[p] # "idle" => lock = p
           /\ ~v3 => lock = Nobody /\ lock # p
  BY HandoffConfiguration DEF IndInv, LocalOK, TypeOK, Steps, LockOK, HandoffConfiguration

-----------------------------------------------------------------------------
(* Steps of one process.                                                   *)

\* Process p alone moves.
Alone(p) ==
    \A q \in Procs \ {p} :
        /\ pc'[q] = pc[q] /\ op'[q] = op[q] /\ at'[q] = at[q]
        /\ audit'[q] = audit[q] /\ rcpt'[q] = rcpt[q]

\* Nobody else works on a v3 package.
Sole(p) == v3 => \A q \in Procs \ {p} : pc[q] = "idle"

LEMMA HolderSole ==
    ASSUME IndInv, NEW p \in Procs, pc[p] # "idle"
    PROVE  Sole(p)
  BY DEF Sole, IndInv, LockOK

\* A process that does nothing relies on nothing.
LEMMA IdleHolds ==
    ASSUME NEW p \in Procs, pc[p] = "idle"
    PROVE  LocalOK(p)
  BY DEF LocalOK, HeldOK, LooseOK, Executing, Completing, Writing, Archiving, V3Only, RetryPC

\* What the other processes rely on survives a step of p.
LEMMA OthersKeep ==
    ASSUME IndInv, NEW p \in Procs, Sole(p), Alone(p), v3' = v3,
           ~v3 /\ seal.status # "none" => seal'.status # "none",
           ~v3 /\ status = "completed" => status' = "completed"
    PROVE  \A q \in Procs \ {p} : LocalOK(q)'
  <1> SUFFICES ASSUME NEW q \in Procs \ {p} PROVE LocalOK(q)'
    OBVIOUS
  <1>1. CASE v3
    <2>1. pc'[q] = "idle"
      BY <1>1 DEF Sole, Alone
    <2> QED BY <2>1 DEF LocalOK, HeldOK, LooseOK, Executing, Completing, Writing, Archiving,
            V3Only, RetryPC
  <1>2. CASE ~v3
    <2>1. LooseOK(q)
      BY <1>2, Facts
    <2>2. pc'[q] = pc[q] /\ audit'[q] = audit[q]
      BY DEF Alone
    <2>3. LooseOK(q)'
      BY <1>2, <2>1, <2>2 DEF LooseOK, Completing, Executing
    <2> QED BY <1>2, <2>3 DEF LocalOK
  <1> QED BY <1>1, <1>2

\* A step that leaves the row and the files' bookkeeping alone.
LEMMA MoveKeeps ==
    ASSUME IndInv, NEW p \in Procs, Sole(p), Alone(p), TypeOK', LockOK', LocalOK(p)',
           UNCHANGED <<status, seal, output, receipt, archive, claims, v3, prep>>
    PROVE  IndInv'
  <1>1. \A q \in Procs \ {p} : LocalOK(q)'
    BY OthersKeep
  <1>2. SealOK' /\ EpochOrder' /\ OutputSealed' /\ ClaimsOK' /\ SlotOK' /\ ArchiveMatches'
    BY DEF IndInv, SealOK, EpochOrder, OutputSealed, ClaimsOK, SlotOK, ArchiveMatches,
       RowSeal, Contiguous
  <1> QED BY <1>1, <1>2 DEF IndInv

LEMMA ExitLocals ==
    ASSUME TypeOK, LockOK, NEW p \in Procs, Sole(p), Exit(p), v3' = v3
    PROVE  /\ pc' \in [Procs -> Steps]
           /\ op' \in [Procs -> {"none", "failed", "completed", "retry"}]
           /\ at' \in [Procs -> Nat]
           /\ audit' \in [Procs -> Seal]
           /\ rcpt' \in [Procs -> Receipt]
           /\ lock' \in Procs \cup {Nobody}
           /\ LockOK' /\ Alone(p) /\ LocalOK(p)'
  <1>1. /\ pc' \in [Procs -> Steps]
        /\ op' \in [Procs -> {"none", "failed", "completed", "retry"}]
        /\ at' \in [Procs -> Nat]
        /\ audit' \in [Procs -> Seal]
        /\ rcpt' \in [Procs -> Receipt]
        /\ lock' \in Procs \cup {Nobody}
    BY Values DEF Exit, TypeOK, Steps
  <1>2. Alone(p) /\ pc'[p] = "idle"
    BY DEF Exit, TypeOK, Alone
  <1>3. LockOK'
    BY <1>2, HandoffConfiguration DEF Exit, TypeOK, LockOK, Sole, HandoffConfiguration, Alone
  <1>4. LocalOK(p)'
    BY <1>2 DEF LocalOK, HeldOK, LooseOK, Executing, Completing, Writing, Archiving, V3Only, RetryPC
  <1> QED BY <1>1, <1>2, <1>3, <1>4

\* A call that returns or raises, or a process that is killed.
LEMMA ExitKeeps ==
    ASSUME IndInv, NEW p \in Procs, Sole(p), Exit(p), UNCHANGED <<row, receipt, archive, claims>>,
           UNCHANGED <<v3, prep, replaced, clock, restarts>>, crashes' \in Nat,
           drafts' \in Bundle, frozen' \in BOOLEAN
    PROVE  IndInv'
  <1>1. TypeOK'
    BY ExitLocals DEF IndInv, TypeOK, row, Steps
  <1> QED BY <1>1, ExitLocals, MoveKeeps DEF IndInv, row

\* A process that goes on to another step, with the row and the files as they were.
LocalsType ==
    /\ pc \in [Procs -> Steps]
    /\ op \in [Procs -> {"none", "failed", "completed", "retry"}]
    /\ at \in [Procs -> Nat] /\ audit \in [Procs -> Seal] /\ rcpt \in [Procs -> Receipt]

LEMMA GotoKeeps ==
    ASSUME IndInv, NEW p \in Procs, pc[p] # "idle", pc'[p] # "idle", Alone(p), LocalsType',
           UNCHANGED <<lock, row, files, world, claims>>, LocalOK(p)'
    PROVE  IndInv'
  <1>1. TypeOK'
    BY DEF IndInv, TypeOK, LocalsType, row, files, world, Steps
  <1>2. LockOK'
    BY Facts DEF LockOK, Alone, world
  <1> QED BY <1>1, <1>2, HolderSole, MoveKeeps DEF row, files, world

-----------------------------------------------------------------------------
(* finalize_handoff.                                                       *)

LEMMA StartFinalizeKeeps ==
    ASSUME IndInv, NEW p \in Procs, StartFinalize(p)
    PROVE  IndInv'
  <1>1. TypeOK'
    BY Facts DEF StartFinalize, Goto, TypeOK, row, files, world, FinalizePC
  <1>2. Alone(p) /\ pc'[p] = "load"
    BY Facts DEF StartFinalize, Goto, TypeOK, Alone
  <1>3. Sole(p) /\ LockOK'
    BY <1>2, Facts, HandoffConfiguration
    DEF StartFinalize, Sole, LockOK, Alone, HandoffConfiguration, world
  <1>4. LocalOK(p)'
    BY <1>2 DEF LocalOK, HeldOK, LooseOK, Executing, Completing, Writing, Archiving, V3Only, RetryPC
  <1> QED BY <1>1, <1>2, <1>3, <1>4, MoveKeeps DEF StartFinalize, row, files, world

LEMMA LoadSealKeeps ==
    ASSUME IndInv, NEW p \in Procs, LoadSeal(p)
    PROVE  IndInv'
  <1>0. /\ pc[p] = "load" /\ TypeOK /\ audit \in [Procs -> Seal] /\ pc \in [Procs -> Steps]
        /\ seal \in Seal /\ SealOK /\ UNCHANGED <<row, files, world, claims>>
    BY Facts DEF LoadSeal, TypeOK, Steps
  <1>1. ASSUME status = "awaiting_draft",
               seal.status \in {"awaiting_draft", "validating"},
               audit' = [audit EXCEPT ![p] = seal], Goto(p, "read"),
               UNCHANGED <<lock, op, at, rcpt>>
        PROVE  IndInv'
    <2>1. pc'[p] = "read" /\ audit'[p] = seal /\ Alone(p) /\ LocalsType'
      BY <1>0, <1>1 DEF Goto, LocalsType, Alone, TypeOK, Steps, FinalizePC
    <2>2. ~v3 => seal.attempt = 1 /\ seal.history = <<>> /\ seal.transitions = <<>>
      BY <1>0, <1>1, SealParts DEF SealOK, Contiguous, RowSeal
    <2>3. LocalOK(p)'
      BY <1>0, <1>1, <2>1, <2>2 DEF LocalOK, HeldOK, LooseOK, Executing, Completing, Writing,
         Archiving, V3Only, RetryPC, row, world
    <2> QED BY <1>0, <1>1, <2>1, <2>3, GotoKeeps
  <1>2. ASSUME status = "completed",
               seal.status \in {"validating", "completed"},
               audit' = [audit EXCEPT ![p] = seal], Goto(p, "recover"),
               UNCHANGED <<lock, op, at, rcpt>>
        PROVE  IndInv'
    <2>1. pc'[p] = "recover" /\ audit'[p] = seal /\ Alone(p) /\ LocalsType'
      BY <1>0, <1>2 DEF Goto, LocalsType, Alone, TypeOK, Steps, FinalizePC
    <2>2. ~v3 => seal.attempt = 1 /\ seal.history = <<>> /\ seal.transitions = <<>>
      BY <1>0, <1>2, SealParts DEF SealOK, Contiguous, RowSeal
    <2>3. LocalOK(p)'
      BY <1>0, <1>2, <2>1, <2>2 DEF LocalOK, HeldOK, LooseOK, Executing, Completing, Writing,
         Archiving, V3Only, RetryPC, row, world
    <2> QED BY <1>0, <1>2, <2>1, <2>3, GotoKeeps
  <1>3. ASSUME Exit(p) PROVE IndInv'
    BY <1>0, <1>3, HolderSole, ExitKeeps DEF TypeOK, files, world
  <1> QED BY <1>0, <1>1, <1>2, <1>3 DEF LoadSeal

\* The drafts that pass the chronology of an attempt were made since its retry.
LEMMA AdmissibleSince ==
    ASSUME v3, NEW s \in Seal, s.attempt \in Attempts, Len(s.transitions) = s.attempt - 1,
           NEW d \in Bundle, NEW fin \in Nat, Admissible(d, fin, s)
    PROVE  s.attempt = 1 \/ (s.transitions[s.attempt - 1] <= d.gen
                               /\ s.transitions[s.attempt - 1] <= fin)
  BY SealParts, HandoffConfiguration DEF Admissible, Last, Attempts, HandoffConfiguration

LEMMA ReadDraftsKeeps ==
    ASSUME IndInv, NEW p \in Procs, ReadDrafts(p)
    PROVE  IndInv'
  <1> DEFINE fin == IF audit[p].status = "validating" THEN audit[p].finalized_at ELSE at[p]
             a == [status |-> "validating", attempt |-> audit[p].attempt,
                   drafts |-> drafts, finalized_at |-> fin,
                   history |-> audit[p].history, transitions |-> audit[p].transitions]
  <1>0. /\ pc[p] = "read" /\ TypeOK /\ audit \in [Procs -> Seal] /\ pc \in [Procs -> Steps]
        /\ audit[p] \in Seal /\ UNCHANGED <<row, files, world, claims>>
        /\ drafts \in Bundle /\ fin \in Nat
    BY Facts, SealParts DEF ReadDrafts, TypeOK, Steps
  <1>1. ASSUME drafts # NoDraft, Admissible(drafts, fin, audit[p]),
               audit' = [audit EXCEPT ![p] = a],
               Goto(p, IF v3 THEN "seal" ELSE "begin"), UNCHANGED <<lock, op, at, rcpt>>
        PROVE  IndInv'
    <2>1. a \in Seal
      BY <1>0, SealParts DEF Seal
    <2> HIDE DEF a
    <2>2. /\ pc'[p] = (IF v3 THEN "seal" ELSE "begin") /\ audit'[p] = a
          /\ Alone(p) /\ LocalsType'
      BY <1>0, <1>1, <2>1 DEF Goto, LocalsType, Alone, TypeOK, Steps, FinalizePC
    <2> USE DEF a
    <2> HIDE DEF fin
    <2>3. v3 => SinceRetry(seal.attempt, a, seal.transitions)
      <3>1. v3 => /\ audit[p] = seal /\ seal.status \in {"awaiting_draft", "validating"}
                  /\ seal.attempt \in Attempts /\ Len(seal.transitions) = seal.attempt - 1
        BY <1>0, Facts DEF HeldOK, SealOK, Contiguous
      <3> QED BY <1>0, <1>1, <3>1, AdmissibleSince DEF SinceRetry
    <2>4. v3 => HeldOK(p)'
      BY <1>0, <1>1, <2>2, <2>3, Facts
      DEF HeldOK, Executing, Completing, Writing, Archiving, row, world
    <2>5. ~v3 => LooseOK(p)'
      BY <1>0, <1>1, <2>2, Facts
      DEF LooseOK, Executing, Completing, V3Only, RetryPC, row, world
    <2>6. LocalOK(p)'
      BY <1>0, <2>4, <2>5 DEF LocalOK, world
    <2> QED BY <1>0, <1>1, <2>2, <2>6, GotoKeeps
  <1>2. ASSUME Exit(p) PROVE IndInv'
    BY <1>0, <1>2, HolderSole, ExitKeeps DEF TypeOK, files, world
  <1> QED BY <1>0, <1>1, <1>2 DEF ReadDrafts

\* A step that changes the row: what it must keep.
LEMMA StepKeeps ==
    ASSUME IndInv, NEW p \in Procs, Sole(p), Alone(p), TypeOK', LockOK', LocalOK(p)',
           SealOK', EpochOrder', OutputSealed', ClaimsOK', SlotOK', ArchiveMatches', v3' = v3,
           ~v3 /\ seal.status # "none" => seal'.status # "none",
           ~v3 /\ status = "completed" => status' = "completed"
    PROVE  IndInv'
  BY OthersKeep DEF IndInv

\* The working process stays at work, or leaves: the lock agrees.
LEMMA WorkLock ==
    ASSUME IndInv, NEW p \in Procs, pc[p] # "idle", pc'[p] # "idle", Alone(p),
           UNCHANGED <<lock, v3>>
    PROVE  LockOK'
  BY Facts DEF LockOK, Alone

LEMMA SealValidatingKeeps ==
    ASSUME IndInv, NEW p \in Procs, SealValidating(p)
    PROVE  IndInv'
  <1>0. /\ pc[p] = "seal" /\ TypeOK /\ audit[p] \in Seal /\ Sole(p) /\ v3 /\ v3' = v3
        /\ UNCHANGED <<status, error, completed_at, output, files, world, claims>>
        /\ HeldOK(p) /\ SealOK /\ EpochOrder
    BY Facts, HolderSole DEF SealValidating, LooseOK, V3Only, world
  <1>1. ASSUME seal' = audit[p], Goto(p, "begin"), UNCHANGED <<lock, locals>>
        PROVE  IndInv'
    <2>1. pc'[p] = "begin" /\ audit'[p] = audit[p] /\ Alone(p) /\ TypeOK'
      BY <1>0, <1>1 DEF Goto, Alone, TypeOK, FinalizePC, locals, files, world
    <2>2. /\ status = "awaiting_draft" /\ seal.status # "none" /\ prep = "done"
          /\ seal.attempt \in Attempts /\ Contiguous(seal)
          /\ audit[p].status = "validating" /\ audit[p].drafts # NoDraft
          /\ audit[p].attempt = seal.attempt /\ audit[p].history = seal.history
          /\ audit[p].transitions = seal.transitions
          /\ SinceRetry(seal.attempt, audit[p], seal.transitions)
      BY <1>0 DEF HeldOK, SealOK
    <2>2a. seal.status \in {"awaiting_draft", "validating"}
      BY <1>0, <2>2 DEF SealOK, RowSeal
    <2>3. SealOK'
      BY <1>0, <1>1, <2>2, <2>2a DEF SealOK, RowSeal, Contiguous, world
    <2>4. EpochOrder'
      BY <1>0, <1>1, <2>2, <2>3 DEF EpochOrder, SinceRetry, SealOK
    <2>5. OutputSealed' /\ ClaimsOK' /\ SlotOK' /\ ArchiveMatches'
      BY <1>0, <1>1, <2>2, Facts
      DEF OutputSealed, ClaimsOK, SlotOK, ArchiveMatches, files, world
    <2>6. LocalOK(p)'
      BY <1>0, <1>1, <2>1, <2>2
      DEF LocalOK, HeldOK, Executing, Completing, Writing, Archiving, files, world
    <2>7. LockOK'
      BY <1>0, <1>1, <2>1, WorkLock
    <2> QED BY <1>0, <2>1, <2>3, <2>4, <2>5, <2>6, <2>7, StepKeeps
  <1>2. ASSUME Exit(p), UNCHANGED seal PROVE IndInv'
    BY <1>0, <1>2, ExitKeeps DEF TypeOK, files, world, row
  <1> QED BY <1>0, <1>1, <1>2 DEF SealValidating

LEMMA RuntimeDriftKeeps ==
    ASSUME IndInv, NEW p \in Procs, RuntimeDrift(p)
    PROVE  IndInv'
  BY HolderSole, ExitKeeps, Facts DEF RuntimeDrift, TypeOK, files, world

\* What execute_prepared raises leads to a failed receipt of the attempt.
LEMMA RaiseLocals ==
    ASSUME IndInv, NEW p \in Procs, pc[p] # "idle", NEW e \in Errors, Raise(p, e),
           UNCHANGED v3
    PROVE  /\ LocalsType' /\ Alone(p) /\ LockOK' /\ audit'[p] = audit[p]
           /\ pc'[p] = (IF v3 THEN "publish" ELSE "create") /\ op'[p] = "failed"
           /\ rcpt'[p] = FailedReceipt(audit[p], e)
           /\ rcpt'[p] = FailedReceipt(audit[p], rcpt'[p].error)
           /\ lock' = lock
  <1>1. FailedReceipt(audit[p], e) \in Receipt /\ FailedReceipt(audit[p], e).error = e
    BY Facts, ReceiptParts
  <1>2. LocalsType' /\ Alone(p) /\ audit'[p] = audit[p] /\ op'[p] = "failed"
    BY <1>1, Facts DEF Raise, Goto, LocalsType, Alone, TypeOK, Steps, FinalizePC, ReceiptPC
  <1>3. /\ pc'[p] = (IF v3 THEN "publish" ELSE "create")
        /\ rcpt'[p] = FailedReceipt(audit[p], e)
    BY <1>1, Facts DEF Raise, Goto, TypeOK
  <1>4. LockOK'
    BY <1>2, <1>3, WorkLock, Facts DEF Raise
  <1> QED BY <1>1, <1>2, <1>3, <1>4 DEF Raise

\* The claim of the run: it happens at most once for every attempt.
LEMMA ClaimKeeps ==
    ASSUME IndInv, NEW p \in Procs, pc[p] = "begin", status = "awaiting_draft",
           status' = "running", claims' = [claims EXCEPT ![seal.attempt] = @ + 1],
           Goto(p, "graph"),
           UNCHANGED <<error, completed_at, lock, locals, seal, output, files, world>>
    PROVE  IndInv'
  <1>0. claims' \in [Attempts -> Nat]
    <2>1. claims \in [Attempts -> Nat] /\ seal.attempt \in Attempts
      BY Facts, SealParts DEF HeldOK, LooseOK, SealOK, RowSeal, Executing, TypeOK
    <2> QED BY <2>1
  <1>1. pc'[p] = "graph" /\ audit'[p] = audit[p] /\ Alone(p) /\ TypeOK' /\ v3' = v3
    BY <1>0, Facts DEF Goto, Alone, TypeOK, FinalizePC, locals, files, world, Status
  <1>2. /\ seal.status = IF v3 THEN "validating" ELSE "awaiting_draft"
        /\ seal.attempt \in Attempts /\ seal.attempt \in Nat
    BY Facts, SealParts DEF HeldOK, LooseOK, SealOK, RowSeal, Executing
  <1>3. SealOK' /\ EpochOrder' /\ OutputSealed' /\ SlotOK' /\ ArchiveMatches'
    BY <1>1, <1>2, Facts
    DEF SealOK, RowSeal, Contiguous, EpochOrder, OutputSealed, SlotOK, ArchiveMatches, files, world
  <1>4. ClaimsOK'
    <2>1. claims \in [Attempts -> Nat] /\ claims[seal.attempt] = 0
      BY <1>2, Facts DEF ClaimsOK, TypeOK
    <2> QED BY <1>2, <2>1, Facts DEF ClaimsOK
  <1>5. LocalOK(p)'
    BY <1>1, <1>2, Facts
    DEF LocalOK, HeldOK, LooseOK, Executing, Completing, Writing, Archiving, V3Only, RetryPC, files
  <1> QED BY <1>1, <1>3, <1>4, <1>5, WorkLock, HolderSole, StepKeeps

\* A failure recorded in the row, of an attempt that waits or runs.
LEMMA FailRowKeeps ==
    ASSUME IndInv, NEW p \in Procs, pc[p] \in Executing,
           status \in {"awaiting_draft", "running"},
           status' = "failed", NEW e \in Errors, error' = e, completed_at' = clock,
           Raise(p, e), UNCHANGED <<seal, output, files, world, claims>>
    PROVE  IndInv'
  <1>0. pc[p] # "idle" /\ v3' = v3
    BY DEF Executing, world
  <1>1. TypeOK'
    BY <1>0, RaiseLocals, Facts DEF TypeOK, LocalsType, Steps, Raise, files, world, Status
  <1>2. seal.status = IF v3 THEN "validating" ELSE "awaiting_draft"
    BY Facts, SealParts DEF HeldOK, LooseOK, SealOK, RowSeal, Executing
  <1>3. SealOK' /\ EpochOrder' /\ OutputSealed' /\ SlotOK' /\ ArchiveMatches' /\ ClaimsOK'
    BY <1>0, <1>2, Facts
    DEF SealOK, RowSeal, Contiguous, EpochOrder, OutputSealed, SlotOK, ArchiveMatches, ClaimsOK,
        files, world
  <1>4. LocalOK(p)'
    BY <1>0, <1>2, RaiseLocals, Facts
    DEF LocalOK, HeldOK, LooseOK, Executing, Completing, Writing, Archiving, V3Only, RetryPC, files
  <1> QED BY <1>0, <1>1, <1>2, <1>3, <1>4, RaiseLocals, HolderSole, StepKeeps

\* A failure the row already knows, or that is not recorded.
LEMMA RaiseKeeps ==
    ASSUME IndInv, NEW p \in Procs, pc[p] \in Executing, v3 => status = "failed",
           NEW e \in Errors, Raise(p, e), UNCHANGED <<row, files, world, claims>>
    PROVE  IndInv'
  <1>0. pc[p] # "idle" /\ v3' = v3
    BY DEF Executing, world
  <1>1. LocalOK(p)'
    BY <1>0, RaiseLocals, Facts
    DEF LocalOK, HeldOK, LooseOK, Executing, Completing, Writing, Archiving, V3Only, RetryPC, row
  <1> QED BY <1>0, <1>1, RaiseLocals, GotoKeeps

LEMMA BeginExecutionKeeps ==
    ASSUME IndInv, NEW p \in Procs, BeginExecution(p)
    PROVE  IndInv'
  <1>1. v3 => status = "awaiting_draft" /\ FenceHolds(p)
    BY Facts DEF BeginExecution, HeldOK, Executing, FenceHolds, Token
  <1>2. pc[p] \in Executing /\ {"invalid", "stale", "claimed"} \subseteq Errors
    BY DEF BeginExecution, Executing, Errors
  <1> QED BY <1>1, <1>2, ClaimKeeps, FailRowKeeps, RaiseKeeps DEF BeginExecution, row

LEMMA GraphReturnsKeeps ==
    ASSUME IndInv, NEW p \in Procs, GraphReturns(p)
    PROVE  IndInv'
  <1>1. PICK next \in {"finalize", "mark_failed"} : Goto(p, next)
    BY DEF GraphReturns
  <1>2. pc'[p] = next /\ Alone(p) /\ LocalsType' /\ audit'[p] = audit[p]
    BY <1>1, Facts DEF GraphReturns, Goto, Alone, LocalsType, TypeOK, Steps, FinalizePC, locals
  <1>3. LocalOK(p)'
    BY <1>2, Facts
    DEF GraphReturns, LocalOK, HeldOK, LooseOK, Executing, Completing, Writing, Archiving, V3Only,
        RetryPC, row, world
  <1> QED BY <1>2, <1>3, GotoKeeps DEF GraphReturns

\* The publishing transaction: output, row and seal change together.
LEMMA PublishKeeps ==
    ASSUME IndInv, NEW p \in Procs, pc[p] = "finalize", status = "running",
           status' = "completed", error' = "none", completed_at' = clock,
           output' = audit[p].drafts, seal' = audit[p], Goto(p, "promote"),
           UNCHANGED <<lock, locals, files, world, claims>>
    PROVE  IndInv'
  <1>0. /\ TypeOK /\ audit[p] \in Seal /\ audit[p].drafts \in Bundle /\ SealOK
        /\ audit[p].status = "validating" /\ audit[p].drafts # NoDraft
        /\ v3 => audit[p] = seal
        /\ ~v3 => audit[p].attempt = 1 /\ audit[p].history = <<>> /\ audit[p].transitions = <<>>
        /\ seal.status # "none" /\ seal.attempt \in Attempts /\ prep = "done"
        /\ ~v3 => seal.attempt = 1
    BY Facts, SealParts DEF HeldOK, LooseOK, Executing, SealOK
  <1>1. pc'[p] = "promote" /\ audit'[p] = audit[p] /\ Alone(p) /\ TypeOK' /\ v3' = v3
    BY <1>0 DEF Goto, Alone, TypeOK, FinalizePC, locals, files, world, Status, Errors
  <1>2. SealOK'
    BY <1>0, <1>1 DEF SealOK, RowSeal, Contiguous, world
  <1>3. EpochOrder'
    <2>1. CASE v3
      BY <1>0, <1>1, <2>1, Facts DEF EpochOrder, Contiguous
    <2>2. CASE ~v3
      BY <1>0, <1>1, <2>2 DEF EpochOrder
    <2> QED BY <2>1, <2>2
  <1>4. OutputSealed' /\ ClaimsOK' /\ SlotOK' /\ ArchiveMatches'
    BY <1>0, <1>1, Facts DEF OutputSealed, ClaimsOK, SlotOK, ArchiveMatches, files, world
  <1>5. LocalOK(p)'
    BY <1>0, <1>1, Facts
    DEF LocalOK, HeldOK, LooseOK, Executing, Completing, Writing, Archiving, V3Only, RetryPC, files
  <1> QED BY <1>0, <1>1, <1>2, <1>3, <1>4, <1>5, WorkLock, HolderSole, StepKeeps

LEMMA FinalizeResultKeeps ==
    ASSUME IndInv, NEW p \in Procs, FinalizeResult(p)
    PROVE  IndInv'
  <1>1. v3 => status \in {"running", "failed"} /\ FenceHolds(p)
    BY Facts DEF FinalizeResult, HeldOK, Executing, FenceHolds, Token
  <1>2. pc[p] = "finalize" /\ pc[p] \in Executing /\ "stale" \in Errors
    BY DEF FinalizeResult, Executing, Errors
  <1>3. ASSUME Goto(p, "mark_failed"), UNCHANGED <<row, lock, locals, files, world, claims>>
        PROVE  IndInv'
    <2>1. pc'[p] = "mark_failed" /\ Alone(p) /\ LocalsType' /\ audit'[p] = audit[p]
      BY <1>3, Facts DEF Goto, Alone, LocalsType, TypeOK, Steps, FinalizePC, locals
    <2>2. LocalOK(p)'
      BY <1>2, <1>3, <2>1, Facts
      DEF LocalOK, HeldOK, LooseOK, Executing, Completing, Writing, Archiving, V3Only, RetryPC,
          row, world
    <2> QED BY <1>2, <1>3, <2>1, <2>2, GotoKeeps
  <1> QED BY <1>1, <1>2, <1>3, PublishKeeps, RaiseKeeps DEF FinalizeResult

LEMMA MarkFailedKeeps ==
    ASSUME IndInv, NEW p \in Procs, MarkFailed(p)
    PROVE  IndInv'
  <1>1. v3 => status \in {"running", "failed"} /\ FenceHolds(p)
    BY Facts DEF MarkFailed, HeldOK, Executing, FenceHolds, Token
  <1>2. pc[p] \in Executing /\ {"graph", "stale"} \subseteq Errors
    BY DEF MarkFailed, Executing, Errors
  <1> QED BY <1>1, <1>2, FailRowKeeps, RaiseKeeps DEF MarkFailed, row

LEMMA PublishFailedKeeps ==
    ASSUME IndInv, NEW p \in Procs, PublishFailed(p)
    PROVE  IndInv'
  <1>0. /\ pc[p] = "publish" /\ TypeOK /\ UNCHANGED <<row, files, world, claims>>
        /\ v3 /\ HeldOK(p)
    BY Facts DEF PublishFailed, LooseOK, V3Only
  <1>1. ASSUME Goto(p, "create"), UNCHANGED <<lock, locals>> PROVE IndInv'
    <2>1. /\ pc'[p] = "create" /\ Alone(p) /\ LocalsType' /\ audit'[p] = audit[p]
          /\ op'[p] = op[p] /\ rcpt'[p] = rcpt[p]
      BY <1>1, Facts DEF Goto, Alone, LocalsType, TypeOK, Steps, ReceiptPC, locals
    <2>2. LocalOK(p)'
      BY <1>0, <2>1 DEF LocalOK, HeldOK, Executing, Completing, Writing, Archiving, row, world
    <2> QED BY <1>0, <1>1, <2>1, <2>2, GotoKeeps
  <1>2. ASSUME Exit(p) PROVE IndInv'
    BY <1>0, <1>2, HolderSole, ExitKeeps DEF TypeOK, files, world
  <1> QED BY <1>0, <1>1, <1>2 DEF PublishFailed

LEMMA PromoteSealKeeps ==
    ASSUME IndInv, NEW p \in Procs, PromoteSeal(p)
    PROVE  IndInv'
  <1> DEFINE done == [audit[p] EXCEPT !.status = "completed"]
  <1>0. /\ pc[p] = "promote" /\ TypeOK /\ audit[p] \in Seal /\ SealOK
        /\ UNCHANGED <<status, error, completed_at, output, files, world, claims>>
    BY Facts DEF PromoteSeal
  <1>a. /\ done \in Seal /\ done.status = "completed" /\ done.attempt = audit[p].attempt
        /\ done.drafts = audit[p].drafts /\ done.finalized_at = audit[p].finalized_at
        /\ done.history = audit[p].history /\ done.transitions = audit[p].transitions
    BY <1>0 DEF Seal
  <1> HIDE DEF done
  <1>1. ASSUME status = "completed", seal \in {done, audit[p]}, seal' = done,
               rcpt' = [rcpt EXCEPT ![p] = CompletedReceipt(done)],
               op' = [op EXCEPT ![p] = "completed"], Goto(p, "create"),
               UNCHANGED <<lock, at, audit>>
        PROVE  IndInv'
    <2>1. CompletedReceipt(done) \in Receipt
      BY <1>a, ReceiptParts DEF Errors
    <2>2. /\ pc'[p] = "create" /\ op'[p] = "completed" /\ rcpt'[p] = CompletedReceipt(done)
          /\ Alone(p) /\ TypeOK' /\ v3' = v3
      BY <1>0, <1>a, <1>1, <2>1 DEF Goto, Alone, TypeOK, ReceiptPC, files, world
    <2>3. /\ done.attempt = seal.attempt /\ done.drafts = seal.drafts
          /\ done.finalized_at = seal.finalized_at
          /\ done.history = seal.history /\ done.transitions = seal.transitions
          /\ seal.status \in {"validating", "completed"}
      BY <1>0, <1>a, <1>1 DEF SealOK, RowSeal
    <2>4. SealOK'
      BY <1>0, <1>a, <1>1, <2>2, <2>3 DEF SealOK, RowSeal, Contiguous, world
    <2>5. EpochOrder'
      BY <1>0, <1>a, <1>1, <2>2, <2>3, Facts DEF EpochOrder, Contiguous
    <2>6. OutputSealed' /\ ClaimsOK' /\ SlotOK' /\ ArchiveMatches'
      BY <1>0, <1>1, <2>2, <2>3, Facts
      DEF OutputSealed, ClaimsOK, SlotOK, ArchiveMatches, files
    <2>7. LocalOK(p)'
      BY <1>0, <1>a, <1>1, <2>2
      DEF LocalOK, HeldOK, LooseOK, Executing, Completing, Writing, Archiving, V3Only, RetryPC
    <2> QED BY <1>0, <1>a, <1>1, <2>2, <2>4, <2>5, <2>6, <2>7, WorkLock, HolderSole, StepKeeps
  <1>2. ASSUME Exit(p), UNCHANGED seal PROVE IndInv'
    BY <1>0, <1>2, HolderSole, ExitKeeps DEF TypeOK, files, world, row
  <1> QED BY <1>0, <1>1, <1>2 DEF PromoteSeal, done

LEMMA RecoverCompletedKeeps ==
    ASSUME IndInv, NEW p \in Procs, RecoverCompleted(p)
    PROVE  IndInv'
  <1>0. pc[p] = "recover" /\ TypeOK /\ UNCHANGED <<row, files, world, claims>>
    BY Facts DEF RecoverCompleted
  <1>1. ASSUME Goto(p, "promote"), UNCHANGED <<lock, locals>> PROVE IndInv'
    <2>1. pc'[p] = "promote" /\ Alone(p) /\ LocalsType' /\ audit'[p] = audit[p]
      BY <1>1, Facts DEF Goto, Alone, LocalsType, TypeOK, Steps, FinalizePC, locals
    <2>2. LocalOK(p)'
      BY <1>0, <2>1, Facts
      DEF LocalOK, HeldOK, LooseOK, Executing, Completing, Writing, Archiving, V3Only, RetryPC,
          row, world
    <2> QED BY <1>0, <1>1, <2>1, <2>2, GotoKeeps
  <1>2. ASSUME Exit(p) PROVE IndInv'
    BY <1>0, <1>2, HolderSole, ExitKeeps DEF TypeOK, files, world
  <1> QED BY <1>0, <1>1, <1>2 DEF RecoverCompleted

-----------------------------------------------------------------------------
(* The receipt and the failed seal.                                        *)

\* A step of the receipt's writer: only receipt.json and drafts.json's mode change.
LEMMA WriterKeeps ==
    ASSUME IndInv, NEW p \in Procs, pc[p] # "idle", pc'[p] \in Steps \ {"idle"},
           Goto(p, pc'[p]), UNCHANGED <<lock, locals, row, drafts, archive, world, claims>>,
           receipt' \in Receipt, frozen' \in BOOLEAN, SlotOK', LocalOK(p)'
    PROVE  IndInv'
  <1>1. TypeOK' /\ Alone(p)
    BY Facts DEF Goto, Alone, TypeOK, locals, row, world, Steps
  <1>2. SealOK' /\ EpochOrder' /\ OutputSealed' /\ ClaimsOK' /\ ArchiveMatches'
    BY Facts
    DEF SealOK, RowSeal, Contiguous, EpochOrder, OutputSealed, ClaimsOK, ArchiveMatches, row, world
  <1> QED BY <1>1, <1>2, WorkLock, HolderSole, StepKeeps DEF row, world

LEMMA CreateReceiptKeeps ==
    ASSUME IndInv, NEW p \in Procs, CreateReceipt(p)
    PROVE  IndInv'
  <1>0. /\ pc[p] = "create" /\ TypeOK /\ pc \in [Procs -> Steps]
        /\ UNCHANGED <<row, drafts, frozen, archive, world, claims>>
    BY Facts DEF CreateReceipt, TypeOK, Steps
  <1>1. ASSUME receipt' = TornReceipt, Goto(p, "fill"), UNCHANGED <<lock, locals>>
        PROVE  IndInv'
    <2>1. pc'[p] = "fill"
      BY <1>0, <1>1 DEF Goto
    <2>2. SlotOK'
      BY <1>1, Values DEF SlotOK
    <2>3. LocalOK(p)'
      BY <1>0, <1>1, <2>1, Facts
      DEF LocalOK, HeldOK, LooseOK, Executing, Completing, Writing, Archiving, V3Only, RetryPC,
          row, world, locals
    <2> QED BY <1>0, <1>1, <2>1, <2>2, <2>3, Values, WriterKeeps DEF Steps, ReceiptPC, TypeOK
  <1>2. ASSUME Goto(p, "chmod"), UNCHANGED <<receipt, lock, locals>>
        PROVE  IndInv'
    <2>1. pc'[p] = "chmod"
      BY <1>0, <1>2 DEF Goto
    <2>2. SlotOK'
      BY <1>0, <1>2, Facts DEF SlotOK, row, world
    <2>3. LocalOK(p)'
      BY <1>0, <1>2, <2>1, Facts
      DEF LocalOK, HeldOK, LooseOK, Executing, Completing, Writing, Archiving, V3Only, RetryPC,
          row, world, locals
    <2> QED BY <1>0, <1>2, <2>1, <2>2, <2>3, WriterKeeps DEF Steps, ReceiptPC, TypeOK
  <1>3. ASSUME Exit(p), UNCHANGED receipt PROVE IndInv'
    BY <1>0, <1>3, HolderSole, ExitKeeps DEF TypeOK, world
  <1> QED BY <1>0, <1>1, <1>2, <1>3 DEF CreateReceipt

LEMMA FillReceiptKeeps ==
    ASSUME IndInv, NEW p \in Procs, FillReceipt(p)
    PROVE  IndInv'
  <1>1. pc[p] = "fill" /\ pc'[p] = "chmod"
    BY Facts DEF FillReceipt, Goto, TypeOK
  <1>2. SlotOK'
    <2>1. v3 /\ op[p] = "completed" => status = "completed" /\ rcpt[p] = CompletedReceipt(seal)
      BY <1>1, Facts DEF HeldOK, Writing
    <2>2. v3 /\ op[p] # "completed" =>
            status = "failed" /\ rcpt[p] = FailedReceipt(seal, rcpt[p].error)
      BY <1>1, Facts DEF HeldOK, Writing
    <2>3. rcpt[p].error \in Errors /\ seal \in Seal
      BY Facts DEF Receipt
    <2> QED BY <2>1, <2>2, <2>3, ReceiptParts DEF FillReceipt, SlotOK, row, world
  <1>3. LocalOK(p)'
    BY <1>1, Facts
    DEF FillReceipt, LocalOK, HeldOK, LooseOK, Executing, Completing, Writing, Archiving, V3Only,
        RetryPC, row, world, locals
  <1>4. "chmod" \in Steps \ {"idle"} /\ frozen \in BOOLEAN /\ rcpt[p] \in Receipt
    BY Facts DEF Steps, ReceiptPC, TypeOK
  <1> QED BY <1>1, <1>2, <1>3, <1>4, WriterKeeps DEF FillReceipt

LEMMA FreezeDraftsKeeps ==
    ASSUME IndInv, NEW p \in Procs, FreezeDrafts(p)
    PROVE  IndInv'
  <1>0. /\ pc[p] = "chmod" /\ TypeOK /\ pc \in [Procs -> Steps] /\ frozen' \in BOOLEAN
        /\ UNCHANGED <<row, drafts, receipt, archive, world, claims>>
    BY Facts DEF FreezeDrafts, TypeOK, Steps
  <1>1. ASSUME v3, op[p] \in {"failed", "retry"}, Goto(p, "seal_failed"), UNCHANGED <<lock, locals>>
        PROVE  IndInv'
    <2>1. pc'[p] = "seal_failed"
      BY <1>0, <1>1 DEF Goto
    <2>2. SlotOK'
      BY <1>0, <1>1, Facts DEF SlotOK, row, world
    <2>3. LocalOK(p)'
      BY <1>0, <1>1, <2>1, Facts
      DEF LocalOK, HeldOK, Executing, Completing, Writing, Archiving, row, world, locals
    <2> QED BY <1>0, <1>1, <2>1, <2>2, <2>3, WriterKeeps DEF Steps, ReceiptPC, TypeOK
  <1>2. ASSUME Exit(p) PROVE IndInv'
    BY <1>0, <1>2, HolderSole, ExitKeeps DEF TypeOK, world
  <1> QED BY <1>0, <1>1, <1>2 DEF FreezeDrafts

\* A sequence with one more element.
LEMMA AppendParts ==
    ASSUME NEW T, NEW s \in Seq(T), NEW x \in T
    PROVE  /\ Append(s, x) \in Seq(T) /\ Len(Append(s, x)) = Len(s) + 1
           /\ Append(s, x) # <<>> /\ Last(Append(s, x)) = x
           /\ \A i \in 1..Len(s) : Append(s, x)[i] = s[i]
           /\ Append(s, x)[Len(s) + 1] = x
           /\ DOMAIN s = 1..Len(s) /\ DOMAIN Append(s, x) = 1..(Len(s) + 1)
           /\ Len(s) \in Nat
  BY DEF Last

\* The seal of a failed attempt.
FailedSeal ==
    [status |-> "failed", attempt |-> seal.attempt, drafts |-> seal.drafts,
     finalized_at |-> seal.finalized_at,
     history |-> Append(seal.history,
         [attempt |-> seal.attempt, drafts |-> seal.drafts,
          finalized_at |-> seal.finalized_at,
          completed_at |-> completed_at, error |-> error]),
     transitions |-> seal.transitions]

\* It is the seal of the attempt with one entry more, and keeps the order of epochs.
LEMMA FailedSealKeeps ==
    ASSUME IndInv, NEW p \in Procs, v3, seal.status = "validating", status = "failed",
           seal' = FailedSeal, UNCHANGED <<status, error, completed_at, output, files, world, claims>>
    PROVE  /\ seal' \in Seal /\ seal'.status = "failed" /\ seal'.attempt = seal.attempt
           /\ SealOK' /\ EpochOrder' /\ OutputSealed' /\ ClaimsOK' /\ SlotOK' /\ ArchiveMatches'
  <1> DEFINE e == [attempt |-> seal.attempt, drafts |-> seal.drafts,
                   finalized_at |-> seal.finalized_at,
                   completed_at |-> completed_at, error |-> error]
  <1>0. /\ TypeOK /\ SealOK /\ EpochOrder /\ seal \in Seal /\ completed_at \in Nat
        /\ error \in Errors /\ v3' = v3 /\ prep' = prep
    BY Facts DEF TypeOK, world
  <1>1. e \in Entry /\ e.attempt = seal.attempt /\ e.drafts = seal.drafts
        /\ e.finalized_at = seal.finalized_at
    BY <1>0, SealParts DEF Entry
  <1>2. seal' = [status |-> "failed", attempt |-> seal.attempt, drafts |-> seal.drafts,
                 finalized_at |-> seal.finalized_at, history |-> Append(seal.history, e),
                 transitions |-> seal.transitions]
    BY DEF FailedSeal
  <1> HIDE DEF e
  <1>3. /\ Append(seal.history, e) \in Seq(Entry)
        /\ Len(Append(seal.history, e)) = Len(seal.history) + 1
        /\ Last(Append(seal.history, e)) = e
        /\ \A i \in 1..Len(seal.history) : Append(seal.history, e)[i] = seal.history[i]
        /\ Append(seal.history, e)[Len(seal.history) + 1] = e
        /\ DOMAIN seal.history = 1..Len(seal.history)
        /\ DOMAIN Append(seal.history, e) = 1..(Len(seal.history) + 1)
        /\ Len(seal.history) \in Nat
    BY <1>0, <1>1, SealParts, AppendParts
  <1>4. /\ seal' \in Seal /\ seal'.status = "failed" /\ seal'.attempt = seal.attempt
        /\ seal'.drafts = seal.drafts /\ seal'.finalized_at = seal.finalized_at
        /\ seal'.transitions = seal.transitions /\ seal'.history = Append(seal.history, e)
    <2>1. seal' \in Seal
      BY <1>0, <1>2, <1>3, SealParts DEF Seal
    <2> QED BY <1>2, <2>1
  <1>5. /\ seal.attempt \in Attempts /\ Len(seal.history) = seal.attempt - 1
        /\ Len(seal.transitions) = seal.attempt - 1 /\ seal.attempt \in Nat
        /\ seal.drafts # NoDraft /\ prep = "done"
        /\ DOMAIN seal.transitions = 1..Len(seal.transitions)
    BY <1>0, SealParts DEF SealOK, Contiguous
  <1>6. SealOK'
    BY <1>0, <1>1, <1>3, <1>4, <1>5 DEF SealOK, RowSeal, Contiguous
  <1>7. EpochOrder'
    <2>1. \A n \in 1..(Len(seal.history) + 1) : n \in 1..Len(seal.history) \/ n = seal.attempt
      BY <1>3, <1>5
    <2>2. \A n \in DOMAIN seal.history :
            seal.history[n].attempt = n /\ SinceRetry(n, seal.history[n], seal.transitions)
      BY <1>0 DEF EpochOrder, SinceRetry
    <2>3. SinceRetry(seal.attempt, e, seal.transitions)
      BY <1>0, <1>1 DEF EpochOrder, SinceRetry
    <2>4. \A n \in DOMAIN seal'.history :
            seal'.history[n].attempt = n /\ SinceRetry(n, seal'.history[n], seal'.transitions)
      BY <1>1, <1>3, <1>4, <1>5, <2>1, <2>2, <2>3
    <2>5. \A n \in DOMAIN seal.transitions :
            n \in 1..Len(seal.history) /\ seal'.history[n] = seal.history[n]
      BY <1>3, <1>4, <1>5
    <2> QED BY <1>0, <1>3, <1>4, <1>6, <2>4, <2>5 DEF EpochOrder, SinceRetry, SealOK
  <1>8. OutputSealed' /\ ClaimsOK' /\ SlotOK'
    BY <1>0, <1>4, Facts DEF OutputSealed, ClaimsOK, SlotOK, files
  <1>9. ArchiveMatches'
    <2>1. \A n \in Attempts : n < seal.attempt => n \in 1..Len(seal.history)
      BY <1>3, <1>5 DEF Attempts
    <2> QED BY <1>0, <1>3, <1>4, <2>1, Facts DEF ArchiveMatches, files
  <1> QED BY <1>4, <1>6, <1>7, <1>8, <1>9

LEMMA SealFailedKeeps ==
    ASSUME IndInv, NEW p \in Procs, SealFailed(p)
    PROVE  IndInv'
  <1>0. /\ pc[p] = "seal_failed" /\ TypeOK /\ v3 /\ v3' = v3 /\ HeldOK(p) /\ LockOK
        /\ UNCHANGED <<status, error, completed_at, output, files, world, claims>> /\ Sole(p)
    BY Facts, HolderSole DEF SealFailed, LooseOK, V3Only, world
  <1>1. status = "failed" /\ seal.status = "validating"
    BY <1>0 DEF HeldOK
  <1>2. ASSUME seal' = FailedSeal, audit' = [audit EXCEPT ![p] = seal'], Goto(p, "verify"),
               UNCHANGED <<lock, op, at, rcpt>>
        PROVE  IndInv'
    <2>1. seal' \in Seal /\ seal'.status = "failed"
      BY <1>0, <1>1, <1>2, FailedSealKeeps
    <2>2. pc'[p] = "verify" /\ audit'[p] = seal' /\ Alone(p) /\ TypeOK'
      BY <1>0, <1>2, <2>1 DEF Goto, Alone, TypeOK, RetryPC, files, world
    <2>3. LocalOK(p)'
      BY <1>0, <1>1, <2>1, <2>2 DEF LocalOK, HeldOK, Executing, Completing, Writing, Archiving
    <2> QED BY <1>0, <1>1, <1>2, <2>2, <2>3, FailedSealKeeps, WorkLock, StepKeeps
  <1>3. ASSUME seal' = FailedSeal, Exit(p) PROVE IndInv'
    <2>1. TypeOK'
      BY <1>0, <1>1, <1>3, ExitLocals, FailedSealKeeps DEF TypeOK, files, world, Steps
    <2> QED BY <1>0, <1>1, <1>3, <2>1, ExitLocals, FailedSealKeeps, StepKeeps
  <1>4. ASSUME Exit(p), UNCHANGED seal PROVE IndInv'
    BY <1>0, <1>4, ExitKeeps DEF TypeOK, files, world, row
  <1> QED BY <1>0, <1>2, <1>3, <1>4 DEF SealFailed, FailedSeal

-----------------------------------------------------------------------------
(* retry_failed_handoff.                                                   *)

LEMMA StartRetryKeeps ==
    ASSUME IndInv, NEW p \in Procs, StartRetry(p)
    PROVE  IndInv'
  <1>1. TypeOK'
    BY Facts DEF StartRetry, Goto, TypeOK, row, files, world, RetryPC
  <1>2. Alone(p) /\ pc'[p] = "retry_load"
    BY Facts DEF StartRetry, Goto, TypeOK, Alone
  <1>3. Sole(p) /\ LockOK'
    BY <1>2, Facts, HandoffConfiguration
    DEF StartRetry, Sole, LockOK, Alone, HandoffConfiguration, world
  <1>4. LocalOK(p)'
    BY <1>2 DEF StartRetry, LocalOK, HeldOK, Executing, Completing, Writing, Archiving, world
  <1> QED BY <1>1, <1>2, <1>3, <1>4, MoveKeeps DEF StartRetry, row, files, world

LEMMA RetryLoadKeeps ==
    ASSUME IndInv, NEW p \in Procs, RetryLoad(p)
    PROVE  IndInv'
  <1>0. /\ pc[p] = "retry_load" /\ TypeOK /\ v3 /\ v3' = v3
        /\ UNCHANGED <<row, files, world, claims>>
    BY Facts DEF RetryLoad, LooseOK, V3Only, RetryPC, world
  <1>1. ASSUME status \in {"failed", "running"}, seal.status # "none",
               audit' = [audit EXCEPT ![p] = seal],
               Goto(p, IF status = "running" THEN "interrupted" ELSE "retry_seal"),
               UNCHANGED <<lock, op, at, rcpt>>
        PROVE  IndInv'
    <2>1. /\ pc'[p] = (IF status = "running" THEN "interrupted" ELSE "retry_seal")
          /\ audit'[p] = seal /\ Alone(p) /\ LocalsType'
      BY <1>0, <1>1 DEF Goto, Alone, LocalsType, TypeOK, Steps, RetryPC
    <2>2. LocalOK(p)'
      BY <1>0, <1>1, <2>1
      DEF LocalOK, HeldOK, Executing, Completing, Writing, Archiving, row
    <2> QED BY <1>0, <1>1, <2>1, <2>2, GotoKeeps
  <1>2. ASSUME Exit(p) PROVE IndInv'
    BY <1>0, <1>2, HolderSole, ExitKeeps DEF TypeOK, files, world
  <1> QED BY <1>0, <1>1, <1>2 DEF RetryLoad

LEMMA RecoverInterruptedKeeps ==
    ASSUME IndInv, NEW p \in Procs, RecoverInterrupted(p)
    PROVE  IndInv'
  <1>0. /\ pc[p] = "interrupted" /\ TypeOK /\ v3 /\ v3' = v3
        /\ UNCHANGED <<seal, output, files, world, claims>>
    BY Facts DEF RecoverInterrupted, LooseOK, V3Only, RetryPC, world
  <1>1. ASSUME status = "running", seal.status = "validating", status' = "failed",
               error' = "interrupted", completed_at' = at[p],
               audit' = [audit EXCEPT ![p] = seal], Goto(p, "retry_seal"),
               UNCHANGED <<lock, op, at, rcpt>>
        PROVE  IndInv'
    <2>1. pc'[p] = "retry_seal" /\ audit'[p] = seal /\ Alone(p) /\ TypeOK'
      BY <1>0, <1>1 DEF Goto, Alone, TypeOK, RetryPC, Status, Errors, files, world
    <2>2. LocalOK(p)'
      BY <1>0, <1>1, <2>1 DEF LocalOK, HeldOK, Executing, Completing, Writing, Archiving
    <2>3. SealOK' /\ EpochOrder' /\ OutputSealed' /\ SlotOK' /\ ArchiveMatches' /\ ClaimsOK'
      BY <1>0, <1>1, Facts
      DEF SealOK, RowSeal, Contiguous, EpochOrder, OutputSealed, SlotOK, ArchiveMatches, ClaimsOK,
          files, world
    <2> QED BY <1>0, <1>1, <2>1, <2>2, <2>3, WorkLock, HolderSole, StepKeeps
  <1>2. ASSUME Exit(p), UNCHANGED <<status, error, completed_at>> PROVE IndInv'
    BY <1>0, <1>2, HolderSole, ExitKeeps DEF TypeOK, files, world, row
  <1> QED BY <1>0, <1>1, <1>2 DEF RecoverInterrupted

LEMMA RetrySealKeeps ==
    ASSUME IndInv, NEW p \in Procs, RetrySeal(p)
    PROVE  IndInv'
  <1>0. /\ pc[p] = "retry_seal" /\ TypeOK /\ v3 /\ v3' = v3 /\ HeldOK(p)
        /\ status = "failed" /\ audit[p] = seal /\ audit[p] \in Seal /\ error \in Errors
        /\ UNCHANGED <<row, files, world, claims>>
    BY Facts DEF RetrySeal, LooseOK, V3Only, RetryPC, world, HeldOK, TypeOK
  <1>1. ASSUME audit[p].status = "failed", Goto(p, "verify"), UNCHANGED <<lock, locals>>
        PROVE  IndInv'
    <2>1. pc'[p] = "verify" /\ audit'[p] = audit[p] /\ Alone(p) /\ LocalsType'
      BY <1>0, <1>1 DEF Goto, Alone, LocalsType, TypeOK, Steps, RetryPC, locals
    <2>2. LocalOK(p)'
      BY <1>0, <1>1, <2>1 DEF LocalOK, HeldOK, Executing, Completing, Writing, Archiving, row
    <2> QED BY <1>0, <1>1, <2>1, <2>2, GotoKeeps
  <1>2. ASSUME audit[p].status = "validating",
               rcpt' = [rcpt EXCEPT ![p] = FailedReceipt(audit[p], error)],
               op' = [op EXCEPT ![p] = "retry"], Goto(p, "create"),
               UNCHANGED <<lock, at, audit>>
        PROVE  IndInv'
    <2>1. /\ FailedReceipt(audit[p], error) \in Receipt
          /\ FailedReceipt(audit[p], error).error = error
      BY <1>0, ReceiptParts
    <2>2. /\ pc'[p] = "create" /\ audit'[p] = audit[p] /\ op'[p] = "retry"
          /\ rcpt'[p] = FailedReceipt(audit[p], error) /\ Alone(p) /\ LocalsType'
      BY <1>0, <1>2, <2>1 DEF Goto, Alone, LocalsType, TypeOK, Steps, ReceiptPC
    <2>3. LocalOK(p)'
      BY <1>0, <1>2, <2>1, <2>2
      DEF LocalOK, HeldOK, Executing, Completing, Writing, Archiving, row
    <2> QED BY <1>0, <1>2, <2>2, <2>3, GotoKeeps
  <1>3. ASSUME Exit(p) PROVE IndInv'
    BY <1>0, <1>3, HolderSole, ExitKeeps DEF TypeOK, files, world
  <1> QED BY <1>0, <1>1, <1>2, <1>3 DEF RetrySeal

\* A failed seal ends with the entry of its own attempt.
LEMMA LastEntry ==
    ASSUME IndInv, seal.status = "failed"
    PROVE  /\ seal.attempt \in Attempts /\ Len(seal.history) = seal.attempt
           /\ Len(seal.transitions) = seal.attempt - 1
           /\ Last(seal.history) = seal.history[seal.attempt]
           /\ Last(seal.history) \in Entry /\ Last(seal.history).drafts = seal.drafts
           /\ seal.attempt \in Nat /\ seal.history \in Seq(Entry)
           /\ seal.transitions \in Seq(Nat) /\ prep = "done"
  <1>1. /\ seal \in Seal /\ seal.attempt \in Attempts /\ Len(seal.history) = seal.attempt
        /\ Len(seal.transitions) = seal.attempt - 1 /\ prep = "done"
        /\ Last(seal.history).drafts = seal.drafts
    BY DEF IndInv, TypeOK, SealOK, Contiguous
  <1>2. seal.attempt \in 1..Len(seal.history)
    BY <1>1, SealParts DEF Attempts
  <1> QED BY <1>1, <1>2, SealParts DEF Last

LEMMA RetryVerifyKeeps ==
    ASSUME IndInv, NEW p \in Procs, RetryVerify(p)
    PROVE  IndInv'
  <1>0. /\ pc[p] = "verify" /\ TypeOK /\ v3 /\ v3' = v3 /\ HeldOK(p)
        /\ status = "failed" /\ seal.status = "failed" /\ audit[p] = seal
        /\ UNCHANGED <<row, files, world, claims>>
    BY Facts DEF RetryVerify, LooseOK, V3Only, RetryPC, world, HeldOK
  <1>1. ASSUME rcpt' = [rcpt EXCEPT ![p] = ReceiptOf(Last(audit[p].history))],
               Goto(p, "archive_drafts"), UNCHANGED <<lock, op, at, audit>>
        PROVE  IndInv'
    <2>1. ReceiptOf(Last(audit[p].history)) \in Receipt
      BY <1>0, LastEntry, EntryParts
    <2>2. /\ pc'[p] = "archive_drafts" /\ audit'[p] = audit[p]
          /\ rcpt'[p] = ReceiptOf(Last(audit[p].history)) /\ Alone(p) /\ LocalsType'
      BY <1>0, <1>1, <2>1 DEF Goto, Alone, LocalsType, TypeOK, Steps, RetryPC
    <2>3. LocalOK(p)'
      BY <1>0, <1>1, <2>2 DEF LocalOK, HeldOK, Executing, Completing, Writing, Archiving, row
    <2> QED BY <1>0, <1>1, <2>2, <2>3, GotoKeeps
  <1>2. ASSUME Exit(p) PROVE IndInv'
    BY <1>0, <1>2, HolderSole, ExitKeeps DEF TypeOK, files, world
  <1> QED BY <1>0, <1>1, <1>2 DEF RetryVerify

\* A step of the archiving holder: the archive of the current attempt, drafts.json or
\* receipt.json change.
LEMMA ArchivingKeeps ==
    ASSUME IndInv, NEW p \in Procs, v3, pc[p] # "idle", pc'[p] \in Steps \ {"idle"},
           Goto(p, pc'[p]), UNCHANGED <<lock, locals, row, world, claims>>,
           receipt' \in {receipt, NoReceipt}, drafts' \in Bundle, frozen' \in BOOLEAN,
           archive' \in [Attempts -> [drafts : Bundle, receipt : Receipt]],
           \A n \in Attempts : n # seal.attempt => archive'[n] = archive[n],
           LocalOK(p)'
    PROVE  IndInv'
  <1>1. TypeOK' /\ Alone(p)
    BY Facts, Values DEF Goto, Alone, TypeOK, locals, row, world, Steps
  <1>2. SealOK' /\ EpochOrder' /\ OutputSealed' /\ ClaimsOK' /\ SlotOK'
    BY Facts, Values
    DEF SealOK, RowSeal, Contiguous, EpochOrder, OutputSealed, ClaimsOK, SlotOK, row, world
  <1>3. ArchiveMatches'
    <2>1. \A n \in Attempts : n < seal.attempt => n # seal.attempt /\ n \in Nat
      BY Facts, SealParts DEF Attempts
    <2>2. seal' = seal /\ v3' = v3 /\ ArchiveMatches
      BY Facts DEF row, world
    <2> QED BY <2>1, <2>2 DEF ArchiveMatches
  <1> QED BY <1>1, <1>2, <1>3, WorkLock, HolderSole, StepKeeps DEF row, world

\* Where the archiving holder is.
LEMMA ArchivingFacts ==
    ASSUME IndInv, NEW p \in Procs, pc[p] \in Archiving
    PROVE  /\ TypeOK /\ v3 /\ HeldOK(p) /\ status = "failed" /\ seal.status = "failed"
           /\ audit[p] = seal /\ audit[p].drafts \in Bundle /\ seal.attempt \in Attempts
           /\ rcpt[p] \in Receipt /\ rcpt[p] = ReceiptOf(Last(seal.history))
           /\ pc[p] # "idle" /\ pc \in [Procs -> Steps]
           /\ drafts \in Bundle /\ frozen \in BOOLEAN
           /\ archive \in [Attempts -> [drafts : Bundle, receipt : Receipt]]
           /\ {"unlink_drafts", "archive_receipt", "unlink_receipt", "rearm"} \subseteq Steps \ {"idle"}
  <1>1. TypeOK /\ pc \in [Procs -> Steps] /\ rcpt[p] \in Receipt
    BY Facts DEF TypeOK, Steps
  <1>2. v3 /\ HeldOK(p) /\ pc[p] # "idle"
    BY Facts DEF LooseOK, V3Only, RetryPC, Archiving
  <1>3. /\ status = "failed" /\ seal.status = "failed" /\ audit[p] = seal
        /\ rcpt[p] = ReceiptOf(Last(seal.history))
    BY <1>2 DEF HeldOK
  <1> QED BY <1>1, <1>2, <1>3, LastEntry, SealParts DEF TypeOK, Steps, RetryPC

LEMMA ArchiveDraftsKeeps ==
    ASSUME IndInv, NEW p \in Procs, ArchiveDrafts(p)
    PROVE  IndInv'
  <1>0. /\ pc[p] = "archive_drafts" /\ pc[p] \in Archiving
        /\ UNCHANGED <<row, drafts, frozen, receipt, world, claims>>
    BY DEF ArchiveDrafts, Archiving
  <1>1. ASSUME archive' = [archive EXCEPT ![audit[p].attempt].drafts = audit[p].drafts],
               Goto(p, "unlink_drafts"), UNCHANGED <<lock, locals>>
        PROVE  IndInv'
    <2>1. archive[seal.attempt] \in [drafts : Bundle, receipt : Receipt]
      BY <1>0, ArchivingFacts
    <2>2. /\ [archive[seal.attempt] EXCEPT !.drafts = seal.drafts]
                  \in [drafts : Bundle, receipt : Receipt]
          /\ [archive[seal.attempt] EXCEPT !.drafts = seal.drafts].drafts = seal.drafts
      BY <1>0, <2>1, ArchivingFacts
    <2>3. archive' = [archive EXCEPT ![seal.attempt] =
                         [archive[seal.attempt] EXCEPT !.drafts = seal.drafts]]
      BY <1>0, <1>1, ArchivingFacts
    <2>4. /\ archive' \in [Attempts -> [drafts : Bundle, receipt : Receipt]]
          /\ archive'[seal.attempt].drafts = seal.drafts
          /\ \A n \in Attempts : n # seal.attempt => archive'[n] = archive[n]
      BY <1>0, <2>2, <2>3, ArchivingFacts
    <2>5. pc'[p] = "unlink_drafts"
      BY <1>0, <1>1, ArchivingFacts DEF Goto
    <2>6. LocalOK(p)'
      BY <1>0, <1>1, <2>4, <2>5, ArchivingFacts
      DEF LocalOK, HeldOK, Executing, Completing, Writing, Archiving, row, world, locals
    <2> QED BY <1>0, <1>1, <2>4, <2>5, <2>6, ArchivingKeeps, ArchivingFacts
  <1>2. ASSUME Exit(p), UNCHANGED archive PROVE IndInv'
    BY <1>0, <1>2, HolderSole, ExitKeeps, ArchivingFacts DEF world, TypeOK
  <1> QED BY <1>0, <1>1, <1>2 DEF ArchiveDrafts

LEMMA UnlinkDraftsKeeps ==
    ASSUME IndInv, NEW p \in Procs, UnlinkDrafts(p)
    PROVE  IndInv'
  <1>0. /\ pc[p] = "unlink_drafts" /\ pc[p] \in Archiving
        /\ UNCHANGED <<row, receipt, archive, world, claims>>
    BY DEF UnlinkDrafts, Archiving
  <1>1. ASSUME drafts' = NoDraft, frozen' = FALSE, Goto(p, "archive_receipt"),
               UNCHANGED <<lock, locals>>
        PROVE  IndInv'
    <2>1. pc'[p] = "archive_receipt"
      BY <1>0, <1>1, ArchivingFacts DEF Goto
    <2>2. LocalOK(p)'
      BY <1>0, <1>1, <2>1, ArchivingFacts
      DEF LocalOK, HeldOK, Executing, Completing, Writing, Archiving, row, world, locals
    <2> QED BY <1>0, <1>1, <2>1, <2>2, Values, ArchivingKeeps, ArchivingFacts
  <1>2. ASSUME Exit(p), UNCHANGED <<drafts, frozen>> PROVE IndInv'
    BY <1>0, <1>2, HolderSole, ExitKeeps, ArchivingFacts DEF world, TypeOK
  <1> QED BY <1>0, <1>1, <1>2 DEF UnlinkDrafts

LEMMA ArchiveReceiptKeeps ==
    ASSUME IndInv, NEW p \in Procs, ArchiveReceipt(p)
    PROVE  IndInv'
  <1>0. /\ pc[p] = "archive_receipt" /\ pc[p] \in Archiving
        /\ UNCHANGED <<row, drafts, frozen, receipt, world, claims>>
    BY DEF ArchiveReceipt, Archiving
  <1>1. ASSUME archive' = [archive EXCEPT ![audit[p].attempt].receipt = rcpt[p]],
               Goto(p, "unlink_receipt"), UNCHANGED <<lock, locals>>
        PROVE  IndInv'
    <2>1. archive[seal.attempt] \in [drafts : Bundle, receipt : Receipt]
      BY <1>0, ArchivingFacts
    <2>2. /\ [archive[seal.attempt] EXCEPT !.receipt = rcpt[p]]
                  \in [drafts : Bundle, receipt : Receipt]
          /\ [archive[seal.attempt] EXCEPT !.receipt = rcpt[p]].receipt = rcpt[p]
          /\ [archive[seal.attempt] EXCEPT !.receipt = rcpt[p]].drafts = archive[seal.attempt].drafts
      BY <1>0, <2>1, ArchivingFacts
    <2>3. archive' = [archive EXCEPT ![seal.attempt] =
                         [archive[seal.attempt] EXCEPT !.receipt = rcpt[p]]]
      BY <1>0, <1>1, ArchivingFacts
    <2>4. /\ archive' \in [Attempts -> [drafts : Bundle, receipt : Receipt]]
          /\ archive'[seal.attempt].receipt = rcpt[p]
          /\ archive'[seal.attempt].drafts = archive[seal.attempt].drafts
          /\ \A n \in Attempts : n # seal.attempt => archive'[n] = archive[n]
      BY <1>0, <2>2, <2>3, ArchivingFacts
    <2>5. pc'[p] = "unlink_receipt"
      BY <1>0, <1>1, ArchivingFacts DEF Goto
    <2>6. LocalOK(p)'
      BY <1>0, <1>1, <2>4, <2>5, ArchivingFacts
      DEF LocalOK, HeldOK, Executing, Completing, Writing, Archiving, row, world, locals
    <2> QED BY <1>0, <1>1, <2>4, <2>5, <2>6, ArchivingKeeps, ArchivingFacts
  <1>2. ASSUME Exit(p), UNCHANGED archive PROVE IndInv'
    BY <1>0, <1>2, HolderSole, ExitKeeps, ArchivingFacts DEF world, TypeOK
  <1> QED BY <1>0, <1>1, <1>2 DEF ArchiveReceipt

LEMMA UnlinkReceiptKeepsInv ==
    ASSUME IndInv, NEW p \in Procs, UnlinkReceipt(p)
    PROVE  IndInv'
  <1>0. /\ pc[p] = "unlink_receipt" /\ pc[p] \in Archiving
        /\ UNCHANGED <<row, drafts, frozen, archive, world, claims>>
    BY DEF UnlinkReceipt, Archiving
  <1>1. ASSUME receipt' = NoReceipt, Goto(p, "rearm"), UNCHANGED <<lock, locals>>
        PROVE  IndInv'
    <2>1. pc'[p] = "rearm"
      BY <1>0, <1>1, ArchivingFacts DEF Goto
    <2>2. LocalOK(p)'
      BY <1>0, <1>1, <2>1, ArchivingFacts
      DEF LocalOK, HeldOK, Executing, Completing, Writing, Archiving, row, world, locals
    <2> QED BY <1>0, <1>1, <2>1, <2>2, Values, ArchivingKeeps, ArchivingFacts
  <1>2. ASSUME Exit(p), UNCHANGED receipt PROVE IndInv'
    BY <1>0, <1>2, HolderSole, ExitKeeps, ArchivingFacts DEF world, TypeOK
  <1> QED BY <1>0, <1>1, <1>2 DEF UnlinkReceipt

\* The seal of the next attempt starts a new epoch after everything sealed before it.
LEMMA RearmedSealKeeps ==
    ASSUME IndInv, NEW p \in Procs, pc[p] = "rearm",
           at[p] <= Deadline,
           Last(seal.history).completed_at <= at[p],
           Last(seal.history).finalized_at <= at[p],
           seal.transitions # <<>> => Last(seal.transitions) < at[p],
           seal.attempt < MaxAttempts,
           status' = "awaiting_draft", error' = "none", completed_at' = 0,
           seal' = RearmedSeal(seal, at[p]),
           UNCHANGED <<output, files, world, claims>>
    PROVE  /\ seal' \in Seal
           /\ SealOK' /\ EpochOrder' /\ OutputSealed' /\ ClaimsOK' /\ SlotOK' /\ ArchiveMatches'
  <1> DEFINE t == Append(seal.transitions, at[p])
             m == seal.attempt
  <1>0. /\ TypeOK /\ v3 /\ HeldOK(p) /\ status = "failed" /\ seal.status = "failed"
        /\ seal \in Seal /\ SealOK /\ EpochOrder /\ v3' = v3 /\ prep' = prep
        /\ at[p] \in Nat /\ receipt = NoReceipt
        /\ archive[m].drafts = seal.drafts /\ archive[m].receipt = rcpt[p]
        /\ rcpt[p] = ReceiptOf(Last(seal.history))
    BY ArchivingFacts, Facts DEF Archiving, HeldOK, world
  <1>1. /\ m \in Attempts /\ m \in Nat /\ Len(seal.history) = m /\ Len(seal.transitions) = m - 1
        /\ seal.history \in Seq(Entry) /\ seal.transitions \in Seq(Nat) /\ prep = "done"
        /\ Last(seal.history) = seal.history[m] /\ Last(seal.history).drafts = seal.drafts
    BY <1>0, LastEntry
  <1>2. /\ t \in Seq(Nat) /\ Len(t) = m /\ t[m] = at[p]
        /\ \A i \in 1..(m - 1) : t[i] = seal.transitions[i]
        /\ DOMAIN t = 1..m /\ DOMAIN seal.transitions = 1..(m - 1) /\ DOMAIN seal.history = 1..m
    <2>1. /\ t \in Seq(Nat) /\ Len(t) = Len(seal.transitions) + 1
          /\ \A i \in 1..Len(seal.transitions) : t[i] = seal.transitions[i]
          /\ t[Len(seal.transitions) + 1] = at[p]
          /\ DOMAIN seal.transitions = 1..Len(seal.transitions)
          /\ DOMAIN t = 1..(Len(seal.transitions) + 1)
      BY <1>0, <1>1, AppendParts
    <2>2. Len(seal.transitions) + 1 = m /\ DOMAIN seal.history = 1..Len(seal.history)
      BY <1>1
    <2> QED BY <1>1, <2>1, <2>2
  <1>3. /\ seal' \in Seal /\ seal'.status = "awaiting_draft" /\ seal'.attempt = m + 1
        /\ seal'.history = seal.history /\ seal'.transitions = t
    <2>1. seal' = [status |-> "awaiting_draft", attempt |-> m + 1, drafts |-> NoDraft,
                   finalized_at |-> 0, history |-> seal.history, transitions |-> t]
      BY DEF RearmedSeal
    <2>2. m + 1 \in Nat /\ NoDraft \in Bundle
      BY <1>1, Values
    <2> HIDE DEF m, t
    <2> QED BY <1>1, <1>2, <2>1, <2>2 DEF Seal
  <1> HIDE DEF t
  <1>4. m + 1 \in Attempts
    <2>1. MaxAttempts \in Nat
      BY HandoffConfiguration DEF HandoffConfiguration
    <2> QED BY <1>1, <2>1 DEF Attempts
  <1>5. SealOK'
    BY <1>0, <1>1, <1>2, <1>3, <1>4 DEF SealOK, RowSeal, Contiguous
  <1>6. EpochOrder'
    <2>1. \A n \in 1..m :
            seal.history[n].attempt = n /\ SinceRetry(n, seal.history[n], seal.transitions)
      BY <1>0, <1>2 DEF EpochOrder, SinceRetry
    <2>2. \A n \in 1..m : n = 1 \/ n - 1 \in 1..(m - 1)
      BY <1>1
    <2>3. \A n \in 1..m : SinceRetry(n, seal.history[n], t)
      BY <1>2, <2>1, <2>2 DEF SinceRetry
    <2>4. \A n \in 1..(m - 1) :
            /\ seal.history[n].completed_at <= seal.transitions[n]
            /\ seal.history[n].finalized_at <= seal.transitions[n]
            /\ seal.transitions[n] <= Deadline
            /\ n > 1 => seal.transitions[n - 1] < seal.transitions[n]
      BY <1>0, <1>1, <1>2 DEF EpochOrder
    <2>5. m > 1 => seal.transitions[m - 1] < at[p]
      BY <1>1 DEF Last
    <2>6. \A n \in 1..m : n = m \/ n \in 1..(m - 1)
      BY <1>1
    <2>7. \A n \in 1..m :
            /\ seal.history[n].completed_at <= t[n]
            /\ seal.history[n].finalized_at <= t[n]
            /\ t[n] <= Deadline
            /\ n > 1 => t[n - 1] < t[n]
      <3>1. ASSUME NEW n \in 1..(m - 1), n > 1 PROVE t[n - 1] < t[n]
        <4>1. n - 1 \in 1..(m - 1)
          BY <1>1, <3>1
        <4> QED BY <1>2, <2>4, <3>1, <4>1
      <3>2. m > 1 => t[m - 1] < t[m]
        <4>1. m > 1 => m - 1 \in 1..(m - 1)
          BY <1>1
        <4> QED BY <1>2, <2>5, <4>1
      <3> QED BY <1>1, <1>2, <2>4, <2>6, <3>1, <3>2
    <2>8. /\ \A n \in DOMAIN seal'.history :
                seal'.history[n].attempt = n /\ SinceRetry(n, seal'.history[n], seal'.transitions)
          /\ \A n \in DOMAIN seal'.transitions :
                /\ n <= Len(seal'.history)
                /\ seal'.history[n].completed_at <= seal'.transitions[n]
                /\ seal'.history[n].finalized_at <= seal'.transitions[n]
                /\ seal'.transitions[n] <= Deadline
                /\ n > 1 => seal'.transitions[n - 1] < seal'.transitions[n]
      <3>1. /\ DOMAIN seal'.history = 1..m /\ DOMAIN seal'.transitions = 1..m
            /\ Len(seal'.history) = m /\ seal'.history = seal.history /\ seal'.transitions = t
        BY <1>1, <1>2, <1>3
      <3>2. \A n \in 1..m : n <= m
        BY <1>1
      <3> HIDE DEF m
      <3> QED BY <2>1, <2>3, <2>7, <3>1, <3>2
    <2>9. Contiguous(seal')
      BY <1>1, <1>2, <1>3 DEF Contiguous
    <2> HIDE DEF m
    <2> QED BY <1>3, <2>8, <2>9 DEF EpochOrder, SinceRetry
  <1>7. OutputSealed' /\ SlotOK'
    BY <1>0, Facts, Values DEF OutputSealed, SlotOK, files
  <1>8. ClaimsOK'
    BY <1>0, <1>1, <1>3, Facts DEF ClaimsOK, Attempts
  <1>9. ArchiveMatches'
    <2>1. archive[m] = [drafts |-> seal.history[m].drafts, receipt |-> ReceiptOf(seal.history[m])]
      <3>1. archive[m] \in [drafts : Bundle, receipt : Receipt]
        BY <1>0, <1>1 DEF TypeOK
      <3> QED BY <1>0, <1>1, <3>1
    <2>2. \A n \in Attempts : n < m + 1 => n = m \/ n < m
      BY <1>1 DEF Attempts
    <2> QED BY <1>0, <1>3, <2>1, <2>2, Facts DEF ArchiveMatches, files
  <1> QED BY <1>3, <1>5, <1>6, <1>7, <1>8, <1>9

LEMMA RearmKeeps ==
    ASSUME IndInv, NEW p \in Procs, Rearm(p)
    PROVE  IndInv'
  <1>0. /\ pc[p] = "rearm" /\ pc[p] \in Archiving /\ Exit(p) /\ v3' = v3 /\ Sole(p)
        /\ UNCHANGED <<output, files, world, claims>> /\ TypeOK /\ LockOK /\ v3
    BY HolderSole, ArchivingFacts, Facts DEF Rearm, Archiving, world
  <1>1. CASE UNCHANGED <<status, error, completed_at, seal>>
    BY <1>0, <1>1, ExitKeeps DEF row, files, world, TypeOK
  <1>2. CASE ~UNCHANGED <<status, error, completed_at, seal>>
    <2>1. /\ seal' \in Seal
          /\ SealOK' /\ EpochOrder' /\ OutputSealed' /\ ClaimsOK' /\ SlotOK' /\ ArchiveMatches'
      BY <1>0, <1>2, RearmedSealKeeps DEF Rearm
    <2>2. status' = "awaiting_draft" /\ error' = "none" /\ completed_at' = 0
      BY <1>2 DEF Rearm
    <2>3. TypeOK'
      BY <1>0, <2>1, <2>2, ExitLocals DEF TypeOK, files, world, Steps, Status, Errors
    <2> QED BY <1>0, <2>1, <2>3, ExitLocals, StepKeeps
  <1> QED BY <1>1, <1>2

LEMMA CrashKeeps ==
    ASSUME IndInv, NEW p \in Procs, Crash(p)
    PROVE  IndInv'
  BY HolderSole, ExitKeeps, Facts DEF Crash, TypeOK, files

-----------------------------------------------------------------------------
(* The rest of the world.                                                  *)

LEMMA WorldKeeps ==
    ASSUME IndInv, TypeOK', UNCHANGED <<lock, pc, locals, v3, status, seal, output, receipt,
                                        archive, claims>>,
           prep' = prep \/ (prep = "row" /\ prep' = "dead")
    PROVE  IndInv'
  <1>1. SealOK' /\ EpochOrder' /\ OutputSealed' /\ ClaimsOK' /\ SlotOK' /\ ArchiveMatches' /\ LockOK'
    BY DEF IndInv, SealOK, RowSeal, Contiguous, EpochOrder, OutputSealed, ClaimsOK, SlotOK,
       ArchiveMatches, LockOK
  <1>2. ASSUME NEW p \in Procs PROVE LocalOK(p)'
    BY DEF IndInv, LocalOK, HeldOK, LooseOK, locals
  <1> QED BY <1>1, <1>2 DEF IndInv

LEMMA QuietKeeps ==
    ASSUME IndInv,
           \/ CrashPrepare \/ StartReplacement \/ Tick \/ \E d \in Drafts : WriteDrafts(d)
    PROVE  IndInv'
  <1>1. TypeOK /\ Drafts \subseteq Bundle
    BY HandoffConfiguration DEF IndInv, HandoffConfiguration
  <1>2. ASSUME CrashPrepare PROVE IndInv'
    BY <1>1, <1>2, WorldKeeps DEF CrashPrepare, TypeOK, row, files, locals
  <1>3. ASSUME StartReplacement PROVE IndInv'
    BY <1>1, <1>3, WorldKeeps DEF StartReplacement, TypeOK, row, files, locals
  <1>4. ASSUME Tick PROVE IndInv'
    BY <1>1, <1>4, WorldKeeps DEF Tick, TypeOK, row, files, locals
  <1>5. ASSUME NEW d \in Drafts, WriteDrafts(d) PROVE IndInv'
    BY <1>1, <1>5, WorldKeeps DEF WriteDrafts, TypeOK, row, world, locals
  <1> QED BY <1>2, <1>3, <1>4, <1>5

\* Before the package is sealed no process gets past its first read.
LEMMA UnsealedLocals ==
    ASSUME IndInv, NEW p \in Procs, seal.status = "none"
    PROVE  /\ pc[p] \notin {"read", "seal", "publish", "seal_failed", "retry_seal", "verify"}
                            \cup Executing \cup Completing \cup Archiving
           /\ v3 => pc[p] \notin Writing
  BY Facts DEF HeldOK, LooseOK, SealOK, RowSeal, Executing, Completing, Archiving, Writing, V3Only,
     RetryPC

LEMMA PrepareKeeps ==
    ASSUME IndInv, PrepareRow \/ PrepareSeal \/ PrepareFails
    PROVE  IndInv'
  <1>0. /\ TypeOK /\ SealOK /\ seal.status = "none" /\ seal = NoSeal /\ OutputSealed
        /\ status # "completed" /\ LockOK /\ v3' = v3 /\ UNCHANGED <<lock, pc, locals, files, claims, output>>
    BY DEF PrepareRow, PrepareSeal, PrepareFails, IndInv, SealOK, RowSeal
  <1>1. SlotOK' /\ ArchiveMatches' /\ ClaimsOK' /\ SealOK' /\ EpochOrder' /\ TypeOK' /\ OutputSealed'
    <2>0. /\ ClaimsOK /\ ArchiveMatches /\ EpochOrder
          /\ v3 => receipt.status \notin {"failed", "completed"}
      BY <1>0 DEF IndInv, SlotOK, SealOK, PrepareRow, PrepareSeal, PrepareFails
    <2>1. CASE PrepareRow
      BY <1>0, <2>0, <2>1, Values
      DEF PrepareRow, SlotOK, ArchiveMatches, ClaimsOK, SealOK, RowSeal, EpochOrder, TypeOK,
          OutputSealed, Status, files, locals
    <2>2. CASE PrepareSeal
      <3>1. /\ seal' \in Seal /\ seal'.status = "awaiting_draft" /\ seal'.attempt = 1
            /\ seal'.history = <<>> /\ seal'.transitions = <<>> /\ seal'.drafts = NoDraft
        BY <2>2, Values DEF PrepareSeal, Seal, NoSeal
      <3>2. 1 \in Attempts /\ \A n \in Attempts : n > 0 /\ ~(n < 1)
        BY HandoffConfiguration DEF Attempts, HandoffConfiguration
      <3> QED BY <1>0, <2>0, <2>2, <3>1, <3>2, Values
          DEF PrepareSeal, SlotOK, ArchiveMatches, ClaimsOK, SealOK, RowSeal, EpochOrder, TypeOK,
              OutputSealed, Status, files, locals, Contiguous
    <2>3. CASE PrepareFails
      BY <1>0, <2>0, <2>3, Values
      DEF PrepareFails, SlotOK, ArchiveMatches, ClaimsOK, SealOK, RowSeal, EpochOrder, TypeOK,
          OutputSealed, Status, Errors, files, locals
    <2> QED BY <2>1, <2>2, <2>3 DEF PrepareRow, PrepareSeal, PrepareFails
  <1>2. ASSUME NEW p \in Procs PROVE LocalOK(p)'
    BY <1>0, UnsealedLocals, Facts
    DEF LocalOK, HeldOK, LooseOK, locals, Executing, Completing, Archiving, Writing, V3Only, RetryPC
  <1>3. LockOK'
    BY <1>0 DEF LockOK
  <1> QED BY <1>1, <1>2, <1>3 DEF IndInv

LEMMA RestartApiKeeps ==
    ASSUME IndInv, RestartApi
    PROVE  IndInv'
  <1>0. TypeOK /\ SealOK /\ status = "running" /\ seal.status # "none" /\ v3' = v3
    BY DEF RestartApi, IndInv, SealOK, RowSeal
  <1>1. TypeOK' /\ SealOK' /\ LockOK'
    BY <1>0 DEF RestartApi, IndInv, TypeOK, SealOK, RowSeal, Contiguous, LockOK, Status, Errors,
       files, locals
  <1>2. EpochOrder' /\ OutputSealed' /\ ClaimsOK' /\ SlotOK' /\ ArchiveMatches'
    BY <1>0 DEF RestartApi, IndInv, EpochOrder, OutputSealed, ClaimsOK, SlotOK, ArchiveMatches,
       Contiguous, files
  <1>3. ASSUME NEW p \in Procs PROVE LocalOK(p)'
    BY <1>0, Facts
    DEF RestartApi, LocalOK, HeldOK, LooseOK, locals, files, Executing, Completing, Archiving, Writing
  <1> QED BY <1>1, <1>2, <1>3 DEF IndInv

-----------------------------------------------------------------------------
(* The theorems.                                                           *)

LEMMA InitHolds == Init => IndInv
  <1> SUFFICES ASSUME Init PROVE IndInv
    OBVIOUS
  <1>1. TypeOK
    BY Values, HandoffConfiguration DEF Init, TypeOK, HandoffConfiguration, Status, Errors
  <1>2. SealOK /\ EpochOrder /\ OutputSealed /\ ClaimsOK /\ SlotOK /\ ArchiveMatches
    <2>1. seal.status = "none" /\ seal.attempt = 0 /\ receipt.status = "none"
          /\ \A n \in Attempts : n \in Nat /\ claims[n] = 0
      BY Values DEF Init, Attempts
    <2> QED BY <2>1
        DEF Init, SealOK, RowSeal, EpochOrder, OutputSealed, ClaimsOK, SlotOK, ArchiveMatches, Attempts
  <1>3. LockOK
    BY HandoffConfiguration DEF Init, LockOK, HandoffConfiguration
  <1>4. ASSUME NEW p \in Procs PROVE LocalOK(p)
    BY IdleHolds DEF Init
  <1> QED BY <1>1, <1>2, <1>3, <1>4 DEF IndInv

LEMMA NextKeeps == IndInv /\ [Next]_vars => IndInv'
  <1> SUFFICES ASSUME IndInv, [Next]_vars PROVE IndInv'
    OBVIOUS
  <1>1. CASE UNCHANGED vars
    <2>1. TypeOK'
      BY <1>1 DEF IndInv, TypeOK, vars
    <2> QED BY <1>1, <2>1, WorldKeeps DEF vars, locals
  <1>2. CASE PrepareRow \/ PrepareSeal \/ PrepareFails
    BY <1>2, PrepareKeeps
  <1>3. CASE CrashPrepare \/ StartReplacement \/ Tick \/ \E d \in Drafts : WriteDrafts(d)
    BY <1>3, QuietKeeps
  <1>4. CASE RestartApi
    BY <1>4, RestartApiKeeps
  <1>5. ASSUME NEW p \in Procs,
               \/ StartFinalize(p) \/ LoadSeal(p) \/ ReadDrafts(p) \/ SealValidating(p)
               \/ RuntimeDrift(p) \/ BeginExecution(p) \/ GraphReturns(p)
               \/ FinalizeResult(p) \/ MarkFailed(p) \/ PublishFailed(p)
               \/ PromoteSeal(p) \/ RecoverCompleted(p)
               \/ CreateReceipt(p) \/ FillReceipt(p) \/ FreezeDrafts(p) \/ SealFailed(p)
        PROVE  IndInv'
    BY <1>5, StartFinalizeKeeps, LoadSealKeeps, ReadDraftsKeeps, SealValidatingKeeps,
       RuntimeDriftKeeps, BeginExecutionKeeps, GraphReturnsKeeps, FinalizeResultKeeps,
       MarkFailedKeeps, PublishFailedKeeps, PromoteSealKeeps, RecoverCompletedKeeps,
       CreateReceiptKeeps, FillReceiptKeeps, FreezeDraftsKeeps, SealFailedKeeps
  <1>6. ASSUME NEW p \in Procs,
               \/ StartRetry(p) \/ RetryLoad(p) \/ RecoverInterrupted(p)
               \/ RetrySeal(p) \/ RetryVerify(p) \/ ArchiveDrafts(p) \/ UnlinkDrafts(p)
               \/ ArchiveReceipt(p) \/ UnlinkReceipt(p) \/ Rearm(p)
               \/ Crash(p)
        PROVE  IndInv'
    BY <1>6, StartRetryKeeps, RetryLoadKeeps, RecoverInterruptedKeeps, RetrySealKeeps,
       RetryVerifyKeeps, ArchiveDraftsKeeps, UnlinkDraftsKeeps, ArchiveReceiptKeeps,
       UnlinkReceiptKeepsInv, RearmKeeps, CrashKeeps
  <1> QED BY <1>1, <1>2, <1>3, <1>4, <1>5, <1>6 DEF Next

\* The inductive invariant holds of every package, v3 or legacy: the lock, the row, the
\* files and the locals of finalize_handoff and retry_failed_handoff fit together.
THEOREM Invariance == Spec => []IndInv
  BY InitHolds, NextKeeps, PTL DEF Spec

\* The row, the files and the locals of the operators keep their types.
THEOREM TypeCorrect == Spec => []TypeOK
  <1>1. IndInv => TypeOK
    BY DEF IndInv
  <1> QED BY <1>1, Invariance, PTL

\* However many operators finalize and retry a package, and wherever they are killed, the
\* epochs of its attempts stay in order and no attempt is executed twice (the claim of
\* execute_prepared, _validate_attempt_chronology, _rearm_failed_run).
THEOREM AttemptsStayInOrder == Spec => []AttemptsInOrder
  <1>1. IndInv => AttemptsInOrder
    BY DEF IndInv, AttemptsInOrder, ClaimsOK, ExecutedOnce
  <1> QED BY <1>1, Invariance, PTL

\* Output comes from the sealed drafts alone, the receipt in the working slot is the one of
\* the sealed attempt, and earlier attempts are archived as sealed (FinalizeResult's
\* transaction, _write_or_verify_receipt, _archive_attempt_artifact).
THEOREM SealsStayTrue == Spec => []SealsAgree
  <1>1. IndInv => SealsAgree
    BY DEF IndInv, SealsAgree, SlotOK, ReceiptAgrees
  <1> QED BY <1>1, Invariance, PTL

-----------------------------------------------------------------------------
(* The audit trail.                                                        *)

\* What one step does to the archive and to the sealed chain.
TrailGrows ==
    /\ \A n \in Attempts :
          /\ archive[n].drafts # NoDraft => archive'[n].drafts = archive[n].drafts
          /\ archive[n].receipt # NoReceipt => archive'[n].receipt = archive[n].receipt
    /\ SubSeq(seal'.history, 1, Len(seal.history)) = seal.history
    /\ SubSeq(seal'.transitions, 1, Len(seal.transitions)) = seal.transitions

LEMMA PrefixKept ==
    ASSUME NEW T, NEW s \in Seq(T)
    PROVE  /\ SubSeq(s, 1, Len(s)) = s
           /\ \A x \in T : SubSeq(Append(s, x), 1, Len(s)) = s
  OBVIOUS

\* A step that archives nothing and seals no entry or transition.
LEMMA SameTrail ==
    ASSUME IndInv, archive' = archive, seal'.history = seal.history,
           seal'.transitions = seal.transitions
    PROVE  TrailGrows
  <1>1. seal.history \in Seq(Entry) /\ seal.transitions \in Seq(Nat)
    BY SealParts DEF IndInv, TypeOK
  <1> QED BY <1>1, PrefixKept DEF TrailGrows

LEMMA ArchiveGrows ==
    ASSUME IndInv, NEW p \in Procs, ArchiveDrafts(p) \/ ArchiveReceipt(p)
    PROVE  TrailGrows
  <1>0. /\ seal' = seal /\ archive \in [Attempts -> [drafts : Bundle, receipt : Receipt]]
        /\ seal.history \in Seq(Entry) /\ seal.transitions \in Seq(Nat)
    BY SealParts DEF IndInv, TypeOK, ArchiveDrafts, ArchiveReceipt, row
  <1>1. ASSUME NEW n \in Attempts
        PROVE  /\ archive[n].drafts # NoDraft => archive'[n].drafts = archive[n].drafts
               /\ archive[n].receipt # NoReceipt => archive'[n].receipt = archive[n].receipt
    BY SMTT(30), <1>0 DEF ArchiveDrafts, ArchiveReceipt
  <1> QED BY <1>0, <1>1, PrefixKept DEF TrailGrows

LEMMA StepTrail ==
    ASSUME IndInv, [Next]_vars
    PROVE  TrailGrows
  <1>0. seal.history \in Seq(Entry) /\ seal.transitions \in Seq(Nat) /\ seal \in Seal
        /\ completed_at \in Nat /\ error \in Errors
    BY SealParts DEF IndInv, TypeOK
  <1>1. CASE UNCHANGED <<archive, seal>>
    BY <1>1, SameTrail
  <1>2. CASE PrepareSeal
    <2>1. seal = NoSeal
      BY <1>2 DEF PrepareSeal, IndInv, SealOK, RowSeal
    <2> QED BY <1>2, <2>1, SameTrail DEF PrepareSeal, NoSeal, files
  <1>3. ASSUME NEW p \in Procs, SealValidating(p) PROVE TrailGrows
    <2>1. archive' = archive /\ (seal' = seal \/ seal' = audit[p]) /\ pc[p] = "seal"
      BY <1>3 DEF SealValidating, files
    <2>2. audit[p].history = seal.history /\ audit[p].transitions = seal.transitions
      BY <2>1, Facts DEF HeldOK, LooseOK, V3Only
    <2> QED BY <2>1, <2>2, SameTrail
  <1>4. ASSUME NEW p \in Procs, FinalizeResult(p) PROVE TrailGrows
    <2>1. archive' = archive /\ (seal' = seal \/ (seal' = audit[p] /\ status = "running"))
          /\ pc[p] = "finalize"
      BY <1>4 DEF FinalizeResult, files, row
    <2>2. v3 => audit[p] = seal
      BY <2>1, Facts DEF HeldOK, Executing
    <2>3. ~v3 => audit[p].history = <<>> /\ audit[p].transitions = <<>> /\ seal.status # "none"
      BY <2>1, Facts DEF LooseOK, Executing
    <2>4. ~v3 /\ seal.status # "none" /\ status = "running" =>
             seal.history = <<>> /\ seal.transitions = <<>>
      BY <1>0 DEF IndInv, SealOK, RowSeal, Contiguous
    <2> QED BY <2>1, <2>2, <2>3, <2>4, SameTrail
  <1>5. ASSUME NEW p \in Procs, PromoteSeal(p) PROVE TrailGrows
    <2>1. audit[p] \in Seal
      BY Facts
    <2>2. archive' = archive /\ seal'.history = seal.history /\ seal'.transitions = seal.transitions
      BY SMTT(30), <1>0, <1>5, <2>1, SealParts DEF PromoteSeal, files, Seal
    <2> QED BY <2>2, SameTrail
  <1>6. ASSUME NEW p \in Procs, SealFailed(p) PROVE TrailGrows
    <2>1. /\ archive' = archive
          /\ seal'.history = seal.history \/ \E e \in Entry : seal'.history = Append(seal.history, e)
          /\ seal'.transitions = seal.transitions
      <3>1. [attempt |-> seal.attempt, drafts |-> seal.drafts,
             finalized_at |-> seal.finalized_at,
             completed_at |-> completed_at, error |-> error] \in Entry
        BY <1>0, SealParts DEF Entry
      <3> QED BY <1>6, <3>1 DEF SealFailed, files
    <2> QED BY <1>0, <2>1, PrefixKept DEF TrailGrows
  <1>7. ASSUME NEW p \in Procs, Rearm(p) PROVE TrailGrows
    <2>1. /\ archive' = archive /\ seal'.history = seal.history
          /\ \/ seal'.transitions = seal.transitions
             \/ seal'.transitions = Append(seal.transitions, at[p])
      BY <1>7 DEF Rearm, RearmedSeal, files
    <2>2. at[p] \in Nat
      BY Facts
    <2> QED BY <1>0, <2>1, <2>2, PrefixKept DEF TrailGrows
  <1>8. ASSUME NEW p \in Procs, ArchiveDrafts(p) \/ ArchiveReceipt(p) PROVE TrailGrows
    BY <1>8, ArchiveGrows
  <1>9. ASSUME \/ PrepareRow \/ PrepareFails \/ CrashPrepare
               \/ RestartApi \/ StartReplacement \/ Tick \/ UNCHANGED vars
               \/ \E d \in Drafts : WriteDrafts(d)
        PROVE  UNCHANGED <<archive, seal>>
    BY <1>9 DEF PrepareRow, PrepareFails, CrashPrepare, RestartApi, StartReplacement, Tick, vars,
       WriteDrafts, row, files
  <1>10. ASSUME NEW p \in Procs,
                \/ StartFinalize(p) \/ LoadSeal(p) \/ ReadDrafts(p) \/ RuntimeDrift(p)
                \/ BeginExecution(p) \/ GraphReturns(p) \/ MarkFailed(p) \/ PublishFailed(p)
                \/ RecoverCompleted(p) \/ CreateReceipt(p) \/ FillReceipt(p) \/ FreezeDrafts(p)
         PROVE  UNCHANGED <<archive, seal>>
    BY <1>10 DEF StartFinalize, LoadSeal, ReadDrafts, RuntimeDrift, BeginExecution, GraphReturns,
       MarkFailed, PublishFailed, RecoverCompleted, CreateReceipt, FillReceipt, FreezeDrafts,
       row, files
  <1>11. ASSUME NEW p \in Procs,
                \/ StartRetry(p) \/ RetryLoad(p) \/ RecoverInterrupted(p) \/ RetrySeal(p)
                \/ RetryVerify(p) \/ UnlinkDrafts(p) \/ UnlinkReceipt(p) \/ Crash(p)
         PROVE  UNCHANGED <<archive, seal>>
    BY <1>11 DEF StartRetry, RetryLoad, RecoverInterrupted, RetrySeal, RetryVerify, UnlinkDrafts,
       UnlinkReceipt, Crash, row, files
  <1> QED BY <1>1, <1>2, <1>3, <1>4, <1>5, <1>6, <1>7, <1>8, <1>9, <1>10, <1>11 DEF Next

\* No step of anybody replaces an archived file, or takes back a sealed history entry or
\* retry transition (_archive_attempt_artifact, _seal_failed_attempt, _rearm_failed_run).
THEOREM TrailIsKept == Spec => AuditTrailGrows
  <1>1. IndInv /\ [Next]_vars =>
          [/\ \A n \in Attempts :
                /\ archive[n].drafts # NoDraft => archive'[n].drafts = archive[n].drafts
                /\ archive[n].receipt # NoReceipt => archive'[n].receipt = archive[n].receipt
           /\ SubSeq(seal'.history, 1, Len(seal.history)) = seal.history
           /\ SubSeq(seal'.transitions, 1, Len(seal.transitions)) = seal.transitions]_vars
    BY StepTrail DEF TrailGrows
  <1> QED BY <1>1, Invariance, PTL DEF Spec, AuditTrailGrows

-----------------------------------------------------------------------------
(* Daily Reflection: the inductive invariants.                             *)

Preparing == {"dir", "mkdir", "input", "mark"}
Sealing == {"check", "replace", "sources", "undo"}
Filing == {"lock", "publish", "receipt"}

\* What a command knows of its row: it exists once it is loaded, a correction's
\* parent has its findings, and the holder of the write lock alone files.
CommandOK(o) ==
    /\ command[o].pc # "idle" => command[o].v \in Versions
    /\ command[o].pc \in Sealing \cup {"freeze"} => command[o].file \in Snapshot
    /\ command[o].pc \in Filing \cup {"claim"} => command[o].file \in ReceiptFile
    /\ command[o].pc \in Preparing \cup Sealing \cup Filing => Exists(command[o].v)
    /\ command[o].pc = "insert" /\ command[o].parent # Nothing =>
          Exists(command[o].parent) /\ findings[command[o].parent] # {}
    /\ command[o].pc \in {"publish", "receipt"} =>
          writeLock = o /\ HasStatus(command[o].v, "awaiting_analysis")
    /\ command[o].pc = "receipt" =>
          receiptFile[command[o].v] = command[o].file /\ findings[command[o].v] = {}

\* A row is completed with its findings, which its receipt was written for, and
\* supersedes one that has findings.
RowOK(v) ==
    /\ HasStatus(v, "completed") => findings[v] # {}
    /\ findings[v] # {} => findings[v] = {receiptFile[v]}
    /\ Exists(v) /\ run[v].parent # Nothing =>
          Exists(run[v].parent) /\ findings[run[v].parent] # {}

\* Two active rows do not supersede the same one.
Chained ==
    \A u, v \in Versions :
      /\ Active(u) /\ Active(v)
      /\ run[u].parent = run[v].parent /\ run[u].parent # Nothing
      => u = v

RowTypes ==
    /\ run \in [Versions -> Row \cup {Nothing}]
    /\ findings \in [Versions -> SUBSET ReceiptFile]
    /\ receiptFile \in [Versions -> ReceiptFile \cup {Nothing}]

FileTypes ==
    /\ dir \in [Versions -> {"none", "made", "ready"}]
    /\ discovery \in [Versions -> Texts \cup {Nothing}]
    /\ sources \in [Versions -> Snapshot \cup {Nothing}]
    /\ analysis \in [Versions -> Texts \cup {Nothing}]
    /\ command \in [Operators -> Op]
    /\ time \in 0..MaxTime /\ kills \in Nat

\* Holds however the commands overlap.
RowsOK ==
    /\ RowTypes /\ FileTypes /\ Chained
    /\ \A o \in Operators : CommandOK(o)
    /\ \A v \in Versions : RowOK(v)

Names == {"idle", "insert", "dir", "mkdir", "input", "mark", "freeze", "check",
          "replace", "sources", "undo", "claim", "lock", "publish", "receipt"}

\* Operator o's command becomes c, the others' stay.
Turns(o, c) ==
    /\ command' \in [Operators -> Op] /\ command'[o] = c
    /\ \A q \in Operators \ {o} : command'[q] = command[q]

\* Operator o's command moves on to x.
Moves(o, x) ==
    \E c \in Op : /\ Turns(o, c) /\ c.pc = x
                  /\ c.v = command[o].v /\ c.parent = command[o].parent
                  /\ c.file = command[o].file /\ c.mine = command[o].mine

LEMMA MoveToMoves ==
  ASSUME FileTypes, NEW o \in Operators, NEW x \in Names, MoveTo(o, x)
  PROVE  Moves(o, x)
<1>1. command \in [Operators -> Op] /\ command[o] \in Op
  BY DEF FileTypes
<1>2. PICK c : c = [command[o] EXCEPT !.pc = x]
  OBVIOUS
<1>3. c \in Op /\ c.pc = x /\ c.v = command[o].v /\ c.parent = command[o].parent
        /\ c.file = command[o].file /\ c.mine = command[o].mine
  BY <1>1, <1>2 DEF Op, Names
<1>4. command' = [command EXCEPT ![o] = c]
  BY <1>1, <1>2 DEF MoveTo
<1>5. Turns(o, c)
  BY <1>1, <1>3, <1>4 DEF Turns
<1>. QED
  BY <1>3, <1>5 DEF Moves

LEMMA IdleParts ==
  /\ Idle \in Op /\ Idle.pc = "idle" /\ Idle.v = Nothing /\ Idle.parent = Nothing
  /\ Idle.file = Nothing /\ Idle.mine = FALSE
BY DEF Idle, Op

LEMMA StopTurns ==
  ASSUME FileTypes, NEW o \in Operators, Stop(o)
  PROVE  Turns(o, Idle)
BY IdleParts DEF FileTypes, Stop, Turns

\* Row v becomes r; the findings and the receipts stay.
Rewrites(v, r) ==
    /\ run' = [run EXCEPT ![v] = r] /\ r \in Row
    /\ UNCHANGED <<findings, receiptFile>>

LEMMA NothingElse ==
  /\ Nothing \notin Versions /\ Nothing \notin Operators /\ Nothing \notin Texts
  /\ Nothing \notin Row /\ Nothing \notin Snapshot /\ Nothing \notin ReceiptFile
BY ReflectionConfiguration, NoFileIsNothing

\* A step of one command that leaves the tables and the receipts.
LEMMA CommandKeeps ==
  ASSUME RowsOK, NEW o \in Operators, NEW c \in Op, Turns(o, c),
         UNCHANGED <<run, findings, receiptFile>>, FileTypes', CommandOK(o)',
         writeLock' = writeLock \/ writeLock \in {o, Nothing}
  PROVE  RowsOK'
<1>1. RowTypes' /\ Chained'
  BY DEF RowsOK, RowTypes, Chained, Active, Exists
<1>2. \A v \in Versions : RowOK(v)'
  BY DEF RowsOK, RowOK, HasStatus, Exists
<1>3. ASSUME NEW q \in Operators, q # o PROVE CommandOK(q)'
  <2>1. command'[q] = command[q] /\ CommandOK(q)
    BY <1>3 DEF Turns, RowsOK
  <2>2. command[q].pc \in {"publish", "receipt"} => writeLock = q /\ writeLock' = q
    BY <1>3, <2>1, NothingElse DEF CommandOK
  <2>. QED
    BY <2>1, <2>2 DEF CommandOK, HasStatus, Exists
<1>. QED
  BY <1>1, <1>2, <1>3 DEF RowsOK

\* A transaction of one command on its row, in which nobody holds the lock.
LEMMA RowKeeps ==
  ASSUME RowsOK, NEW o \in Operators, NEW c \in Op, Turns(o, c),
         NEW v \in Versions, NEW r \in Row, Rewrites(v, r),
         writeLock = Nothing, FileTypes', CommandOK(o)',
         r.status # "completed",
         Exists(v) => r.parent = run[v].parent,
         r.parent # Nothing => Exists(r.parent) /\ findings[r.parent] # {},
         r.status # "failed" /\ r.parent # Nothing => Successors(r.parent) \subseteq {v}
  PROVE  RowsOK'
<1>1. /\ run \in [Versions -> Row \cup {Nothing}] /\ run'[v] = r
      /\ \A u \in Versions \ {v} : run'[u] = run[u]
  BY DEF RowsOK, RowTypes, Rewrites
<1>2. RowTypes'
  BY <1>1 DEF RowsOK, RowTypes, Rewrites
<1>3. \A u \in Versions \cup {Nothing} : u \in Versions /\ Exists(u) => Exists(u)'
  BY <1>1, NothingElse DEF Exists
<1>4. ASSUME NEW u \in Versions, NEW w \in Versions,
             Active(u)', Active(w)', run'[u].parent = run'[w].parent,
             run'[u].parent # Nothing
      PROVE  u = w
  <2>1. Active(v)' => r.status # "failed"
    BY <1>1 DEF Active
  <2>2. ASSUME NEW x \in Versions, x # v, Active(x)', Active(v)',
               run'[x].parent = r.parent, r.parent # Nothing
        PROVE  FALSE
    <3>1. x \in Successors(r.parent)
      BY <1>1, <2>2 DEF Successors, Active, Exists
    <3>. QED
      BY <2>1, <2>2, <3>1
  <2>3. CASE u # v /\ w # v
    BY <1>1, <1>4, <2>3 DEF RowsOK, Chained, Active, Exists
  <2>. QED
    BY <1>1, <1>4, <2>2, <2>3
<1>5. Chained'
  BY <1>4 DEF Chained
<1>6. ASSUME NEW u \in Versions PROVE RowOK(u)'
  <2>1. RowOK(u) /\ findings' = findings /\ receiptFile' = receiptFile
    BY DEF RowsOK, Rewrites
  <2>2. HasStatus(u, "completed")' => HasStatus(u, "completed")
    BY <1>1 DEF HasStatus, Exists
  <2>3. Exists(u)' /\ run'[u].parent # Nothing =>
          Exists(run'[u].parent) /\ findings[run'[u].parent] # {}
    BY <1>1, <2>1 DEF RowOK, Exists
  <2>4. Exists(u)' /\ run'[u].parent # Nothing => run'[u].parent \in Versions
    BY <1>2 DEF RowTypes, Row, Exists
  <2>. QED
    BY <1>3, <2>1, <2>2, <2>3, <2>4 DEF RowOK
<1>7. ASSUME NEW q \in Operators, q # o PROVE CommandOK(q)'
  <2>1. command'[q] = command[q] /\ CommandOK(q)
    BY <1>7 DEF Turns, RowsOK
  <2>2. command[q].pc \notin {"publish", "receipt"}
    BY <2>1, NothingElse DEF CommandOK
  <2>3. command[q].parent \in Versions \cup {Nothing} /\ command[q].v \in Versions \cup {Nothing}
    BY DEF RowsOK, FileTypes, Op
  <2>4. command[q].pc \in Preparing \cup Sealing \cup Filing => Exists(command[q].v)'
    BY <1>3, <2>1 DEF CommandOK, Preparing, Sealing, Filing
  <2>5. command[q].pc = "insert" /\ command[q].parent # Nothing =>
          Exists(command[q].parent)' /\ findings'[command[q].parent] # {}
    BY <1>3, <2>1, <2>3 DEF CommandOK, Rewrites
  <2>. QED
    BY <2>1, <2>2, <2>4, <2>5 DEF CommandOK
<1>. QED
  BY <1>2, <1>5, <1>6, <1>7 DEF RowsOK

\* The parts of the package no command types are about.
Still == UNCHANGED <<dir, discovery, sources, analysis>>

LEMMA StillTypes ==
  ASSUME FileTypes, Still, command' \in [Operators -> Op],
         time' \in 0..MaxTime, kills' \in Nat
  PROVE  FileTypes'
BY DEF FileTypes, Still

\* A command that stops, or moves on over what it knows already.
LEMMA StopKeepsRows ==
  ASSUME RowsOK, NEW o \in Operators, Stop(o), FileTypes',
         UNCHANGED <<run, findings, receiptFile>>,
         writeLock' = writeLock \/ writeLock \in {o, Nothing}
  PROVE  RowsOK'
<1>1. Turns(o, Idle)
  BY StopTurns DEF RowsOK
<1>2. CommandOK(o)'
  BY <1>1, IdleParts DEF CommandOK, Turns, Preparing, Sealing, Filing
<1>. QED
  BY <1>1, <1>2, IdleParts, CommandKeeps

LEMMA PrepareLoadRows ==
  ASSUME RowsOK, NEW o \in Operators, NEW v \in Versions,
         NEW p \in Versions \cup {Nothing}, PrepareLoad(o, v, p)
  PROVE  RowsOK'
<1>1. PICK x \in {"insert", "dir"} :
        /\ command' = [command EXCEPT ![o] = [Idle EXCEPT !.pc = x, !.v = v, !.parent = p]]
        /\ x = "insert" => MayCreate(v, p)
        /\ x = "dir" => Exists(v)
  BY DEF PrepareLoad, HasStatus
<1>2. PICK c : c = [Idle EXCEPT !.pc = x, !.v = v, !.parent = p]
  OBVIOUS
<1>3. c \in Op /\ c.pc = x /\ c.v = v /\ c.parent = p
  BY <1>2 DEF Idle, Op
<1>4. Turns(o, c)
  BY <1>1, <1>2, <1>3 DEF Turns, RowsOK, FileTypes
<1>5. FileTypes'
  BY <1>4 DEF PrepareLoad, packageFiles, budget, Turns, RowsOK, FileTypes
<1>6. UNCHANGED <<run, findings, receiptFile, writeLock>>
  BY DEF PrepareLoad, tables, packageFiles
<1>7. x = "insert" /\ p # Nothing => Exists(p) /\ findings[p] # {}
  BY <1>1 DEF MayCreate, Supersedable, RowsOK, RowOK, HasStatus
<1>8. CommandOK(o)'
  BY <1>1, <1>3, <1>4, <1>6, <1>7 DEF CommandOK, Turns, Exists, Preparing, Sealing, Filing
<1>. QED
  BY <1>3, <1>4, <1>5, <1>6, <1>8, CommandKeeps

LEMMA PrepareInsertRows ==
  ASSUME RowsOK, NEW o \in Operators, PrepareInsert(o)
  PROVE  RowsOK'
<1>1. /\ command[o].pc = "insert" /\ command[o].v \in Versions /\ CommandOK(o)
      /\ command[o].parent \in Versions \cup {Nothing} /\ FileTypes
  BY DEF PrepareInsert, At, RowsOK, CommandOK, FileTypes, Op
<1>2. /\ UNCHANGED <<findings, receiptFile, writeLock>> /\ Still /\ writeLock = Nothing
      /\ UNCHANGED <<time, kills>>
  BY DEF PrepareInsert, packageFiles, budget, Still
<1>3. CASE Insertable(command[o].v, command[o].parent)
  <2>1. PICK r : r = [status |-> "awaiting_sources", parent |-> command[o].parent,
                      sources |-> Nothing, receipt |-> Nothing]
    OBVIOUS
  <2>2. r \in Row /\ r.status = "awaiting_sources" /\ r.parent = command[o].parent
    BY <1>1, <2>1 DEF Row
  <2>3. Rewrites(command[o].v, r) /\ MoveTo(o, "dir")
    BY <1>2, <1>3, <2>1, <2>2 DEF PrepareInsert, Rewrites
  <2>4. PICK c \in Op : Turns(o, c) /\ c.pc = "dir" /\ c.v = command[o].v
    BY <1>1, <2>3, MoveToMoves DEF Moves, Names
  <2>5. FileTypes'
    BY <1>1, <1>2, <2>4, StillTypes DEF Turns, FileTypes
  <2>6. Exists(command[o].v)'
    BY <1>1, <2>2, <2>3, <2>4, NothingElse DEF Rewrites, Exists, RowsOK, RowTypes, Turns
  <2>7. CommandOK(o)'
    BY <1>1, <2>4, <2>6 DEF CommandOK, Turns, Preparing, Sealing, Filing
  <2>8. /\ ~Exists(command[o].v)
        /\ command[o].parent # Nothing => /\ Successors(command[o].parent) = {}
                                          /\ Exists(command[o].parent)
                                          /\ findings[command[o].parent] # {}
    BY <1>1, <1>3 DEF Insertable, CommandOK
  <2>. QED
    BY <1>1, <1>2, <2>2, <2>3, <2>4, <2>5, <2>7, <2>8, RowKeeps
<1>4. CASE ~Insertable(command[o].v, command[o].parent)
  <2>1. UNCHANGED run /\ Stop(o)
    BY <1>4 DEF PrepareInsert
  <2>2. FileTypes'
    BY <1>1, <1>2, <2>1, StopTurns, StillTypes DEF Turns, FileTypes
  <2>. QED
    BY <1>2, <2>1, <2>2, StopKeepsRows
<1>. QED
  BY <1>3, <1>4

LEMMA MoveKeepsRows ==
  ASSUME RowsOK, NEW o \in Operators, NEW x \in Preparing \cup Sealing \cup {"lock"},
         MoveTo(o, x), command[o].pc # "idle", Exists(command[o].v),
         x \in Sealing => command[o].file \in Snapshot,
         x = "lock" => command[o].file \in ReceiptFile,
         UNCHANGED <<run, findings, receiptFile, writeLock>>, FileTypes'
  PROVE  RowsOK'
<1>1. PICK c \in Op : /\ Turns(o, c) /\ c.pc = x /\ c.v = command[o].v
                      /\ c.file = command[o].file
  BY MoveToMoves DEF Moves, Names, RowsOK, Preparing, Sealing
<1>2. c.v \in Versions
  BY <1>1 DEF RowsOK, CommandOK
<1>3. CommandOK(o)'
  BY <1>1, <1>2 DEF CommandOK, Turns, Exists, Preparing, Sealing, Filing
<1>. QED
  BY <1>1, <1>3, CommandKeeps

\* Steps of prepare on its directory.
LEMMA PrepareDirRows ==
  ASSUME RowsOK, NEW o \in Operators,
         PrepareDir(o) \/ PrepareMkdir(o) \/ PrepareInput(o)
  PROVE  RowsOK'
<1>1. /\ command[o].pc \in Preparing /\ command[o].v \in Versions
      /\ Exists(command[o].v) /\ FileTypes
  BY DEF PrepareDir, PrepareMkdir, PrepareInput, At, Preparing, RowsOK, CommandOK
<1>2. /\ UNCHANGED <<run, findings, receiptFile, writeLock, discovery, sources, analysis,
                     time, kills>>
      /\ dir' \in [Versions -> {"none", "made", "ready"}]
  BY <1>1 DEF PrepareDir, PrepareMkdir, PrepareInput, tables, packageFiles, budget, FileTypes
<1>3. Stop(o) \/ \E x \in Preparing : MoveTo(o, x)
  BY DEF PrepareDir, PrepareMkdir, PrepareInput, Preparing
<1>4. CASE Stop(o)
  <2>1. FileTypes'
    BY <1>1, <1>2, <1>4, StopTurns DEF Turns, FileTypes
  <2>. QED
    BY <1>2, <1>4, <2>1, StopKeepsRows
<1>5. ASSUME NEW x \in Preparing, MoveTo(o, x) PROVE RowsOK'
  <2>1. FileTypes'
    BY <1>1, <1>2, <1>5, MoveToMoves DEF Moves, Names, Preparing, Turns, FileTypes
  <2>. QED
    BY <1>1, <1>2, <1>5, <2>1, MoveKeepsRows DEF Preparing, Sealing
<1>. QED
  BY <1>3, <1>4, <1>5

LEMMA PrepareMarkRows ==
  ASSUME RowsOK, NEW o \in Operators, PrepareMark(o)
  PROVE  RowsOK'
<1>1. /\ command[o].pc = "mark" /\ command[o].v \in Versions
      /\ Exists(command[o].v) /\ FileTypes
  BY DEF PrepareMark, At, Preparing, RowsOK, CommandOK
<1>2. /\ UNCHANGED <<findings, receiptFile, writeLock, time, kills>> /\ Still
      /\ writeLock = Nothing /\ Stop(o)
  BY DEF PrepareMark, packageFiles, budget, Still
<1>3. run[command[o].v] \in Row /\ run \in [Versions -> Row \cup {Nothing}]
  BY <1>1 DEF RowsOK, RowTypes, Exists
<1>4. PICK r : r = [run[command[o].v] EXCEPT !.status = "failed"]
  OBVIOUS
<1>5. r \in Row /\ r.status = "failed" /\ r.parent = run[command[o].v].parent
  BY <1>3, <1>4 DEF Row
<1>6. Rewrites(command[o].v, r)
  BY <1>1, <1>2, <1>3, <1>4, <1>5 DEF PrepareMark, Rewrites
<1>7. Turns(o, Idle)
  BY <1>1, <1>2, StopTurns
<1>8. FileTypes' /\ CommandOK(o)'
  BY <1>1, <1>2, <1>7, StillTypes, IdleParts
     DEF Turns, FileTypes, CommandOK, Preparing, Sealing, Filing
<1>9. r.parent # Nothing => Exists(r.parent) /\ findings[r.parent] # {}
  BY <1>1, <1>5 DEF RowsOK, RowOK
<1>. QED
  BY <1>1, <1>2, <1>5, <1>6, <1>7, <1>8, <1>9, IdleParts, RowKeeps

\* A command that starts on package v with the file it will publish.
LEMMA ReadRows ==
  ASSUME RowsOK, NEW o \in Operators, NEW v \in Versions,
         FreezeRead(o, v) \/ FinalizeRead(o, v)
  PROVE  RowsOK'
<1>1. /\ UNCHANGED <<run, findings, receiptFile, writeLock, kills>> /\ Still
      /\ time' \in 1..MaxTime /\ time' = time + 1
  BY ReflectionConfiguration
     DEF FreezeRead, FinalizeRead, tables, packageFiles, Still, RowsOK, FileTypes
<1>2. PICK x \in {"freeze", "claim"} : \E f :
        /\ command' = [command EXCEPT ![o] = [Idle EXCEPT !.pc = x, !.v = v, !.file = f]]
        /\ x = "freeze" => f \in Snapshot
        /\ x = "claim" => f \in ReceiptFile
  <2>1. CASE FreezeRead(o, v)
    <3>1. discovery[v] \in Texts
      BY <2>1 DEF FreezeRead, RowsOK, FileTypes
    <3>2. [at |-> time + 1, discovery |-> discovery[v]] \in Snapshot
      BY <1>1, <3>1 DEF Snapshot
    <3>. QED
      BY <2>1, <3>2 DEF FreezeRead
  <2>2. CASE FinalizeRead(o, v)
    <3>1. sources[v] \in Snapshot /\ analysis[v] \in Texts
      BY <2>2 DEF FinalizeRead, RowsOK, FileTypes
    <3>2. [at |-> time + 1, sources |-> sources[v], analysis |-> analysis[v]]
            \in ReceiptFile
      BY <1>1, <3>1 DEF ReceiptFile
    <3>. QED
      BY <2>2, <3>2 DEF FinalizeRead
  <2>. QED
    BY <2>1, <2>2
<1>3. PICK f :
        /\ command' = [command EXCEPT ![o] = [Idle EXCEPT !.pc = x, !.v = v, !.file = f]]
        /\ x = "freeze" => f \in Snapshot
        /\ x = "claim" => f \in ReceiptFile
  BY <1>2
<1>4. PICK c : c = [Idle EXCEPT !.pc = x, !.v = v, !.file = f]
  OBVIOUS
<1>5. c \in Op /\ c.pc = x /\ c.v = v /\ c.file = f
  BY <1>3, <1>4 DEF Idle, Op
<1>6. Turns(o, c)
  BY <1>3, <1>4, <1>5 DEF Turns, RowsOK, FileTypes
<1>7. FileTypes'
  BY <1>1, <1>6, StillTypes DEF Turns, RowsOK, FileTypes
<1>8. CommandOK(o)'
  BY <1>3, <1>5, <1>6 DEF CommandOK, Turns, Preparing, Sealing, Filing
<1>. QED
  BY <1>1, <1>5, <1>6, <1>7, <1>8, CommandKeeps

\* Steps that only look, and then stop or move on.
LEMMA LookRows ==
  ASSUME RowsOK, NEW o \in Operators,
         FreezeLoad(o) \/ FreezeCheck(o) \/ FinalizeLoad(o)
  PROVE  RowsOK'
<1>1. /\ command[o].v \in Versions /\ FileTypes
      /\ command[o].pc \in {"freeze", "check", "claim"}
      /\ command[o].pc \in {"freeze", "check"} => command[o].file \in Snapshot
      /\ command[o].pc = "claim" => command[o].file \in ReceiptFile
  BY DEF FreezeLoad, FreezeCheck, FinalizeLoad, At, RowsOK, CommandOK, Sealing, Filing
<1>2. UNCHANGED <<run, findings, receiptFile, writeLock, time, kills>> /\ Still
  BY DEF FreezeLoad, FreezeCheck, FinalizeLoad, tables, packageFiles, budget, Still
<1>3. Stop(o) \/ \E x \in {"check", "replace", "sources", "lock"} :
                    /\ MoveTo(o, x) /\ Exists(command[o].v)
                    /\ x # "lock" => command[o].pc \in {"freeze", "check"}
                    /\ x = "lock" => command[o].pc = "claim"
  <2>1. CASE FreezeLoad(o)
    BY <2>1 DEF FreezeLoad, At, HasStatus
  <2>2. CASE FreezeCheck(o)
    <3>1. Exists(command[o].v)
      BY <2>2 DEF FreezeCheck, At, RowsOK, CommandOK, Sealing
    <3>. QED
      BY <2>2, <3>1 DEF FreezeCheck, At
  <2>3. CASE FinalizeLoad(o)
    BY <2>3 DEF FinalizeLoad, At, HasStatus
  <2>. QED
    BY <2>1, <2>2, <2>3
<1>4. CASE Stop(o)
  <2>1. FileTypes'
    BY <1>1, <1>2, <1>4, StopTurns, StillTypes DEF Turns, FileTypes
  <2>. QED
    BY <1>2, <1>4, <2>1, StopKeepsRows
<1>5. ASSUME NEW x \in {"check", "replace", "sources", "lock"},
             MoveTo(o, x), Exists(command[o].v),
             x # "lock" => command[o].pc \in {"freeze", "check"},
             x = "lock" => command[o].pc = "claim"
      PROVE  RowsOK'
  <2>1. FileTypes'
    BY <1>1, <1>2, <1>5, MoveToMoves, StillTypes DEF Moves, Names, Turns, FileTypes
  <2>2. x \in Sealing \cup {"lock"} /\ (x \in Sealing => x # "lock")
    BY DEF Sealing
  <2>. QED
    BY <1>1, <1>2, <1>5, <2>1, <2>2, MoveKeepsRows
<1>. QED
  BY <1>3, <1>4, <1>5

LEMMA FreezeReplaceRows ==
  ASSUME RowsOK, NEW o \in Operators, FreezeReplace(o)
  PROVE  RowsOK'
<1>1. /\ command[o].pc = "replace" /\ command[o].v \in Versions /\ FileTypes
      /\ command[o].file \in Snapshot /\ Exists(command[o].v)
      /\ command[o] \in Op
  BY DEF FreezeReplace, At, RowsOK, CommandOK, Sealing, FileTypes
<1>2. PICK c : c = [command[o] EXCEPT !.pc = "sources", !.mine = TRUE]
  OBVIOUS
<1>3. c \in Op /\ c.pc = "sources" /\ c.v = command[o].v /\ c.file = command[o].file
  BY <1>1, <1>2 DEF Op
<1>4. command' = [command EXCEPT ![o] = c]
  BY <1>1, <1>2 DEF FreezeReplace, FileTypes
<1>5. Turns(o, c)
  BY <1>1, <1>3, <1>4 DEF Turns, FileTypes
<1>6. UNCHANGED <<run, findings, receiptFile, writeLock>>
  BY DEF FreezeReplace, tables
<1>7. FileTypes'
  BY <1>1, <1>5 DEF FreezeReplace, budget, FileTypes, Turns
<1>8. CommandOK(o)'
  BY <1>1, <1>3, <1>5, <1>6 DEF CommandOK, Turns, Exists, Preparing, Sealing, Filing
<1>. QED
  BY <1>3, <1>5, <1>6, <1>7, <1>8, CommandKeeps

LEMMA FreezeCommitRows ==
  ASSUME RowsOK, NEW o \in Operators, FreezeCommit(o)
  PROVE  RowsOK'
<1>1. /\ command[o].pc = "sources" /\ command[o].v \in Versions /\ FileTypes
      /\ command[o].file \in Snapshot /\ Exists(command[o].v)
  BY DEF FreezeCommit, At, RowsOK, CommandOK, Sealing
<1>2. UNCHANGED <<findings, receiptFile, writeLock, time, kills>> /\ Still
  BY DEF FreezeCommit, packageFiles, Still
<1>3. CASE UNCHANGED run /\ MoveTo(o, "undo")
  <2>1. FileTypes'
    BY <1>1, <1>2, <1>3, MoveToMoves, StillTypes DEF Moves, Names, Turns, FileTypes
  <2>. QED
    BY <1>1, <1>2, <1>3, <2>1, MoveKeepsRows DEF Sealing
<1>4. CASE /\ writeLock = Nothing /\ OnlyActive(command[o].v) /\ Stop(o)
           /\ run' = [run EXCEPT ![command[o].v].status = "awaiting_analysis",
                                 ![command[o].v].sources = command[o].file]
  <2>1. run[command[o].v] \in Row /\ run \in [Versions -> Row \cup {Nothing}]
    BY <1>1 DEF RowsOK, RowTypes, Exists
  <2>2. PICK r : r = [run[command[o].v] EXCEPT !.status = "awaiting_analysis",
                                               !.sources = command[o].file]
    OBVIOUS
  <2>3. r \in Row /\ r.status = "awaiting_analysis" /\ r.parent = run[command[o].v].parent
    BY <1>1, <2>1, <2>2 DEF Row
  <2>4. run' = [run EXCEPT ![command[o].v] = r]
    BY <1>1, <1>4, <2>1, <2>2
  <2>5. Rewrites(command[o].v, r)
    BY <1>2, <2>3, <2>4 DEF Rewrites
  <2>6. Turns(o, Idle)
    BY <1>1, <1>4, StopTurns
  <2>7. FileTypes' /\ CommandOK(o)'
    BY <1>1, <1>2, <2>6, StillTypes, IdleParts
       DEF Turns, FileTypes, CommandOK, Preparing, Sealing, Filing
  <2>8. r.parent # Nothing => /\ Exists(r.parent) /\ findings[r.parent] # {}
                              /\ Successors(r.parent) \subseteq {command[o].v}
    BY <1>1, <1>4, <2>3 DEF RowsOK, RowOK, OnlyActive
  <2>. QED
    BY <1>1, <1>4, <2>3, <2>5, <2>6, <2>7, <2>8, IdleParts, RowKeeps
<1>. QED
  BY <1>3, <1>4 DEF FreezeCommit

LEMMA FreezeUndoRows ==
  ASSUME RowsOK, NEW o \in Operators, FreezeUndo(o)
  PROVE  RowsOK'
<1>1. UNCHANGED <<run, findings, receiptFile, writeLock>> /\ Stop(o) /\ FileTypes
  BY DEF FreezeUndo, tables, RowsOK
<1>2. FileTypes'
  BY <1>1, StopTurns DEF FreezeUndo, budget, FileTypes, Turns
<1>. QED
  BY <1>1, <1>2, StopKeepsRows

LEMMA FinalizeClaimRows ==
  ASSUME RowsOK, NEW o \in Operators, FinalizeClaim(o)
  PROVE  RowsOK'
<1>1. /\ command[o].pc = "lock" /\ command[o].v \in Versions /\ FileTypes
      /\ command[o].file \in ReceiptFile /\ Exists(command[o].v) /\ writeLock = Nothing
  BY DEF FinalizeClaim, At, RowsOK, CommandOK, Filing
<1>2. UNCHANGED <<run, findings, receiptFile, time, kills>> /\ Still
  BY DEF FinalizeClaim, tables, packageFiles, budget, Still
<1>3. CASE Stop(o)
  <2>1. FileTypes'
    BY <1>1, <1>2, <1>3, StopTurns, StillTypes DEF Turns, FileTypes
  <2>. QED
    BY <1>1, <1>2, <1>3, <2>1, StopKeepsRows
<1>4. CASE /\ HasStatus(command[o].v, "awaiting_analysis")
           /\ writeLock' = o /\ MoveTo(o, "publish")
  <2>1. PICK c \in Op : /\ Turns(o, c) /\ c.pc = "publish" /\ c.v = command[o].v
                        /\ c.file = command[o].file
    BY <1>1, <1>4, MoveToMoves DEF Moves, Names
  <2>2. FileTypes'
    BY <1>1, <1>2, <2>1, StillTypes DEF Turns, FileTypes
  <2>3. CommandOK(o)'
    BY <1>1, <1>2, <1>4, <2>1
       DEF CommandOK, Turns, HasStatus, Exists, Preparing, Sealing, Filing
  <2>. QED
    BY <1>1, <1>2, <2>1, <2>2, <2>3, CommandKeeps
<1>. QED
  BY <1>3, <1>4 DEF FinalizeClaim

\* Only the holder of the lock files.
LEMMA Holder ==
  ASSUME RowsOK, NEW o \in Operators, command[o].pc \in {"publish", "receipt"},
         NEW q \in Operators, q # o
  PROVE  command[q].pc \notin {"publish", "receipt"}
BY DEF RowsOK, CommandOK

LEMMA FinalizePublishRows ==
  ASSUME RowsOK, NEW o \in Operators, FinalizePublish(o)
  PROVE  RowsOK'
<1>1. /\ command[o].pc = "publish" /\ command[o].v \in Versions /\ FileTypes
      /\ command[o].file \in ReceiptFile /\ Exists(command[o].v) /\ writeLock = o
      /\ HasStatus(command[o].v, "awaiting_analysis")
  BY DEF FinalizePublish, At, RowsOK, CommandOK, Filing
<1>2. UNCHANGED <<run, findings, time, kills>> /\ Still
  BY DEF FinalizePublish, tables, budget, Still
<1>3. CASE UNCHANGED receiptFile /\ Stop(o)
  <2>1. FileTypes'
    BY <1>1, <1>2, <1>3, StopTurns, StillTypes DEF Turns, FileTypes
  <2>. QED
    BY <1>1, <1>2, <1>3, <2>1, StopKeepsRows
<1>4. CASE /\ receiptFile[command[o].v] = Nothing
           /\ receiptFile' = [receiptFile EXCEPT ![command[o].v] = command[o].file]
           /\ MoveTo(o, "receipt") /\ UNCHANGED writeLock
  <2>1. PICK c \in Op : /\ Turns(o, c) /\ c.pc = "receipt" /\ c.v = command[o].v
                        /\ c.file = command[o].file
    BY <1>1, <1>4, MoveToMoves DEF Moves, Names
  <2>2. FileTypes'
    BY <1>1, <1>2, <2>1, StillTypes DEF Turns, FileTypes
  <2>3. RowTypes /\ RowTypes'
    BY <1>1, <1>2, <1>4 DEF RowsOK, RowTypes
  <2>4. Chained'
    BY <1>2 DEF RowsOK, Chained, Active, Exists
  <2>5. findings[command[o].v] = {}
    BY <1>1, <1>4, <2>3, NothingElse DEF RowsOK, RowOK, RowTypes
  <2>6. \A u \in Versions \ {command[o].v} : receiptFile'[u] = receiptFile[u]
    BY <1>4, <2>3 DEF RowTypes
  <2>7. ASSUME NEW u \in Versions PROVE RowOK(u)'
    BY <1>2, <2>5, <2>6 DEF RowsOK, RowOK, HasStatus, Exists
  <2>8. ASSUME NEW q \in Operators PROVE CommandOK(q)'
    <3>1. CASE q = o
      BY <1>1, <1>2, <1>4, <2>1, <2>3, <2>5, <3>1
         DEF CommandOK, Turns, HasStatus, Exists, RowTypes, Preparing, Sealing, Filing
    <3>2. CASE q # o
      <4>1. command'[q] = command[q] /\ CommandOK(q) /\ command[q].pc \notin {"publish", "receipt"}
        BY <1>1, <2>1, <3>2, Holder DEF Turns, RowsOK
      <4>. QED
        BY <1>2, <4>1 DEF CommandOK, HasStatus, Exists
    <3>. QED
      BY <3>1, <3>2
  <2>. QED
    BY <2>2, <2>3, <2>4, <2>7, <2>8 DEF RowsOK
<1>. QED
  BY <1>3, <1>4 DEF FinalizePublish

LEMMA FinalizeCommitRows ==
  ASSUME RowsOK, NEW o \in Operators, FinalizeCommit(o)
  PROVE  RowsOK'
<1>. DEFINE v == command[o].v
<1>1. /\ command[o].pc = "receipt" /\ v \in Versions /\ FileTypes /\ RowTypes
      /\ command[o].file \in ReceiptFile /\ Exists(v) /\ writeLock = o
      /\ HasStatus(v, "awaiting_analysis")
      /\ receiptFile[v] = command[o].file /\ findings[v] = {}
  BY DEF FinalizeCommit, At, RowsOK, CommandOK, Filing
<1>2. UNCHANGED <<time, kills>> /\ Still /\ Turns(o, Idle)
  BY <1>1, StopTurns DEF FinalizeCommit, Still
<1>3. FileTypes' /\ CommandOK(o)'
  BY <1>1, <1>2, StillTypes, IdleParts
     DEF Turns, FileTypes, CommandOK, Preparing, Sealing, Filing
<1>4. \A q \in Operators \ {o} :
        command'[q] = command[q] /\ CommandOK(q) /\ command[q].pc \notin {"publish", "receipt"}
  BY <1>1, <1>2, Holder DEF Turns, RowsOK
<1>5. CASE /\ run' = [run EXCEPT ![v].status = "completed", ![v].receipt = command[o].file]
           /\ findings' = [findings EXCEPT ![v] = @ \cup {command[o].file}]
           /\ UNCHANGED receiptFile
  <2>1. run[v] \in Row /\ run \in [Versions -> Row \cup {Nothing}]
    BY <1>1 DEF RowTypes, Exists
  <2>2. PICK r : r = [run[v] EXCEPT !.status = "completed", !.receipt = command[o].file]
    OBVIOUS
  <2>3. r \in Row /\ r.status = "completed" /\ r.parent = run[v].parent
    BY <1>1, <2>1, <2>2 DEF Row
  <2>4. run' = [run EXCEPT ![v] = r]
    BY <1>1, <1>5, <2>1, <2>2
  <2>5. /\ run'[v] = r /\ findings'[v] = {command[o].file}
        /\ \A u \in Versions \ {v} : run'[u] = run[u] /\ findings'[u] = findings[u]
    BY <1>1, <1>5, <2>1, <2>4 DEF RowTypes
  <2>6. RowTypes'
    BY <1>1, <1>5, <2>1, <2>3, <2>4 DEF RowTypes
  <2>7. \A u \in Versions : /\ Exists(u)' <=> Exists(u)
                            /\ Active(u)' <=> Active(u)
                            /\ Exists(u) => run'[u].parent = run[u].parent
                            /\ findings[u] # {} => findings'[u] # {}
    BY <1>1, <2>1, <2>3, <2>5, NothingElse DEF Exists, Active, HasStatus
  <2>8. Chained'
    BY <2>7 DEF Chained, RowsOK, Active
  <2>9. ASSUME NEW u \in Versions PROVE RowOK(u)'
    <3>1. RowOK(u)
      BY DEF RowsOK
    <3>2. Exists(u)' /\ run'[u].parent # Nothing =>
            run[u].parent \in Versions /\ Exists(run[u].parent) /\ findings[run[u].parent] # {}
      BY <2>1, <2>7, <3>1 DEF RowOK, Row, Exists
    <3>3. Exists(u)' /\ run'[u].parent # Nothing =>
            Exists(run[u].parent)' /\ findings'[run'[u].parent] # {}
      BY <2>7, <3>2 DEF Exists
    <3>4. HasStatus(u, "completed")' => findings'[u] # {}
      BY <2>5, <3>1 DEF RowOK, HasStatus, Exists
    <3>5. findings'[u] # {} => findings'[u] = {receiptFile'[u]}
      BY <1>1, <1>5, <2>5, <3>1 DEF RowOK
    <3>. QED
      BY <3>3, <3>4, <3>5 DEF RowOK
  <2>10. ASSUME NEW q \in Operators, q # o PROVE CommandOK(q)'
    <3>1. command[q].v \in Versions \cup {Nothing} /\ command[q].parent \in Versions \cup {Nothing}
      BY <1>1 DEF FileTypes, Op
    <3>2. command[q].pc \in Preparing \cup Sealing \cup Filing => Exists(command[q].v)'
      BY <1>4, <2>7, <2>10 DEF CommandOK, Preparing, Sealing, Filing
    <3>. QED
      BY <1>4, <2>7, <2>10, <3>1, <3>2 DEF CommandOK
  <2>. QED
    BY <1>3, <2>6, <2>8, <2>9, <2>10 DEF RowsOK
<1>6. CASE UNCHANGED tables /\ receiptFile' = [receiptFile EXCEPT ![v] = Nothing]
  <2>1. RowTypes' /\ \A u \in Versions \ {v} : receiptFile'[u] = receiptFile[u]
    BY <1>1, <1>6 DEF RowTypes, tables
  <2>2. Chained'
    BY <1>6 DEF RowsOK, Chained, Active, Exists, tables
  <2>3. ASSUME NEW u \in Versions PROVE RowOK(u)'
    BY <1>1, <1>6, <2>1 DEF RowsOK, RowOK, HasStatus, Exists, tables
  <2>4. ASSUME NEW q \in Operators, q # o PROVE CommandOK(q)'
    BY <1>4, <1>6, <2>4 DEF CommandOK, HasStatus, Exists, tables
  <2>. QED
    BY <1>3, <2>1, <2>2, <2>3, <2>4 DEF RowsOK
<1>. QED
  BY <1>5, <1>6 DEF FinalizeCommit

LEMMA KillRows ==
  ASSUME RowsOK, NEW o \in Operators, Kill(o)
  PROVE  RowsOK'
<1>1. UNCHANGED <<run, findings, receiptFile, time>> /\ Still /\ Stop(o)
      /\ FileTypes /\ kills' = kills + 1
  BY DEF Kill, tables, packageFiles, Still, RowsOK
<1>2. FileTypes'
  BY <1>1, StopTurns, StillTypes DEF FileTypes, Turns
<1>. QED
  BY <1>1, <1>2, StopKeepsRows DEF Kill

\* The draft writer and the deadline leave rows, receipts and commands.
LEMMA WriterRows ==
  ASSUME RowsOK, NEW v \in Versions,
         \/ \E t \in Texts : WriteDiscovery(v, t) \/ WriteAnalysis(v, t)
         \/ DeadlinePasses(v)
  PROVE  RowsOK'
<1>1. UNCHANGED <<run, findings, receiptFile, writeLock, command>>
  BY DEF WriteDiscovery, WriteAnalysis, DeadlinePasses, tables, packageFiles
<1>2. FileTypes'
  BY DEF WriteDiscovery, WriteAnalysis, DeadlinePasses, packageFiles, budget, RowsOK, FileTypes
<1>3. RowTypes' /\ Chained'
  BY <1>1 DEF RowsOK, RowTypes, Chained, Active, Exists
<1>4. (\A u \in Versions : RowOK(u)') /\ (\A q \in Operators : CommandOK(q)')
  BY <1>1 DEF RowsOK, RowOK, CommandOK, HasStatus, Exists
<1>. QED
  BY <1>2, <1>3, <1>4 DEF RowsOK

LEMMA InitRows == ReflectionInit => RowsOK
<1>. SUFFICES ASSUME ReflectionInit PROVE RowsOK
  OBVIOUS
<1>1. RowTypes
  BY DEF ReflectionInit, RowTypes
<1>2. FileTypes
  BY ReflectionConfiguration, IdleParts DEF ReflectionInit, FileTypes
<1>3. \A o \in Operators : CommandOK(o)
  BY IdleParts DEF ReflectionInit, CommandOK, Preparing, Sealing, Filing
<1>4. Chained /\ \A v \in Versions : RowOK(v)
  BY DEF ReflectionInit, Chained, RowOK, Active, HasStatus, Exists
<1>. QED
  BY <1>1, <1>2, <1>3, <1>4 DEF RowsOK

LEMMA NextRows == RowsOK /\ [ReflectionNext]_reflectionVars => RowsOK'
<1>. SUFFICES ASSUME RowsOK, [ReflectionNext]_reflectionVars PROVE RowsOK'
  OBVIOUS
<1>1. ASSUME NEW o \in Operators, Prepare(o) PROVE RowsOK'
  BY <1>1, PrepareLoadRows, PrepareInsertRows, PrepareDirRows, PrepareMarkRows DEF Prepare
<1>2. ASSUME NEW o \in Operators, Freeze(o) PROVE RowsOK'
  BY <1>2, ReadRows, LookRows, FreezeReplaceRows, FreezeCommitRows, FreezeUndoRows DEF Freeze
<1>3. ASSUME NEW o \in Operators, Finalize(o) PROVE RowsOK'
  BY <1>3, ReadRows, LookRows, FinalizeClaimRows, FinalizePublishRows, FinalizeCommitRows
     DEF Finalize
<1>4. CASE UNCHANGED reflectionVars
  <2>1. UNCHANGED <<run, findings, receiptFile, writeLock, command, time, kills>> /\ Still
    BY <1>4 DEF reflectionVars, tables, packageFiles, budget, Still
  <2>2. RowTypes' /\ FileTypes' /\ Chained'
    BY <2>1 DEF RowsOK, RowTypes, FileTypes, Still, Chained, Active, Exists
  <2>3. (\A u \in Versions : RowOK(u)') /\ (\A q \in Operators : CommandOK(q)')
    BY <2>1 DEF RowsOK, RowOK, CommandOK, HasStatus, Exists
  <2>. QED
    BY <2>2, <2>3 DEF RowsOK
<1>. QED
  BY <1>1, <1>2, <1>3, <1>4, KillRows, WriterRows DEF ReflectionNext

\* A set of which any two members are the same has at most one.
LEMMA AtMostOne ==
  ASSUME NEW S, \A x, y \in S : x = y
  PROVE  Cardinality(S) <= 1
<1>1. CASE S = {}
  BY <1>1, FS_EmptySet
<1>2. CASE S # {}
  <2>1. PICK x \in S : TRUE
    BY <1>2
  <2>2. S = {x}
    BY <2>1
  <2>. QED
    BY <2>2, FS_Singleton
<1>. QED
  BY <1>1, <1>2

LEMMA RowsChain == RowsOK => FindingsOnce /\ OneSuccessor
<1>. SUFFICES ASSUME RowsOK PROVE FindingsOnce /\ OneSuccessor
  OBVIOUS
<1>1. FindingsOnce
  BY DEF RowsOK, RowOK, FindingsOnce
<1>2. ASSUME NEW p \in Versions
      PROVE  /\ Cardinality(Successors(p)) <= 1
             /\ Successors(p) # {} => Exists(p) /\ findings[p] # {}
  <2>1. \A u, w \in Successors(p) : u = w
    BY NothingElse DEF RowsOK, Chained, Successors
  <2>2. \A u \in Successors(p) : Exists(p) /\ findings[p] # {}
    BY NothingElse DEF RowsOK, RowOK, Successors, Active
  <2>. QED
    BY <2>1, <2>2, AtMostOne
<1>. QED
  BY <1>1, <1>2 DEF OneSuccessor

\* However reflection commands overlap, are killed or fail, findings are stored
\* once, with the receipt on disk, and a completed reflection has at most one
\* active correction (finalize_reflection, uq_reflection_active_successor).
THEOREM ReflectionsFormAChain == ReflectionSpec => [](FindingsOnce /\ OneSuccessor)
<1>1. ReflectionInit => RowsOK
  BY InitRows
<1>2. RowsOK /\ [ReflectionNext]_reflectionVars => RowsOK'
  BY NextRows
<1>3. RowsOK => FindingsOnce /\ OneSuccessor
  BY RowsChain
<1>. QED
  BY <1>1, <1>2, <1>3, PTL DEF ReflectionSpec

-----------------------------------------------------------------------------
(* Daily Reflection: operators who take turns.                             *)

\* One active row supersedes none.
RootAlone ==
    \A u, v \in Versions :
      Active(u) /\ Active(v) /\ run[u].parent = Nothing /\ run[v].parent = Nothing
      => u = v

\* What a command has read still holds.
TurnOK(o) ==
    /\ command[o].pc = "insert" /\ command[o].parent = Nothing =>
          \A u \in Versions : ~Active(u)
    /\ command[o].pc \in Preparing \cup Sealing =>
          HasStatus(command[o].v, "awaiting_sources")
    /\ command[o].pc \in Filing =>
          /\ HasStatus(command[o].v, "awaiting_analysis")
          /\ run[command[o].v].sources = command[o].file.sources
    /\ command[o].pc = "sources" => sources[command[o].v] = command[o].file

\* Where the package of a command stands that was not killed before.
UnkilledOK(o) ==
    /\ command[o].pc \in {"dir", "mkdir"} => dir[command[o].v] = "none"
    /\ command[o].pc = "input" => dir[command[o].v] = "made"
    /\ command[o].pc \in Sealing \cup Filing \cup {"freeze", "claim"} =>
          dir[command[o].v] = "ready"
    /\ command[o].pc \in {"check", "replace"} => sources[command[o].v] = Nothing
    /\ command[o].pc \in {"sources", "undo"} => command[o].mine

\* What is published before its transaction belongs to the command at work.
PackageOK(o, v) ==
    /\ ~Exists(v) => dir[v] = "none"
    /\ dir[v] # "ready" => sources[v] = Nothing
    /\ HasStatus(v, "awaiting_sources") =>
          \/ dir[v] = "none"
          \/ dir[v] = "ready" /\ sources[v] = Nothing
          \/ command[o].v = v /\ command[o].pc \in {"input", "mark", "sources", "undo"}
    /\ HasStatus(v, "awaiting_analysis") => dir[v] = "ready"
    /\ receiptFile[v] # Nothing =>
          HasStatus(v, "completed") \/ (command[o].v = v /\ command[o].pc = "receipt")

\* Whoever works, operator o or nobody.
SoundBy(o) ==
    /\ TurnOK(o) /\ RootAlone /\ SealMatches
    /\ kills = 0 => UnkilledOK(o) /\ \A v \in Versions : PackageOK(o, v)

OthersIdle(o) == \A q \in Operators \ {o} : command[q].pc = "idle"

LEMMA StopSound ==
  ASSUME RowsOK, NEW o \in Operators, SoundBy(o), Stop(o),
         UNCHANGED <<run, findings, dir, sources, receiptFile, kills>>,
         kills = 0 => command[o].pc \notin {"input", "mark", "sources", "undo", "receipt"}
  PROVE  SoundBy(o)'
<1>1. command'[o].pc = "idle"
  BY StopTurns, IdleParts DEF RowsOK, Turns
<1>2. TurnOK(o)' /\ RootAlone' /\ SealMatches'
  BY <1>1 DEF SoundBy, TurnOK, RootAlone, SealMatches, HasStatus, Active, Exists,
              Preparing, Sealing, Filing
<1>3. kills' = 0 => UnkilledOK(o)' /\ \A v \in Versions : PackageOK(o, v)'
  BY <1>1 DEF SoundBy, UnkilledOK, PackageOK, HasStatus, Exists, Sealing, Filing
<1>. QED
  BY <1>2, <1>3 DEF SoundBy

\* A step that leaves rows and files: what the command knows is left to show.
LEMMA LookSound ==
  ASSUME NEW o \in Operators, SoundBy(o),
         UNCHANGED <<run, findings, dir, sources, receiptFile, kills>>,
         TurnOK(o)',
         kills = 0 =>
           /\ UnkilledOK(o)'
           /\ \A v \in Versions :
                PackageOK(o, v) /\ command[o].v = v
                  /\ command[o].pc \in {"input", "mark", "sources", "undo", "receipt"} =>
                PackageOK(o, v)'
  PROVE  SoundBy(o)'
<1>1. RootAlone' /\ SealMatches'
  BY DEF SoundBy, RootAlone, SealMatches, HasStatus, Active, Exists
<1>2. ASSUME kills = 0, NEW v \in Versions PROVE PackageOK(o, v)'
  BY <1>2 DEF SoundBy, PackageOK, HasStatus, Exists
<1>. QED
  BY <1>1, <1>2 DEF SoundBy

LEMMA PrepareLoadSound ==
  ASSUME RowsOK, NEW o \in Operators, SoundBy(o), NEW v \in Versions,
         NEW p \in Versions \cup {Nothing}, PrepareLoad(o, v, p)
  PROVE  SoundBy(o)'
<1>1. PICK x \in {"insert", "dir"} :
        /\ command' = [command EXCEPT ![o] = [Idle EXCEPT !.pc = x, !.v = v, !.parent = p]]
        /\ x = "insert" => MayCreate(v, p)
        /\ x = "dir" => HasStatus(v, "awaiting_sources") /\ dir[v] = "none"
  BY DEF PrepareLoad
<1>2. command'[o].pc = x /\ command'[o].v = v /\ command'[o].parent = p
  BY <1>1 DEF Idle, RowsOK, FileTypes
<1>3. UNCHANGED <<run, findings, dir, sources, receiptFile, kills>>
  BY DEF PrepareLoad, tables, packageFiles, budget
<1>4. TurnOK(o)'
  BY <1>1, <1>2, <1>3
     DEF TurnOK, MayCreate, HasStatus, Active, Exists, Preparing, Sealing, Filing
<1>5. UnkilledOK(o)'
  BY <1>1, <1>2, <1>3 DEF UnkilledOK, Sealing, Filing
<1>6. command[o].pc = "idle"
  BY DEF PrepareLoad, At
<1>. QED
  BY <1>3, <1>4, <1>5, <1>6, LookSound

LEMMA PrepareInsertSound ==
  ASSUME RowsOK, NEW o \in Operators, SoundBy(o), PrepareInsert(o)
  PROVE  SoundBy(o)'
<1>. DEFINE v == command[o].v
            p == command[o].parent
<1>1. /\ command[o].pc = "insert" /\ v \in Versions /\ FileTypes
      /\ run \in [Versions -> Row \cup {Nothing}] /\ TurnOK(o)
  BY DEF PrepareInsert, At, RowsOK, CommandOK, RowTypes, SoundBy
<1>2. UNCHANGED <<findings, dir, sources, receiptFile, kills>>
  BY DEF PrepareInsert, packageFiles, budget
<1>3. CASE Insertable(v, p)
  <2>1. PICK r : r = [status |-> "awaiting_sources", parent |-> p,
                      sources |-> Nothing, receipt |-> Nothing]
    OBVIOUS
  <2>2. /\ run' = [run EXCEPT ![v] = r] /\ r.status = "awaiting_sources" /\ r.parent = p
        /\ r # Nothing
    <3>1. r \in Row
      BY <2>1 DEF Row, RowsOK, FileTypes, Op
    <3>. QED
      BY <1>3, <2>1, <3>1, NothingElse DEF PrepareInsert
  <2>3. run'[v] = r /\ \A u \in Versions \ {v} : run'[u] = run[u]
    BY <1>1, <2>2
  <2>4. PICK c \in Op : Turns(o, c) /\ c.pc = "dir" /\ c.v = v
    BY <1>1, <1>3, MoveToMoves DEF PrepareInsert, Moves, Names
  <2>5. command'[o].pc = "dir" /\ command'[o].v = v /\ ~Exists(v)
    BY <1>3, <2>4 DEF Turns, Insertable
  <2>6. TurnOK(o)'
    BY <2>2, <2>3, <2>5 DEF TurnOK, HasStatus, Exists, Preparing, Sealing, Filing
  <2>7. RootAlone'
    <3>1. CASE p = Nothing
      BY <1>1, <2>3, <3>1 DEF TurnOK, RootAlone, Active, Exists
    <3>2. CASE p # Nothing
      BY <2>2, <2>3, <3>2 DEF SoundBy, RootAlone, Active, Exists
    <3>. QED
      BY <3>1, <3>2
  <2>8. SealMatches'
    <3>1. findings[v] = {}
      BY <1>1, <2>5 DEF SoundBy, SealMatches, HasStatus
    <3>. QED
      BY <1>1, <1>2, <2>2, <2>3, <3>1 DEF SoundBy, SealMatches, HasStatus, Exists
  <2>9. ASSUME kills = 0
        PROVE  UnkilledOK(o)' /\ \A u \in Versions : PackageOK(o, u)'
    <3>1. dir[v] = "none" /\ receiptFile[v] = Nothing
      BY <1>1, <2>5, <2>9 DEF SoundBy, PackageOK, HasStatus
    <3>2. UnkilledOK(o)'
      BY <1>2, <2>5, <3>1 DEF UnkilledOK, Sealing, Filing
    <3>3. ASSUME NEW u \in Versions PROVE PackageOK(o, u)'
      BY <1>1, <1>2, <2>2, <2>3, <2>5, <2>9, <3>1
         DEF SoundBy, PackageOK, HasStatus, Exists
    <3>. QED
      BY <3>2, <3>3
  <2>. QED
    BY <1>2, <2>6, <2>7, <2>8, <2>9 DEF SoundBy
<1>4. CASE ~Insertable(v, p)
  BY <1>1, <1>2, <1>4, StopSound DEF PrepareInsert
<1>. QED
  BY <1>3, <1>4

LEMMA PrepareDirSound ==
  ASSUME RowsOK, NEW o \in Operators, SoundBy(o), PrepareDir(o)
  PROVE  SoundBy(o)'
<1>1. /\ command[o].pc = "dir" /\ command[o].v \in Versions /\ FileTypes /\ TurnOK(o)
      /\ UNCHANGED <<run, findings, dir, sources, receiptFile, kills>>
  BY DEF PrepareDir, At, RowsOK, CommandOK, SoundBy, tables, packageFiles, budget
<1>2. CASE Stop(o)
  BY <1>1, <1>2, StopSound
<1>3. CASE dir[command[o].v] = "none" /\ MoveTo(o, "mkdir")
  <2>1. command'[o].pc = "mkdir" /\ command'[o].v = command[o].v
    BY <1>1, <1>3, MoveToMoves DEF Moves, Turns, Names
  <2>2. TurnOK(o)' /\ UnkilledOK(o)'
    BY <1>1, <1>3, <2>1
       DEF TurnOK, UnkilledOK, HasStatus, Exists, Preparing, Sealing, Filing
  <2>. QED
    BY <1>1, <2>2, LookSound
<1>. QED
  BY <1>2, <1>3 DEF PrepareDir

\* Steps that write the directory of a reflection that awaits its sources.
LEMMA MadeSound ==
  ASSUME RowsOK, NEW o \in Operators, SoundBy(o), PrepareMkdir(o) \/ PrepareInput(o)
  PROVE  SoundBy(o)'
<1>. DEFINE v == command[o].v
<1>1. /\ command[o].pc \in {"mkdir", "input"} /\ v \in Versions /\ FileTypes /\ TurnOK(o)
      /\ UNCHANGED <<run, findings, sources, receiptFile, kills>>
      /\ dir \in [Versions -> {"none", "made", "ready"}]
  BY DEF PrepareMkdir, PrepareInput, At, RowsOK, CommandOK, SoundBy, tables, budget,
         FileTypes
<1>2. /\ \A u \in Versions \ {v} : dir'[u] = dir[u]
      /\ command'[o].pc \in {"idle", "input", "mark"}
      /\ command'[o].pc # "idle" => command'[o].v = v
      /\ command[o].pc = "input" => dir'[v] = "ready" \/ command'[o].pc = "mark"
      /\ command[o].pc = "mkdir" /\ dir[v] = "none" =>
           dir'[v] = "made" /\ command'[o].pc = "input"
      /\ command'[o].pc = "idle" => dir'[v] = "ready"
      /\ command'[o].pc = "input" => dir'[v] = "made"
  <2>1. CASE PrepareMkdir(o) /\ dir[v] = "none"
    <3>1. command'[o].pc = "input" /\ command'[o].v = v
      BY <1>1, <2>1, MoveToMoves DEF PrepareMkdir, Moves, Turns, Names
    <3>. QED
      BY <1>1, <2>1, <3>1 DEF PrepareMkdir, At
  <2>2. CASE PrepareMkdir(o) /\ dir[v] # "none"
    <3>1. command'[o].pc = "mark" /\ command'[o].v = v
      BY <1>1, <2>2, MoveToMoves DEF PrepareMkdir, Moves, Turns, Names
    <3>. QED
      BY <1>1, <2>2, <3>1 DEF PrepareMkdir, At
  <2>3. CASE PrepareInput(o) /\ Stop(o) /\ dir' = [dir EXCEPT ![v] = "ready"]
    <3>1. command'[o].pc = "idle"
      BY <1>1, <2>3, StopTurns, IdleParts DEF Turns
    <3>. QED
      BY <1>1, <2>3, <3>1 DEF PrepareInput, At
  <2>4. CASE PrepareInput(o) /\ MoveTo(o, "mark")
             /\ \E d \in {"made", "ready"} : dir' = [dir EXCEPT ![v] = d]
    <3>1. command'[o].pc = "mark" /\ command'[o].v = v
      BY <1>1, <2>4, MoveToMoves DEF Moves, Turns, Names
    <3>. QED
      BY <1>1, <2>4, <3>1 DEF PrepareInput, At
  <2>. QED
    BY <2>1, <2>2, <2>3, <2>4 DEF PrepareInput
<1>3. TurnOK(o)' /\ HasStatus(v, "awaiting_sources")
  BY <1>1, <1>2 DEF TurnOK, HasStatus, Exists, Preparing, Sealing, Filing
<1>4. RootAlone' /\ SealMatches'
  BY <1>1 DEF SoundBy, RootAlone, SealMatches, HasStatus, Active, Exists
<1>5. ASSUME kills = 0 PROVE UnkilledOK(o)' /\ \A u \in Versions : PackageOK(o, u)'
  <2>1. UnkilledOK(o) /\ dir[v] # "ready" /\ sources[v] = Nothing
    BY <1>1, <1>5 DEF SoundBy, UnkilledOK, PackageOK
  <2>2. UnkilledOK(o)'
    BY <1>2 DEF UnkilledOK, Sealing, Filing
  <2>3. ASSUME NEW u \in Versions PROVE PackageOK(o, u)'
    BY <1>1, <1>2, <1>3, <1>5, <2>1 DEF SoundBy, UnkilledOK, PackageOK, HasStatus, Exists
  <2>. QED
    BY <2>2, <2>3
<1>. QED
  BY <1>1, <1>3, <1>4, <1>5 DEF SoundBy

LEMMA PrepareMarkSound ==
  ASSUME RowsOK, NEW o \in Operators, SoundBy(o), PrepareMark(o)
  PROVE  SoundBy(o)'
<1>. DEFINE v == command[o].v
<1>1. /\ command[o].pc = "mark" /\ v \in Versions /\ FileTypes
      /\ HasStatus(v, "awaiting_sources") /\ run \in [Versions -> Row \cup {Nothing}]
      /\ UNCHANGED <<findings, dir, sources, receiptFile, kills>>
  BY DEF PrepareMark, At, RowsOK, CommandOK, RowTypes, SoundBy, TurnOK, packageFiles,
         budget, Preparing
<1>2. command'[o].pc = "idle"
  BY <1>1, StopTurns, IdleParts DEF PrepareMark, Turns
<1>3. run[v] \in Row
  BY <1>1 DEF HasStatus, Exists
<1>4. PICK r : r = [run[v] EXCEPT !.status = "failed"]
  OBVIOUS
<1>5. r \in Row /\ r.status = "failed" /\ r # Nothing
  BY <1>3, <1>4, NothingElse DEF Row
<1>6. run'[v] = r /\ \A u \in Versions \ {v} : run'[u] = run[u]
  BY <1>1, <1>3, <1>4 DEF PrepareMark
<1>7. TurnOK(o)' /\ RootAlone'
  BY <1>2, <1>5, <1>6
     DEF SoundBy, TurnOK, RootAlone, Active, Exists, Preparing, Sealing, Filing
<1>8. SealMatches'
  <2>1. findings[v] = {}
    BY <1>1 DEF SoundBy, SealMatches, HasStatus
  <2>. QED
    BY <1>1, <1>5, <1>6, <2>1 DEF SoundBy, SealMatches, HasStatus, Exists
<1>9. ASSUME kills = 0 PROVE UnkilledOK(o)' /\ \A u \in Versions : PackageOK(o, u)'
  <2>1. UnkilledOK(o)'
    BY <1>2 DEF UnkilledOK, Sealing, Filing
  <2>2. ASSUME NEW u \in Versions PROVE PackageOK(o, u)'
    BY <1>1, <1>5, <1>6, <1>9 DEF SoundBy, PackageOK, HasStatus, Exists
  <2>. QED
    BY <2>1, <2>2
<1>. QED
  BY <1>1, <1>7, <1>8, <1>9 DEF SoundBy

LEMMA ReadSound ==
  ASSUME RowsOK, NEW o \in Operators, SoundBy(o), NEW v \in Versions,
         FreezeRead(o, v) \/ FinalizeRead(o, v)
  PROVE  SoundBy(o)'
<1>1. /\ command[o].pc = "idle" /\ dir[v] = "ready"
      /\ UNCHANGED <<run, findings, dir, sources, receiptFile, kills>>
  BY DEF FreezeRead, FinalizeRead, At, tables, packageFiles
<1>2. PICK x \in {"freeze", "claim"} : \E f :
        command' = [command EXCEPT ![o] = [Idle EXCEPT !.pc = x, !.v = v, !.file = f]]
  BY DEF FreezeRead, FinalizeRead
<1>3. command'[o].pc = x /\ command'[o].v = v
  BY <1>2 DEF Idle, RowsOK, FileTypes
<1>4. TurnOK(o)' /\ UnkilledOK(o)'
  BY <1>1, <1>3 DEF TurnOK, UnkilledOK, Preparing, Sealing, Filing
<1>. QED
  BY <1>1, <1>4, LookSound

LEMMA LoadSound ==
  ASSUME RowsOK, NEW o \in Operators, SoundBy(o),
         FreezeLoad(o) \/ FreezeCheck(o) \/ FinalizeLoad(o) \/ FinalizeClaim(o)
  PROVE  SoundBy(o)'
<1>. DEFINE v == command[o].v
<1>1. /\ command[o].pc \in {"freeze", "check", "claim", "lock"} /\ v \in Versions
      /\ FileTypes /\ TurnOK(o)
      /\ UNCHANGED <<run, findings, dir, sources, receiptFile, kills>>
  BY DEF FreezeLoad, FreezeCheck, FinalizeLoad, FinalizeClaim, At, RowsOK, CommandOK,
         SoundBy, tables, packageFiles, budget
<1>2. CASE Stop(o)
  BY <1>1, <1>2, StopSound
<1>3. CASE FreezeLoad(o) /\ HasStatus(v, "awaiting_sources") /\ MoveTo(o, "check")
  <2>1. command'[o].pc = "check" /\ command'[o].v = v /\ command[o].pc = "freeze"
    BY <1>1, <1>3, MoveToMoves DEF FreezeLoad, At, Moves, Turns, Names
  <2>2. TurnOK(o)'
    BY <1>1, <1>3, <2>1 DEF TurnOK, HasStatus, Exists, Preparing, Sealing, Filing
  <2>3. kills = 0 => dir[v] = "ready" /\ sources[v] = Nothing
    BY <1>1, <1>3, <2>1 DEF SoundBy, UnkilledOK, PackageOK
  <2>4. kills = 0 => UnkilledOK(o)'
    BY <1>1, <2>1, <2>3 DEF UnkilledOK, Sealing, Filing
  <2>. QED
    BY <1>1, <2>1, <2>2, <2>4, LookSound
<1>4. CASE FreezeCheck(o) /\ sources[v] = Nothing /\ MoveTo(o, "replace")
  <2>1. command'[o].pc = "replace" /\ command'[o].v = v /\ command[o].pc = "check"
    BY <1>1, <1>4, MoveToMoves DEF FreezeCheck, At, Moves, Turns, Names
  <2>2. TurnOK(o)'
    BY <1>1, <2>1 DEF TurnOK, HasStatus, Exists, Preparing, Sealing, Filing
  <2>3. kills = 0 => UnkilledOK(o)'
    BY <1>1, <1>4, <2>1 DEF SoundBy, UnkilledOK, Sealing, Filing
  <2>. QED
    BY <1>1, <2>1, <2>2, <2>3, LookSound
<1>5. CASE FreezeCheck(o) /\ sources[v] = command[o].file /\ MoveTo(o, "sources")
  <2>1. /\ command'[o].pc = "sources" /\ command'[o].v = v /\ command[o].pc = "check"
        /\ command'[o].file = command[o].file
    BY <1>1, <1>5, MoveToMoves DEF FreezeCheck, At, Moves, Turns, Names
  <2>2. TurnOK(o)'
    BY <1>1, <1>5, <2>1 DEF TurnOK, HasStatus, Exists, Preparing, Sealing, Filing
  <2>3. kills # 0
    BY <1>5, <2>1, NothingElse DEF SoundBy, UnkilledOK, RowsOK, CommandOK, Sealing
  <2>. QED
    BY <1>1, <2>2, <2>3, LookSound
<1>6. CASE /\ FinalizeLoad(o) /\ HasStatus(v, "awaiting_analysis") /\ SourcesSealed(o)
           /\ MoveTo(o, "lock")
  <2>1. /\ command'[o].pc = "lock" /\ command'[o].v = v /\ command[o].pc = "claim"
        /\ command'[o].file = command[o].file
    BY <1>1, <1>6, MoveToMoves DEF FinalizeLoad, At, Moves, Turns, Names
  <2>2. TurnOK(o)'
    BY <1>1, <1>6, <2>1
       DEF TurnOK, SourcesSealed, HasStatus, Exists, Preparing, Sealing, Filing
  <2>3. kills = 0 => UnkilledOK(o)'
    BY <1>1, <2>1 DEF SoundBy, UnkilledOK, Sealing, Filing
  <2>. QED
    BY <1>1, <2>1, <2>2, <2>3, LookSound
<1>7. CASE FinalizeClaim(o) /\ MoveTo(o, "publish")
  <2>1. /\ command'[o].pc = "publish" /\ command'[o].v = v /\ command[o].pc = "lock"
        /\ command'[o].file = command[o].file
    BY <1>1, <1>7, MoveToMoves DEF FinalizeClaim, At, Moves, Turns, Names
  <2>2. TurnOK(o)'
    BY <1>1, <2>1 DEF TurnOK, HasStatus, Exists, Preparing, Sealing, Filing
  <2>3. kills = 0 => UnkilledOK(o)'
    BY <1>1, <2>1 DEF SoundBy, UnkilledOK, Sealing, Filing
  <2>. QED
    BY <1>1, <2>1, <2>2, <2>3, LookSound
<1>. QED
  BY <1>2, <1>3, <1>4, <1>5, <1>6, <1>7
     DEF FreezeLoad, FreezeCheck, FinalizeLoad, FinalizeClaim

LEMMA FreezeReplaceSound ==
  ASSUME RowsOK, NEW o \in Operators, SoundBy(o), FreezeReplace(o)
  PROVE  SoundBy(o)'
<1>. DEFINE v == command[o].v
<1>1. /\ command[o].pc = "replace" /\ v \in Versions /\ command \in [Operators -> Op]
      /\ sources \in [Versions -> Snapshot \cup {Nothing}]
      /\ HasStatus(v, "awaiting_sources")
      /\ UNCHANGED <<run, findings, dir, receiptFile, kills>>
  BY DEF FreezeReplace, At, RowsOK, CommandOK, FileTypes, SoundBy, TurnOK, tables, budget,
         Sealing
<1>2. /\ command'[o].pc = "sources" /\ command'[o].v = v /\ command'[o].mine
      /\ command'[o].file = command[o].file
  BY <1>1 DEF FreezeReplace, Op
<1>3. sources'[v] = command[o].file /\ \A u \in Versions \ {v} : sources'[u] = sources[u]
  BY <1>1 DEF FreezeReplace
<1>4. TurnOK(o)' /\ RootAlone'
  BY <1>1, <1>2, <1>3
     DEF SoundBy, TurnOK, RootAlone, Active, HasStatus, Exists, Preparing, Sealing, Filing
<1>5. SealMatches'
  BY <1>1, <1>3 DEF SoundBy, SealMatches, HasStatus, Exists
<1>6. ASSUME kills = 0 PROVE UnkilledOK(o)' /\ \A u \in Versions : PackageOK(o, u)'
  <2>1. dir[v] = "ready"
    BY <1>1, <1>6 DEF SoundBy, UnkilledOK, Sealing
  <2>2. UnkilledOK(o)'
    BY <1>1, <1>2, <2>1 DEF UnkilledOK, Sealing, Filing
  <2>3. ASSUME NEW u \in Versions PROVE PackageOK(o, u)'
    BY <1>1, <1>2, <1>3, <1>6, <2>1 DEF SoundBy, PackageOK, HasStatus, Exists
  <2>. QED
    BY <2>2, <2>3
<1>. QED
  BY <1>1, <1>4, <1>5, <1>6 DEF SoundBy

LEMMA FreezeCommitSound ==
  ASSUME RowsOK, NEW o \in Operators, SoundBy(o), FreezeCommit(o)
  PROVE  SoundBy(o)'
<1>. DEFINE v == command[o].v
<1>1. /\ command[o].pc = "sources" /\ v \in Versions /\ FileTypes
      /\ HasStatus(v, "awaiting_sources") /\ sources[v] = command[o].file
      /\ command[o].file \in Snapshot /\ run \in [Versions -> Row \cup {Nothing}]
      /\ UNCHANGED <<findings, dir, sources, receiptFile, kills>>
  BY DEF FreezeCommit, At, RowsOK, RowTypes, CommandOK, SoundBy, TurnOK, packageFiles, Sealing
<1>2. CASE UNCHANGED run /\ MoveTo(o, "undo")
  <2>1. /\ command'[o].pc = "undo" /\ command'[o].v = v
        /\ command'[o].mine = command[o].mine
    BY <1>1, <1>2, MoveToMoves DEF Moves, Turns, Names
  <2>2. TurnOK(o)'
    BY <1>1, <1>2, <2>1 DEF TurnOK, HasStatus, Exists, Preparing, Sealing, Filing
  <2>3. kills = 0 => UnkilledOK(o)'
    BY <1>1, <2>1 DEF SoundBy, UnkilledOK, Sealing, Filing
  <2>4. ASSUME NEW u \in Versions, PackageOK(o, u), command[o].v = u PROVE PackageOK(o, u)'
    BY <1>1, <1>2, <2>1, <2>4 DEF PackageOK, HasStatus, Exists
  <2>. QED
    BY <1>1, <1>2, <2>2, <2>3, <2>4, LookSound
<1>3. CASE /\ Stop(o)
           /\ run' = [run EXCEPT ![v].status = "awaiting_analysis",
                                 ![v].sources = command[o].file]
  <2>1. command'[o].pc = "idle"
    BY <1>1, <1>3, StopTurns, IdleParts DEF Turns
  <2>2. run[v] \in Row
    BY <1>1 DEF HasStatus, Exists
  <2>3. PICK r : r = [run[v] EXCEPT !.status = "awaiting_analysis",
                                    !.sources = command[o].file]
    OBVIOUS
  <2>4. /\ r \in Row /\ r # Nothing /\ r.status = "awaiting_analysis"
        /\ r.parent = run[v].parent /\ r.sources = command[o].file
    BY <1>1, <2>2, <2>3, NothingElse DEF Row
  <2>5. run' = [run EXCEPT ![v] = r]
    BY <1>1, <1>3, <2>2, <2>3
  <2>6. run'[v] = r /\ \A u \in Versions \ {v} : run'[u] = run[u]
    BY <1>1, <2>5
  <2>7. \A u \in Versions : /\ Active(u)' <=> Active(u)
                            /\ Active(u) => run'[u].parent = run[u].parent
    BY <1>1, <2>4, <2>6 DEF Active, HasStatus, Exists
  <2>8. TurnOK(o)' /\ RootAlone'
    BY <2>1, <2>7 DEF SoundBy, TurnOK, RootAlone, Preparing, Sealing, Filing
  <2>9. SealMatches'
    <3>1. findings[v] = {}
      BY <1>1 DEF SoundBy, SealMatches, HasStatus
    <3>. QED
      BY <1>1, <2>4, <2>6, <3>1 DEF SoundBy, SealMatches, HasStatus, Exists
  <2>10. ASSUME kills = 0 PROVE UnkilledOK(o)' /\ \A u \in Versions : PackageOK(o, u)'
    <3>1. dir[v] = "ready" /\ receiptFile[v] = Nothing
      BY <1>1, <2>10 DEF SoundBy, UnkilledOK, PackageOK, HasStatus, Sealing
    <3>2. UnkilledOK(o)'
      BY <2>1 DEF UnkilledOK, Sealing, Filing
    <3>3. ASSUME NEW u \in Versions PROVE PackageOK(o, u)'
      BY <1>1, <2>4, <2>6, <2>10, <3>1 DEF SoundBy, PackageOK, HasStatus, Exists
    <3>. QED
      BY <3>2, <3>3
  <2>. QED
    BY <1>1, <2>8, <2>9, <2>10 DEF SoundBy
<1>. QED
  BY <1>2, <1>3 DEF FreezeCommit

LEMMA FreezeUndoSound ==
  ASSUME RowsOK, NEW o \in Operators, SoundBy(o), FreezeUndo(o)
  PROVE  SoundBy(o)'
<1>. DEFINE v == command[o].v
<1>1. /\ command[o].pc = "undo" /\ v \in Versions /\ FileTypes
      /\ sources \in [Versions -> Snapshot \cup {Nothing}]
      /\ HasStatus(v, "awaiting_sources")
      /\ UNCHANGED <<run, findings, dir, receiptFile, kills>>
  BY DEF FreezeUndo, At, RowsOK, CommandOK, FileTypes, SoundBy, TurnOK, tables, budget, Sealing
<1>2. command'[o].pc = "idle"
  BY <1>1, StopTurns, IdleParts DEF FreezeUndo, Turns
<1>3. /\ \A u \in Versions \ {v} : sources'[u] = sources[u]
      /\ command[o].mine => sources'[v] = Nothing
  BY <1>1 DEF FreezeUndo
<1>4. TurnOK(o)' /\ RootAlone'
  BY <1>1, <1>2 DEF SoundBy, TurnOK, RootAlone, Active, Exists, Preparing, Sealing, Filing
<1>5. SealMatches'
  BY <1>1, <1>3 DEF SoundBy, SealMatches, HasStatus, Exists
<1>6. ASSUME kills = 0 PROVE UnkilledOK(o)' /\ \A u \in Versions : PackageOK(o, u)'
  <2>1. dir[v] = "ready" /\ command[o].mine
    BY <1>1, <1>6 DEF SoundBy, UnkilledOK, Sealing
  <2>2. UnkilledOK(o)'
    BY <1>2 DEF UnkilledOK, Sealing, Filing
  <2>3. ASSUME NEW u \in Versions PROVE PackageOK(o, u)'
    BY <1>1, <1>3, <1>6, <2>1 DEF SoundBy, PackageOK, HasStatus, Exists
  <2>. QED
    BY <2>2, <2>3
<1>. QED
  BY <1>1, <1>4, <1>5, <1>6 DEF SoundBy

LEMMA FinalizePublishSound ==
  ASSUME RowsOK, NEW o \in Operators, SoundBy(o), FinalizePublish(o)
  PROVE  SoundBy(o)'
<1>. DEFINE v == command[o].v
<1>1. /\ command[o].pc = "publish" /\ v \in Versions /\ FileTypes /\ RowTypes /\ TurnOK(o)
      /\ HasStatus(v, "awaiting_analysis")
      /\ UNCHANGED <<run, findings, dir, sources, kills>>
  BY DEF FinalizePublish, At, RowsOK, CommandOK, SoundBy, tables, budget
<1>2. CASE UNCHANGED receiptFile /\ Stop(o)
  BY <1>1, <1>2, StopSound
<1>3. CASE /\ receiptFile' = [receiptFile EXCEPT ![v] = command[o].file]
           /\ MoveTo(o, "receipt")
  <2>1. /\ command'[o].pc = "receipt" /\ command'[o].v = v
        /\ command'[o].file = command[o].file
    BY <1>1, <1>3, MoveToMoves DEF Moves, Turns, Names
  <2>2. \A u \in Versions \ {v} : receiptFile'[u] = receiptFile[u]
    BY <1>1, <1>3 DEF RowTypes
  <2>3. TurnOK(o)' /\ RootAlone'
    BY <1>1, <2>1 DEF SoundBy, TurnOK, RootAlone, Active, HasStatus, Exists,
                      Preparing, Sealing, Filing
  <2>4. SealMatches'
    BY <1>1, <2>2 DEF SoundBy, SealMatches, HasStatus, Exists
  <2>5. ASSUME kills = 0 PROVE UnkilledOK(o)' /\ \A u \in Versions : PackageOK(o, u)'
    <3>1. UnkilledOK(o)'
      BY <1>1, <2>1, <2>5 DEF SoundBy, UnkilledOK, Sealing, Filing
    <3>2. ASSUME NEW u \in Versions PROVE PackageOK(o, u)'
      BY <1>1, <2>1, <2>2, <2>5 DEF SoundBy, PackageOK, HasStatus, Exists
    <3>. QED
      BY <3>1, <3>2
  <2>. QED
    BY <1>1, <2>3, <2>4, <2>5 DEF SoundBy
<1>. QED
  BY <1>2, <1>3 DEF FinalizePublish

LEMMA FinalizeCommitSound ==
  ASSUME RowsOK, NEW o \in Operators, SoundBy(o), FinalizeCommit(o)
  PROVE  SoundBy(o)'
<1>0. PICK v : v = command[o].v
  OBVIOUS
<1>1. /\ command[o].pc = "receipt" /\ v \in Versions /\ FileTypes /\ RowTypes
      /\ HasStatus(v, "awaiting_analysis") /\ run[v].sources = command[o].file.sources
      /\ command[o].file \in ReceiptFile /\ receiptFile[v] = command[o].file
      /\ findings[v] = {}
      /\ UNCHANGED <<dir, sources, kills>>
  BY <1>0 DEF FinalizeCommit, At, RowsOK, CommandOK, SoundBy, TurnOK, Filing
<1>2. command'[o].pc = "idle"
  BY <1>1, StopTurns, IdleParts DEF FinalizeCommit, Turns
<1>3. TurnOK(o)' /\ UnkilledOK(o)'
  BY <1>2 DEF TurnOK, UnkilledOK, Preparing, Sealing, Filing
<1>4. sources[v] = command[o].file.sources
  BY <1>1 DEF SoundBy, SealMatches
<1>5. CASE /\ run' = [run EXCEPT ![v].status = "completed", ![v].receipt = command[o].file]
           /\ findings' = [findings EXCEPT ![v] = @ \cup {command[o].file}]
           /\ UNCHANGED receiptFile
  <2>1. run[v] \in Row /\ run \in [Versions -> Row \cup {Nothing}]
    BY <1>1 DEF RowTypes, HasStatus, Exists
  <2>2. PICK r : r = [run[v] EXCEPT !.status = "completed", !.receipt = command[o].file]
    OBVIOUS
  <2>3. /\ r \in Row /\ r # Nothing /\ r.status = "completed" /\ r.parent = run[v].parent
        /\ r.sources = run[v].sources /\ r.receipt = command[o].file
    BY <1>1, <2>1, <2>2, NothingElse DEF Row
  <2>4. run' = [run EXCEPT ![v] = r]
    BY <1>1, <1>5, <2>1, <2>2
  <2>5. /\ run'[v] = r
        /\ \A u \in Versions \ {v} : run'[u] = run[u] /\ findings'[u] = findings[u]
    BY <1>1, <1>5, <2>1, <2>4 DEF RowTypes
  <2>6. \A u \in Versions : /\ Active(u)' <=> Active(u)
                            /\ Active(u) => run'[u].parent = run[u].parent
    BY <1>1, <2>3, <2>5 DEF Active, HasStatus, Exists
  <2>7. RootAlone'
    BY <2>6 DEF SoundBy, RootAlone
  <2>8. SealMatches'
    <3>1. HasStatus(v, "completed")' /\ sources'[v] = run'[v].sources
            /\ receiptFile'[v] = run'[v].receipt /\ receiptFile'[v].sources = sources'[v]
      <4>1. run'[v] = r /\ sources'[v] = run[v].sources /\ receiptFile'[v] = command[o].file
        BY <1>1, <1>4, <1>5, <2>5
      <4>. QED
        BY <1>1, <2>3, <4>1 DEF HasStatus, Exists
    <3>2. ASSUME NEW u \in Versions, u # v
          PROVE  /\ (HasStatus(u, "awaiting_analysis") \/ HasStatus(u, "completed"))' =>
                      sources'[u] = run'[u].sources
                 /\ HasStatus(u, "completed")' =>
                      receiptFile'[u] = run'[u].receipt /\ receiptFile'[u].sources = sources'[u]
                 /\ findings'[u] # {} => HasStatus(u, "completed")'
      <4>1. /\ run'[u] = run[u] /\ findings'[u] = findings[u]
            /\ sources'[u] = sources[u] /\ receiptFile'[u] = receiptFile[u]
        BY <1>1, <1>5, <2>5, <3>2
      <4>. QED
        BY <4>1 DEF SoundBy, SealMatches, HasStatus, Exists
    <3>. QED
      BY <3>1, <3>2 DEF SealMatches
  <2>9. ASSUME kills = 0, NEW u \in Versions PROVE PackageOK(o, u)'
    <3>1. CASE u = v
      <4>1. run'[u] = r /\ dir'[u] = "ready"
        BY <1>0, <1>1, <2>5, <2>9, <3>1 DEF SoundBy, UnkilledOK, Filing
      <4>. QED
        BY <2>3, <4>1 DEF PackageOK, HasStatus, Exists
    <3>2. CASE u # v
      <4>1. /\ run'[u] = run[u] /\ dir'[u] = dir[u]
            /\ sources'[u] = sources[u] /\ receiptFile'[u] = receiptFile[u]
        BY <1>1, <1>5, <2>5, <3>2
      <4>. QED
        BY <1>0, <1>1, <2>9, <3>2, <4>1 DEF SoundBy, PackageOK, HasStatus, Exists
    <3>. QED
      BY <3>1, <3>2
  <2>. QED
    BY <1>1, <1>3, <2>7, <2>8, <2>9 DEF SoundBy
<1>6. CASE UNCHANGED tables /\ receiptFile' = [receiptFile EXCEPT ![v] = Nothing]
  <2>1. receiptFile'[v] = Nothing /\ \A u \in Versions \ {v} : receiptFile'[u] = receiptFile[u]
    BY <1>1, <1>6 DEF RowTypes
  <2>2. RootAlone'
    BY <1>6 DEF SoundBy, RootAlone, Active, Exists, tables
  <2>3. SealMatches'
    BY <1>1, <1>6, <2>1 DEF SoundBy, SealMatches, HasStatus, Exists, tables
  <2>4. ASSUME kills = 0, NEW u \in Versions PROVE PackageOK(o, u)'
    BY <1>0, <1>1, <1>6, <2>1, <2>4 DEF SoundBy, PackageOK, HasStatus, Exists, tables
  <2>. QED
    BY <1>1, <1>3, <2>2, <2>3, <2>4 DEF SoundBy
<1>. QED
  BY <1>0, <1>5, <1>6 DEF FinalizeCommit

LEMMA KillSound ==
  ASSUME RowsOK, NEW o \in Operators, SoundBy(o), Kill(o)
  PROVE  SoundBy(o)'
<1>1. /\ UNCHANGED <<run, findings, dir, sources, receiptFile>> /\ FileTypes
      /\ kills' # 0
  BY DEF Kill, tables, packageFiles, RowsOK, FileTypes
<1>2. command'[o].pc = "idle"
  BY <1>1, StopTurns, IdleParts DEF Kill, Turns
<1>3. TurnOK(o)' /\ RootAlone' /\ SealMatches'
  BY <1>1, <1>2 DEF SoundBy, TurnOK, RootAlone, SealMatches, HasStatus, Active, Exists,
                    Preparing, Sealing, Filing
<1>. QED
  BY <1>1, <1>3 DEF SoundBy

\* A step of operator o that is taken in turn.
LEMMA CommandSound ==
  ASSUME RowsOK, NEW o \in Operators, SoundBy(o),
         Prepare(o) \/ Freeze(o) \/ Finalize(o) \/ Kill(o)
  PROVE  SoundBy(o)'
<1>1. CASE Prepare(o)
  BY <1>1, PrepareLoadSound, PrepareInsertSound, PrepareDirSound, MadeSound,
     PrepareMarkSound DEF Prepare
<1>2. CASE Freeze(o)
  BY <1>2, ReadSound, LoadSound, FreezeReplaceSound, FreezeCommitSound, FreezeUndoSound
     DEF Freeze
<1>3. CASE Finalize(o)
  BY <1>3, ReadSound, LoadSound, FinalizePublishSound, FinalizeCommitSound DEF Finalize
<1>. QED
  BY <1>1, <1>2, <1>3, KillSound

\* It leaves the others' commands, which are idle.
LEMMA CommandTurns ==
  ASSUME RowsOK, NEW o \in Operators, Prepare(o) \/ Freeze(o) \/ Finalize(o) \/ Kill(o)
  PROVE  \A q \in Operators \ {o} : command'[q] = command[q]
<1>1. \/ \E c : command' = [command EXCEPT ![o] = c]
      \/ \E x : command' = [command EXCEPT ![o].pc = x]
      \/ command' = [command EXCEPT ![o].pc = "sources", ![o].mine = TRUE]
  <2>1. CASE Prepare(o)
    BY <2>1 DEF Prepare, PrepareLoad, PrepareInsert, PrepareDir, PrepareMkdir, PrepareInput,
                PrepareMark, MoveTo, Stop
  <2>2. CASE Freeze(o)
    BY <2>2 DEF Freeze, FreezeRead, FreezeLoad, FreezeCheck, FreezeReplace, FreezeCommit,
                FreezeUndo, MoveTo, Stop
  <2>3. CASE Finalize(o)
    BY <2>3 DEF Finalize, FinalizeRead, FinalizeLoad, FinalizeClaim, FinalizePublish,
                FinalizeCommit, MoveTo, Stop
  <2>4. CASE Kill(o)
    BY <2>4 DEF Kill, Stop
  <2>. QED
    BY <2>1, <2>2, <2>3, <2>4
<1>. QED
  BY <1>1 DEF RowsOK, FileTypes

\* Somebody works, or nobody.
InTurnOK == \E o \in Operators : OthersIdle(o) /\ SoundBy(o)

\* While nobody works it does not matter who is meant.
LEMMA HandOver ==
  ASSUME NEW o \in Operators, NEW q \in Operators, OthersIdle(o), OthersIdle(q), SoundBy(o)
  PROVE  SoundBy(q)
<1>1. CASE o = q
  BY <1>1
<1>2. CASE o # q
  <2>1. command[o].pc = "idle" /\ command[q].pc = "idle"
    BY <1>2 DEF OthersIdle
  <2>2. TurnOK(q) /\ UnkilledOK(q)
    BY <2>1 DEF TurnOK, UnkilledOK, Preparing, Sealing, Filing
  <2>3. ASSUME kills = 0, NEW v \in Versions PROVE PackageOK(q, v)
    BY <2>1, <2>3 DEF SoundBy, PackageOK
  <2>. QED
    BY <2>2, <2>3 DEF SoundBy
<1>. QED
  BY <1>1, <1>2

\* The draft writer and the deadline leave what the invariant is about.
LEMMA WriterSound ==
  ASSUME InTurnOK, UNCHANGED <<run, findings, dir, sources, receiptFile, command, kills>>
  PROVE  InTurnOK'
<1>1. PICK o \in Operators : OthersIdle(o) /\ SoundBy(o)
  BY DEF InTurnOK
<1>2. OthersIdle(o)' /\ TurnOK(o)' /\ (kills = 0 => UnkilledOK(o)')
  BY <1>1 DEF OthersIdle, SoundBy, TurnOK, UnkilledOK, HasStatus, Active, Exists
<1>3. RootAlone' /\ SealMatches'
  BY <1>1 DEF SoundBy, RootAlone, SealMatches, HasStatus, Active, Exists
<1>4. ASSUME kills = 0, NEW v \in Versions PROVE PackageOK(o, v)'
  BY <1>1, <1>4 DEF SoundBy, PackageOK, HasStatus, Exists
<1>. QED
  BY <1>2, <1>3, <1>4 DEF InTurnOK, SoundBy

\* RowsOK however commands overlap, InTurnOK where they do not.
ReflectionInv == RowsOK /\ (alone => InTurnOK)

LEMMA InitReflectionInv == MCInit => ReflectionInv
<1>. SUFFICES ASSUME MCInit PROVE ReflectionInv
  OBVIOUS
<1>1. ReflectionInit /\ RowsOK
  BY InitRows DEF MCInit
<1>2. PICK o \in Operators : TRUE
  BY ReflectionConfiguration
<1>3. OthersIdle(o) /\ TurnOK(o) /\ UnkilledOK(o)
  BY <1>1, IdleParts
     DEF ReflectionInit, OthersIdle, TurnOK, UnkilledOK, Preparing, Sealing, Filing
<1>4. RootAlone /\ SealMatches /\ \A v \in Versions : PackageOK(o, v)
  BY <1>1 DEF ReflectionInit, RootAlone, SealMatches, PackageOK, HasStatus, Active, Exists
<1>. QED
  BY <1>1, <1>3, <1>4 DEF ReflectionInv, InTurnOK, SoundBy

LEMMA NextReflectionInv ==
  ReflectionInv /\ [MCNext]_<<reflectionVars, findingsVars, alone, topic>> => ReflectionInv'
<1>. SUFFICES ASSUME ReflectionInv, [MCNext]_<<reflectionVars, findingsVars, alone, topic>>
              PROVE  ReflectionInv'
  OBVIOUS
<1>1. UNCHANGED alone /\ (Command \/ UNCHANGED reflectionVars)
  BY DEF MCNext
<1>2. RowsOK'
  <2>1. [ReflectionNext]_reflectionVars
    BY <1>1, TimedReflections DEF Command, ReflectionNext
  <2>. QED
    BY <2>1, NextRows DEF ReflectionInv
<1>3. ASSUME alone PROVE InTurnOK'
  <2>1. RowsOK /\ InTurnOK
    BY <1>3 DEF ReflectionInv
  <2>2. ASSUME NEW o \in Operators, Turn(o), Prepare(o) \/ Freeze(o) \/ Finalize(o) \/ Kill(o)
        PROVE  InTurnOK'
    <3>1. OthersIdle(o)
      BY <1>3, <2>2 DEF Turn, OthersIdle, At
    <3>2. SoundBy(o)
      BY <2>1, <3>1, HandOver DEF InTurnOK
    <3>3. SoundBy(o)' /\ OthersIdle(o)'
      BY <2>1, <2>2, <3>1, <3>2, CommandSound, CommandTurns DEF OthersIdle
    <3>. QED
      BY <3>3 DEF InTurnOK
  <2>3. CASE \/ \E v \in Versions, t \in Texts : WriteDiscovery(v, t) \/ WriteAnalysis(v, t)
             \/ \E v \in Timed : DeadlinePasses(v)
             \/ UNCHANGED reflectionVars
    <3>1. UNCHANGED <<run, findings, dir, sources, receiptFile, command, kills>>
      BY <2>3 DEF WriteDiscovery, WriteAnalysis, DeadlinePasses, tables, packageFiles,
                  budget, reflectionVars
    <3>. QED
      BY <2>1, <3>1, WriterSound
  <2>. QED
    BY <1>1, <2>2, <2>3 DEF Command
<1>. QED
  BY <1>1, <1>2, <1>3 DEF ReflectionInv

LEMMA InTurnSound ==
  ASSUME InTurnOK
  PROVE  SealMatches /\ OneRoot /\ (kills = 0 => Retryable)
<1>1. PICK o \in Operators : OthersIdle(o) /\ SoundBy(o)
  BY DEF InTurnOK
<1>2. SealMatches /\ RootAlone
  BY <1>1 DEF SoundBy
<1>3. OneRoot
  <2>1. \A u, w \in Successors(Nothing) : u = w
    BY <1>2 DEF RootAlone, Successors
  <2>. QED
    BY <2>1, AtMostOne DEF OneRoot
<1>4. ASSUME kills = 0, \A q \in Operators : At(q, "idle"), NEW v \in Versions
      PROVE  /\ HasStatus(v, "awaiting_sources") =>
                  dir[v] = "none" \/ (dir[v] = "ready" /\ sources[v] = Nothing)
             /\ HasStatus(v, "awaiting_analysis") =>
                  dir[v] = "ready" /\ sources[v] = run[v].sources /\ receiptFile[v] = Nothing
  <2>1. PackageOK(o, v) /\ command[o].pc = "idle"
    BY <1>1, <1>4 DEF SoundBy, At
  <2>. QED
    BY <1>2, <2>1 DEF PackageOK, SealMatches, HasStatus
<1>. QED
  BY <1>2, <1>3, <1>4 DEF Retryable

THEOREM ReflectionInvariance == MCSpec => []ReflectionInv
BY InitReflectionInv, NextReflectionInv, PTL DEF MCSpec

\* Findings are stored once and corrections form a chain however the commands
\* compete; the chain's root is unique if operators take turns.
THEOREM ReflectionsStoredOnce == MCSpec => []StoredOnce
<1>1. ReflectionInv => StoredOnce
  BY RowsChain, InTurnSound DEF ReflectionInv, StoredOnce
<1>. QED
  BY <1>1, ReflectionInvariance, PTL

\* Operators who take turns keep the seals of rows and files together through
\* failing writes and killed commands, and can go on after any failure.
THEOREM ReflectionsSoundInTurn == MCSpec => []SoundInTurn
<1>1. ReflectionInv => SoundInTurn
  BY InTurnSound DEF ReflectionInv, SoundInTurn
<1>. QED
  BY <1>1, ReflectionInvariance, PTL

-----------------------------------------------------------------------------
(* Daily Reflection: what is filed.                                        *)

\* NothingFromHindsight and VerdictsEarned, of one stored finding.
HindsightFree(r) ==
    /\ r.class = "available_missed" =>
          /\ r.finding.missed \subseteq original
          /\ r.finding.missed \cap UsedBy(r.about) = {}
          /\ \A s \in r.finding.sources : s <= Cutoff
    /\ r.finding.primary = "attention_omission" => r.class = "available_missed"
    /\ r.finding.primary = "post_cutoff_shock" => r.class = "post_cutoff_event"
    /\ r.class = "coverage_gap_pre_cutoff" => \E s \in r.finding.sources : s <= Cutoff
    /\ r.class = "after_close_explanation" => \A s \in r.finding.sources : s > Close
    /\ captured = {} =>
          /\ r.class \in {"available_missed", "available_used", "unresolved"}
          /\ r.finding.verdict \notin {"right_reason", "lucky_correct"}

Earned(r) ==
    /\ r.finding.verdict \in {"right_reason", "lucky_correct"} =>
          /\ ~InNoiseBand(market.move[r.about.index])
          /\ DirectionOf(r.about) = Sign(market.move[r.about.index])
    /\ r.finding.verdict = "wrong" =>
          /\ ~InNoiseBand(market.move[r.about.index])
          /\ DirectionOf(r.about) # Sign(market.move[r.about.index])
    /\ r.finding.verdict = "right_reason" => r.finding.original \cap UsedBy(r.about) # {}

\* What an assignment says, whatever its scope.
AssignmentFacts(a) ==
    /\ a.original = UsedBy(a) /\ a.eligible = original \ UsedBy(a)
    /\ DirectionScored(a) =>
          /\ a.index \in Indexes /\ a.severity = Severity(a.index)
          /\ a.expected = DirectionResult(DirectionOf(a), market.move[a.index])

LEMMA Assigned ==
  ASSUME NEW a \in Assignments
  PROVE  AssignmentFacts(a)
<1>1. ASSUME NEW i \in Indexes, NEW g \in Roster(i) \ {Cio}, a = AgentAssignment(i, g)
      PROVE  AssignmentFacts(a)
  <2>1. /\ a.scope = "agent" /\ a.agent = g /\ a.index = i /\ a.severity = Severity(i)
        /\ a.original = Opinions[<<i, g>>].used
        /\ a.eligible = original \ Opinions[<<i, g>>].used
        /\ g # Critic =>
             a.expected = DirectionResult(Opinions[<<i, g>>].direction, market.move[i])
    BY <1>1 DEF AgentAssignment
  <2>2. UsedBy(a) = Opinions[<<i, g>>].used /\ DirectionOf(a) = Opinions[<<i, g>>].direction
    BY <2>1 DEF UsedBy, DirectionOf
  <2>. QED
    BY <2>1, <2>2 DEF AssignmentFacts, DirectionScored
<1>2. ASSUME NEW i \in Indexes, a = CommitteeAssignment(i)
      PROVE  AssignmentFacts(a)
  <2>1. /\ a.scope = "committee" /\ a.index = i /\ a.severity = Severity(i)
        /\ a.original = UsedOn(i) /\ a.eligible = original \ UsedOn(i)
        /\ a.expected = DirectionResult(council.forecast[i], market.move[i])
    BY <1>2 DEF CommitteeAssignment
  <2>2. UsedBy(a) = UsedOn(i) /\ DirectionOf(a) = council.forecast[i]
    BY <2>1 DEF UsedBy, DirectionOf
  <2>. QED
    BY <2>1, <2>2 DEF AssignmentFacts
<1>3. CASE a = MarketAssignment
  <2>1. /\ a.scope = "market_event" /\ a.original = UNION {UsedOn(i) : i \in Indexes}
        /\ a.eligible = original \ UNION {UsedOn(i) : i \in Indexes}
    BY <1>3 DEF MarketAssignment
  <2>2. UsedBy(a) = UNION {UsedOn(i) : i \in Indexes}
    BY <2>1 DEF UsedBy
  <2>. QED
    BY <2>1, <2>2 DEF AssignmentFacts, DirectionScored
<1>4. \/ \E i \in Indexes : \E g \in Roster(i) \ {Cio} : a = AgentAssignment(i, g)
      \/ \E i \in Indexes : a = CommitteeAssignment(i)
      \/ a = MarketAssignment
  <2>1. CASE a \in AgentAssignments
    <3>1. PICK i \in Indexes : a \in {AgentAssignment(i, g) : g \in Roster(i) \ {Cio}}
      BY <2>1 DEF AgentAssignments
    <3>. QED
      BY <3>1
  <2>2. CASE a \in CommitteeAssignments
    BY <2>2 DEF CommitteeAssignments
  <2>. QED
    BY <2>1, <2>2 DEF Assignments
<1>. QED
  BY <1>1, <1>2, <1>3, <1>4

\* How a direction fared, read backwards.
LEMMA Fared ==
  ASSUME NEW d, NEW r
  PROVE  /\ DirectionResult(d, r) \in {"zero_return", "right_but_noise", "wrong_noise",
                                       "correct", "wrong"}
         /\ DirectionResult(d, r) = "zero_return" <=> r = 0
         /\ DirectionResult(d, r) \in {"right_but_noise", "wrong_noise"} <=>
              r # 0 /\ InNoiseBand(r)
         /\ DirectionResult(d, r) = "correct" => ~InNoiseBand(r) /\ d = Sign(r)
         /\ DirectionResult(d, r) = "wrong" => ~InNoiseBand(r) /\ d # Sign(r)
BY DEF DirectionResult

LEMMA VerdictOf ==
  ASSUME NEW a, NEW v, DirectionScored(a), VerdictFits(a, v),
         a.expected \in {"zero_return", "right_but_noise", "wrong_noise", "correct", "wrong"}
  PROVE  /\ v \in {"right_reason", "lucky_correct"} => a.expected = "correct"
         /\ v = "wrong" => a.expected = "wrong"
         /\ a.expected \in {"right_but_noise", "wrong_noise"} => v = a.expected
BY DEF VerdictFits

LEMMA Dated ==
  ASSUME NEW s \in Int
  PROVE  /\ TimeClass(s) = "published_before_cutoff_not_frozen" => s <= Cutoff
         /\ TimeClass(s) = "post_close_explanation" => s > Close
BY FindingsConfiguration DEF TimeClass

\* What a class of availability says of the finding.
LEMMA ClassOf ==
  ASSUME NEW f
  PROVE  /\ Availability(f) = "available_missed" <=> f.missed # {}
         /\ Availability(f) = "coverage_gap_pre_cutoff" => f.primary = "data_coverage_failure"
         /\ f.missed = {} /\ f.primary = "post_cutoff_shock" =>
              Availability(f) = "post_cutoff_event"
         /\ Availability(f) = "after_close_explanation" =>
              TimeClasses(f.sources) = {"post_close_explanation"}
         /\ f.missed = {} /\ f.primary = "unresolved" /\ TimeClasses(f.sources) = {} =>
              Availability(f) \in {"available_used", "unresolved"}
BY DEF Availability

LEMMA FiledIsFair ==
  ASSUME captured \subseteq Published, NEW a \in Assignments, NEW v, NEW e, NEW g,
         Fits(a, v, e, g), NEW f \in Citing(a, v, e, g), ClaimFits(a, f)
  PROVE  HindsightFree(Filed(a, f)) /\ Earned(Filed(a, f))
<1>. DEFINE r == Filed(a, f)
            times == TimeClasses(f.sources)
<1>1. r.about = a /\ r.finding = f /\ r.class = Availability(f)
  BY DEF Filed
<1>2. /\ f.verdict = v /\ f.primary = e /\ f.original \subseteq a.original \cap original
      /\ f.missed \subseteq a.eligible /\ f.sources \subseteq captured
  BY DEF Citing
<1>3. AssignmentFacts(a) /\ VerdictFits(a, v)
  BY Assigned DEF Fits
<1>4. \A s \in f.sources : s \in Int /\ TimeClass(s) \in times
  BY <1>2, FindingsConfiguration DEF TimeClasses
<1>5. /\ f.missed # {} => times \subseteq {"published_before_cutoff_not_frozen"}
      /\ captured = {} => f.primary = "unresolved"
      /\ DirectionScored(a) /\ v = "right_reason" => f.original # {} /\ f.sources # {}
      /\ DirectionScored(a) /\ v = "lucky_correct" => f.sources # {}
      /\ f.primary = "attention_omission" => f.missed # {}
      /\ f.primary = "data_coverage_failure" =>
           "published_before_cutoff_not_frozen" \in times
      /\ f.primary = "post_cutoff_shock" => f.missed = {}
  BY <1>2 DEF ClaimFits
<1>6. v \in {"right_reason", "lucky_correct", "wrong"} => DirectionScored(a)
  BY <1>3 DEF VerdictFits
<1>7. HindsightFree(r)
  <2>1. Availability(f) = "available_missed" =>
          /\ f.missed \subseteq original /\ f.missed \cap UsedBy(a) = {}
          /\ \A s \in f.sources : s <= Cutoff
    BY <1>2, <1>3, <1>4, <1>5, ClassOf, Dated DEF AssignmentFacts
  <2>2. Availability(f) = "coverage_gap_pre_cutoff" => \E s \in f.sources : s <= Cutoff
    <3>1. "published_before_cutoff_not_frozen" \in times =>
            \E s \in f.sources : TimeClass(s) = "published_before_cutoff_not_frozen"
      BY DEF TimeClasses
    <3>. QED
      BY <1>4, <1>5, <3>1, ClassOf, Dated
  <2>3. Availability(f) = "after_close_explanation" => \A s \in f.sources : s > Close
    BY <1>4, ClassOf, Dated
  <2>4. captured = {} =>
          /\ Availability(f) \in {"available_missed", "available_used", "unresolved"}
          /\ v \notin {"right_reason", "lucky_correct"}
    <3>1. captured = {} => f.sources = {} /\ times = {}
      BY <1>2 DEF TimeClasses
    <3>. QED
      BY <1>5, <1>6, <3>1, ClassOf
  <2>5. /\ f.primary = "attention_omission" => Availability(f) = "available_missed"
        /\ f.primary = "post_cutoff_shock" => Availability(f) = "post_cutoff_event"
    BY <1>5, ClassOf
  <2>. QED
    BY <1>1, <1>2, <2>1, <2>2, <2>3, <2>4, <2>5 DEF HindsightFree
<1>8. Earned(r)
  <2>1. ASSUME DirectionScored(a)
        PROVE  /\ v \in {"right_reason", "lucky_correct"} =>
                    /\ ~InNoiseBand(market.move[a.index])
                    /\ DirectionOf(a) = Sign(market.move[a.index])
               /\ v = "wrong" => /\ ~InNoiseBand(market.move[a.index])
                                 /\ DirectionOf(a) # Sign(market.move[a.index])
    BY <1>3, <2>1, Fared, VerdictOf DEF AssignmentFacts
  <2>2. v = "right_reason" => f.original \cap UsedBy(a) # {}
    BY <1>2, <1>3, <1>5, <1>6 DEF AssignmentFacts
  <2>. QED
    BY <1>1, <1>2, <1>6, <2>1, <2>2 DEF Earned
<1>. QED
  BY <1>7, <1>8

\* An assignment fails only by its verdict: the cautious finding with a verdict
\* that fits passes.
LEMMA CautiousPasses ==
  ASSUME NEW a, NEW v \in Verdicts \ {"right_reason", "lucky_correct"},
         VerdictFits(a, v),
         a.severity # "noise" => v \notin {"wrong_noise", "right_but_noise"}
  PROVE  Analysable(a)
<1>1. PICK f : f = [verdict |-> v, primary |-> "unresolved", secondary |-> {},
                    causal |-> "unresolved", basis |-> "not_applicable", wrong |-> FALSE,
                    original |-> {}, missed |-> {}, sources |-> {}]
  OBVIOUS
<1>2. f \in Citing(a, v, "unresolved", {})
  BY <1>1 DEF Citing, CausalStatuses, Bases
<1>3. ClaimFits(a, f)
  BY <1>1 DEF ClaimFits
<1>4. Fits(a, v, "unresolved", {})
  BY DEF Fits, NoiseFits
<1>5. "unresolved" \in ErrorTypes /\ {} \in SUBSET {"market_noise"}
  BY DEF ErrorTypes
<1>. QED
  BY <1>2, <1>3, <1>4, <1>5 DEF Analysable

\* Index i stays in its noise band on a day of a systemic fall.
Unjudgeable(i) == SystemicExtremeDown /\ market.move[i] # 0 /\ InNoiseBand(market.move[i])

LEMMA HopelessOnly ==
  ASSUME NEW a \in Assignments, ~Analysable(a)
  PROVE  \E i \in Indexes : Unjudgeable(i)
<1>1. AssignmentFacts(a)
  BY Assigned
<1>2. DirectionScored(a)
  <2>1. ~DirectionScored(a) => VerdictFits(a, "not_applicable")
    BY DEF VerdictFits
  <2>. QED
    BY <2>1, CautiousPasses DEF Verdicts
<1>3. /\ a.index \in Indexes /\ a.severity = Severity(a.index)
      /\ a.expected = DirectionResult(DirectionOf(a), market.move[a.index])
      /\ a.expected \in {"zero_return", "right_but_noise", "wrong_noise", "correct", "wrong"}
  BY <1>1, <1>2, Fared DEF AssignmentFacts
<1>4. a.expected \in {"right_but_noise", "wrong_noise"}
  <2>1. a.expected = "zero_return" => VerdictFits(a, "not_applicable")
    BY <1>2 DEF VerdictFits
  <2>2. a.expected = "correct" => VerdictFits(a, "unresolved")
    BY <1>2 DEF VerdictFits
  <2>3. a.expected = "wrong" => VerdictFits(a, "wrong")
    BY <1>2 DEF VerdictFits
  <2>. QED
    BY <1>3, <2>1, <2>2, <2>3, CautiousPasses DEF Verdicts
<1>5. a.severity # "noise"
  <2>1. VerdictFits(a, a.expected)
    BY <1>2, <1>4 DEF VerdictFits
  <2>. QED
    BY <1>4, <2>1, CautiousPasses DEF Verdicts
<1>6. market.move[a.index] # 0 /\ InNoiseBand(market.move[a.index])
  BY <1>3, <1>4, Fared
<1>7. SystemicExtremeDown
  <2>1. Diagnosis(market.move[a.index], market.percentile) = "noise"
    BY <1>6 DEF Diagnosis
  <2>. QED
    BY <1>3, <1>5, <2>1 DEF Severity
<1>. QED
  BY <1>3, <1>6, <1>7 DEF Unjudgeable

LEMMA HopelessIf ==
  ASSUME NEW i \in Indexes, Unjudgeable(i)
  PROVE  Hopeless # {}
<1>1. PICK a : a = CommitteeAssignment(i)
  OBVIOUS
<1>2. a \in Assignments
  BY <1>1 DEF Assignments, CommitteeAssignments
<1>3. /\ a.scope = "committee" /\ a.severity = Severity(i)
      /\ a.expected = DirectionResult(council.forecast[i], market.move[i])
  BY <1>1 DEF CommitteeAssignment
<1>4. /\ DirectionScored(a) /\ a.severity = "systemic_extreme_down"
      /\ a.expected \in {"right_but_noise", "wrong_noise"}
  BY <1>3, Fared DEF DirectionScored, Severity, Unjudgeable
<1>5. ASSUME NEW v, NEW e, NEW g PROVE ~Fits(a, v, e, g)
  <2>1. VerdictFits(a, v) => v \in {"right_but_noise", "wrong_noise"}
    BY <1>4, VerdictOf
  <2>. QED
    BY <1>4, <2>1 DEF Fits, NoiseFits
<1>. QED
  BY <1>2, <1>5 DEF Hopeless, Analysable

\* Nothing is filed before the analysis is accepted, and what is filed is fair.
FindingsInv ==
    /\ captured \subseteq Published
    /\ stage # "done" => filed = {}
    /\ \A r \in filed : HindsightFree(r) /\ Earned(r)

LEMMA AnalyseKeeps ==
  ASSUME FindingsInv, Analyse
  PROVE  FindingsInv'
<1>1. CASE \/ PrepareAnalysis \/ WriteFindings
           \/ \E urls \in {{}, Published} : Discover(urls)
           \/ \E items \in SUBSET Published : FreezeCaptured(items)
  BY <1>1 DEF FindingsInv, PrepareAnalysis, WriteFindings, Discover, FreezeCaptured
<1>2. ASSUME NEW a \in Followed, NEW v, NEW e, NEW g, FileFinding(a, v, e, g)
      PROVE  FindingsInv'
  <2>1. PICK f \in Citing(a, v, e, g) : ClaimFits(a, f) /\ filed' = {Filed(a, f)}
    BY <1>2 DEF FileFinding
  <2>2. PICK r : r = Filed(a, f)
    OBVIOUS
  <2>3. HindsightFree(r) /\ Earned(r)
    BY <1>2, <2>1, <2>2, FiledIsFair DEF Followed, FileFinding, FindingsInv
  <2>4. UNCHANGED <<market, council, original, captured>> /\ stage' = "done"
    BY <1>2 DEF FileFinding
  <2>5. HindsightFree(r)' /\ Earned(r)'
    BY <2>3, <2>4 DEF HindsightFree, Earned, UsedBy, UsedOn, Roster, Opinions, DirectionOf
  <2>. QED
    BY <2>1, <2>2, <2>4, <2>5 DEF FindingsInv
<1>. QED
  BY <1>1, <1>2 DEF Analyse

\* What a reflection stores judges the council by what it could know and by what
\* the market did, and only a systemic fall with an index in its noise band
\* leaves an analysis that cannot be written (_validate_analysis).
THEOREM FindingsStayFair == MCSpec => []FindingsFair
<1>1. MCInit => FindingsInv
  BY DEF MCInit, FindingsMCInit, FindingsInit, FindingsInv
<1>2. FindingsInv /\ [MCNext]_<<reflectionVars, findingsVars, alone, topic>> => FindingsInv'
  <2>. SUFFICES ASSUME FindingsInv, [MCNext]_<<reflectionVars, findingsVars, alone, topic>>
                PROVE  FindingsInv'
    OBVIOUS
  <2>1. CASE UNCHANGED findingsVars
    <3>0. UNCHANGED <<market, council, original, captured>>
      BY <2>1 DEF findingsVars
    <3>1. ASSUME NEW r, HindsightFree(r), Earned(r) PROVE HindsightFree(r)' /\ Earned(r)'
      <4>1. Opinions' = Opinions
        BY <3>0 DEF Opinions
      <4>2. ASSUME NEW i PROVE UsedOn(i)' = UsedOn(i)
        BY <4>1 DEF UsedOn, Roster
      <4>3. UsedBy(r.about)' = UsedBy(r.about) /\ DirectionOf(r.about)' = DirectionOf(r.about)
        BY <3>0, <4>1, <4>2 DEF UsedBy, DirectionOf
      <4>4. HindsightFree(r)'
        BY <3>0, <3>1, <4>3 DEF HindsightFree
      <4>5. Earned(r)'
        BY <3>0, <3>1, <4>3 DEF Earned
      <4>. QED
        BY <4>4, <4>5
    <3>. QED
      BY <2>1, <3>1 DEF findingsVars, FindingsInv
  <2>. QED
    BY <2>1, AnalyseKeeps DEF MCNext
<1>3. FindingsInv => FindingsFair
  <2>. SUFFICES ASSUME FindingsInv PROVE FindingsFair
    OBVIOUS
  <2>1. NothingFromHindsight /\ VerdictsEarned
    BY DEF FindingsInv, NothingFromHindsight, VerdictsEarned, HindsightFree, Earned
  <2>2. Hopeless # {} <=> \E i \in Indexes : Unjudgeable(i)
    BY HopelessOnly, HopelessIf DEF Hopeless
  <2>3. AnalysableUnlessSystemicNoise
    BY <2>2 DEF AnalysableUnlessSystemicNoise, Unjudgeable
  <2>. QED
    BY <2>1, <2>3 DEF FindingsFair
<1>. QED
  BY <1>1, <1>2, <1>3, PTL DEF MCSpec
=============================================================================
