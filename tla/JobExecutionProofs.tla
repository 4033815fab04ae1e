------------------------- MODULE JobExecutionProofs -------------------------
(***************************************************************************)
(* Proofs about JobExecution, for every number of operators, handoffs,     *)
(* drafts and crashes.                                                     *)
(***************************************************************************)
EXTENDS JobExecution, TLAPS

-----------------------------------------------------------------------------
(* The inductive invariant.                                                *)

Reading == {"request", "drafts", "receipt"}
Copying == {"copy_stage", "copy_link", "copy_won", "copy_lost"}
Appending == {"append_stage", "append_link", "append_won", "append_lost"}
Deciding == Copying \cup {"decide"} \cup Appending

\* The seals a phase comes with: each stage has sealed what it is about, and the
\* receipt of a terminal phase is about the sealed handoff and drafts.
WellSealed(phase, seals) ==
    /\ IF phase = "prepare_pending" THEN seals.job = Nothing ELSE seals.job \in Jobs
    /\ IF phase \in {"prepare_pending", "awaiting_draft"}
       THEN seals.drafts = Nothing ELSE seals.drafts \in Drafts
    /\ IF phase \in Terminal
       THEN /\ seals.receipt \in Receipt
            /\ seals.receipt.status = phase
            /\ seals.receipt.job = seals.job
            /\ seals.receipt.drafts = seals.drafts
       ELSE seals.receipt = Nothing

\* Seals are never taken back along the whole chain, not only from one revision to
\* the next, and a terminal revision has its receipt beside it.
ChainOK ==
    /\ \A i \in 1..Len(revisions) : WellSealed(revisions[i].phase, revisions[i].seals)
    /\ \A i, j \in 1..Len(revisions) :
          i <= j => Matches(revisions[j].seals, revisions[i].seals)
    /\ revisions # <<>> => revisions[1].phase = "prepare_pending"
    /\ \A i \in 1..(Len(revisions) - 1) :
          <<revisions[i].phase, revisions[i + 1].phase>> \in Follows
    /\ revisions # <<>> /\ Last(revisions).phase \in Terminal =>
          trusted = Last(revisions).seals.receipt

\* The handoff's own receipt names its handoff.
ReceiptsNamed == \A j \in Jobs : receipt[j] # Nothing => receipt[j].job = j

\* Where an operator is, and which method brought it there.
PlaceOK(o) ==
    /\ pc[o] = "idle" => stage[o] = "first" /\ update[o] = NoSeals
    /\ pc[o] \notin {"idle", "rename"} => revisions # <<>>
    /\ stage[o] \in {"reread", "winner"} => pc[o] \in {"list", "chain"}
    /\ pc[o] = "rename" => call[o].method = "begin"
    /\ pc[o] # "idle" /\ call[o].method = "begin" =>
          /\ pc[o] \in {"rename", "list", "chain"} /\ stage[o] = "first"
          /\ call[o].arg \in Manifests
          /\ update[o] = [NoSeals EXCEPT !.manifest = call[o].arg]
    /\ call[o].method = "record_prepared" => call[o].arg \in Jobs
    /\ pc[o] = "drafts" => call[o].method \in {"record_draft_ready", "record_finalized"}
    /\ pc[o] \in {"receipt"} \cup Copying => call[o].method = "record_finalized"

\* What it wants to record, once it has read it.
UpdateOK(o) ==
    IF pc[o] \in Deciding \/ stage[o] \in {"reread", "winner"}
    THEN \/ /\ call[o].method = "record_prepared"
            /\ update[o] = [NoSeals EXCEPT !.job = call[o].arg]
         \/ /\ call[o].method = "record_draft_ready"
            /\ \E d \in Drafts : update[o] = [NoSeals EXCEPT !.drafts = d]
         \/ /\ call[o].method = "record_finalized"
            /\ \E r \in Receipt : update[o] = [NoSeals EXCEPT !.receipt = r]
    ELSE call[o].method # "begin" => update[o] = NoSeals

\* The state it read is still a revision of the chain, if not the last one.
SeenOK(o) ==
    pc[o] \in Reading \cup Deciding =>
        /\ seen[o].revision + 1 \in 1..Len(revisions)
        /\ revisions[seen[o].revision + 1] =
               [phase |-> seen[o].phase, seals |-> seen[o].seals]
        /\ call[o].method = "record_draft_ready" => seen[o].phase # "prepare_pending"
        /\ call[o].method = "record_finalized" =>
               /\ seen[o].phase \notin {"prepare_pending", "awaiting_draft"}
               /\ pc[o] \in Deciding =>
                     /\ update[o].receipt.job = seen[o].seals.job
                     /\ update[o].receipt.drafts = seen[o].seals.drafts
        /\ pc[o] \in Appending => Pending(o)

\* The receipt it copied is the trusted one; the revision it linked is in the chain.
TrustOK(o) ==
    /\ pc[o] \in {"copy_won", "decide"} \cup Appending
          /\ call[o].method = "record_finalized" => trusted = update[o].receipt
    /\ pc[o] = "copy_lost" => trusted # Nothing
    /\ pc[o] = "append_won" \/ stage[o] = "reread" =>
          Matches(Last(revisions).seals, update[o])

LocalOK(o) == PlaceOK(o) /\ UpdateOK(o) /\ SeenOK(o) /\ TrustOK(o)

\* Temporary files are those of operators at work, unless one was killed.
LitterOK ==
    crashes = 0 =>
        /\ \A o \in litter : pc[o] \in {"append_link", "append_won", "append_lost"}
        /\ \A o \in topLitter : pc[o] \in {"copy_link", "copy_won", "copy_lost"}

IndInv ==
    /\ TypeOK
    /\ ChainOK
    /\ ReceiptsNamed
    /\ \A o \in Operators : LocalOK(o)
    /\ AcknowledgedIsRecorded
    /\ LitterOK

-----------------------------------------------------------------------------
(* Seals and chains.                                                       *)

\* _require_matching_fields, field by field.
LEMMA MatchesFields ==
    ASSUME NEW a \in Seals, NEW b \in Seals
    PROVE  Matches(a, b) <=>
              /\ b.manifest \in {Nothing, a.manifest}
              /\ b.job \in {Nothing, a.job}
              /\ b.drafts \in {Nothing, a.drafts}
              /\ b.receipt \in {Nothing, a.receipt}
  BY DEF Matches, SealNames

\* What a state records, a state that keeps all of its seals records too.
LEMMA MatchesTransitive ==
    ASSUME NEW a \in Seals, NEW b \in Seals, NEW c \in Seals,
           Matches(a, b), Matches(b, c)
    PROVE  Matches(a, c)
  BY MatchesFields

LEMMA MatchesReflexive == \A a \in Seals : Matches(a, a)
  BY MatchesFields

\* The last revision, before and after one more.
LEMMA LastRevision ==
    ASSUME NEW s \in Seq(State), s # <<>>
    PROVE  /\ Len(s) \in 1..Len(s) /\ Last(s) = s[Len(s)]
           /\ Last(s) \in State /\ Last(s).seals \in Seals
  <1>1. Len(s) \in 1..Len(s) /\ Last(s) = s[Len(s)] /\ Last(s) \in State
    BY DEF Last
  <1> QED BY <1>1 DEF State

LEMMA AppendRevision ==
    ASSUME NEW s \in Seq(State), NEW x \in State
    PROVE  /\ Append(s, x) \in Seq(State) /\ Append(s, x) # <<>>
           /\ Len(Append(s, x)) = Len(s) + 1
           /\ \A i \in 1..Len(s) : Append(s, x)[i] = s[i]
           /\ Append(s, x)[Len(s) + 1] = x
           /\ Last(Append(s, x)) = x
  BY DEF Last

\* What other operators may do to the execution directory: revisions are added and
\* the trusted receipt is written once.
Grows ==
    /\ Len(revisions) <= Len(revisions')
    /\ \A i \in 1..Len(revisions) : revisions'[i] = revisions[i]
    /\ revisions # <<>> =>
          revisions' # <<>> /\ Matches(Last(revisions').seals, Last(revisions).seals)
    /\ trusted # Nothing => trusted' = trusted

\* Operator o alone moves.
Alone(o) ==
    \A q \in Operators \ {o} :
        /\ pc'[q] = pc[q] /\ call'[q] = call[q] /\ stage'[q] = stage[q]
        /\ seen'[q] = seen[q] /\ update'[q] = update[q]

LEMMA SameStoreGrows ==
    ASSUME TypeOK, UNCHANGED <<revisions, trusted>>
    PROVE  Grows
  <1>1. revisions # <<>> => Last(revisions).seals \in Seals
    BY LastRevision DEF TypeOK
  <1> QED BY <1>1, MatchesReflexive DEF Grows, TypeOK

\* What an operator relies on survives what the others do.
LEMMA OthersKeep ==
    ASSUME TypeOK, TypeOK', Grows, NEW q \in Operators, LocalOK(q),
           pc'[q] = pc[q], call'[q] = call[q], stage'[q] = stage[q],
           seen'[q] = seen[q], update'[q] = update[q]
    PROVE  LocalOK(q)'
  <1>1. PlaceOK(q)'
    BY DEF LocalOK, PlaceOK, Grows
  <1>2. UpdateOK(q)'
    BY DEF LocalOK, UpdateOK
  <1>3. SeenOK(q)'
    BY DEF LocalOK, SeenOK, Grows, Pending, TypeOK
  <1>4. TrustOK(q)'
    <2>1. pc[q] \in {"copy_won", "decide"} \cup Appending /\ call[q].method = "record_finalized"
             => trusted # Nothing
      BY StoreConfiguration
      DEF LocalOK, TrustOK, UpdateOK, Deciding, Copying, NoSeals, Receipt, StoreConfiguration, Terminal
    <2>2. pc[q] = "append_won" \/ stage[q] = "reread" => Matches(Last(revisions').seals, update[q])
      <3>1. pc[q] = "append_won" \/ stage[q] = "reread" => revisions # <<>>
        BY DEF LocalOK, PlaceOK
      <3>2. revisions # <<>> =>
              Last(revisions).seals \in Seals /\ (revisions' # <<>> => Last(revisions').seals \in Seals)
        BY LastRevision DEF TypeOK
      <3> QED BY <3>1, <3>2, MatchesTransitive DEF LocalOK, TrustOK, Grows, TypeOK
    <2> QED BY <2>1, <2>2 DEF LocalOK, TrustOK, Grows
  <1> QED BY <1>1, <1>2, <1>3, <1>4 DEF LocalOK

\* A step of one operator that keeps its own part of the invariant keeps all of it.
LEMMA StepKeeps ==
    ASSUME IndInv, NEW o \in Operators, Alone(o), TypeOK', Grows, ChainOK',
           ReceiptsNamed', LocalOK(o)', LitterOK', AcknowledgedIsRecorded'
    PROVE  IndInv'
  <1>1. \A q \in Operators \ {o} : LocalOK(q)'
    BY OthersKeep DEF Alone, IndInv
  <1> QED BY <1>1 DEF IndInv

\* The same for a step that leaves the execution directory and the handoffs alone.
LEMMA MoveKeeps ==
    ASSUME IndInv, NEW o \in Operators, Alone(o), TypeOK', LocalOK(o)', LitterOK',
           UNCHANGED <<revisions, trusted, receipt, acks>>
    PROVE  IndInv'
  <1>1. Grows
    BY SameStoreGrows DEF IndInv
  <1>2. ChainOK' /\ ReceiptsNamed' /\ AcknowledgedIsRecorded'
    BY DEF IndInv, ChainOK, ReceiptsNamed, AcknowledgedIsRecorded
  <1> QED BY <1>1, <1>2, StepKeeps

LEMMA ExitLocals ==
    ASSUME TypeOK, NEW o \in Operators, Exit(o)
    PROVE  /\ pc' \in [Operators -> Steps]
           /\ call' \in [Operators -> [method : Methods, arg : Jobs \cup Manifests \cup {Nothing}]]
           /\ stage' \in [Operators -> Stages]
           /\ seen' \in [Operators -> [revision : Nat, phase : Phase, seals : Seals]]
           /\ update' \in [Operators -> Seals]
           /\ Alone(o) /\ pc'[o] = "idle"
           /\ LocalOK(o)'
  <1>1. NoSeals \in Seals
    BY DEF NoSeals, Seals
  <1>2. Unread \in [revision : Nat, phase : Phase, seals : Seals]
    BY <1>1 DEF Unread, Phase
  <1>3. NoCall \in [method : Methods, arg : Jobs \cup Manifests \cup {Nothing}]
    BY DEF NoCall, Methods
  <1>4. /\ pc'[o] = "idle" /\ stage'[o] = "first" /\ update'[o] = NoSeals
        /\ call'[o].method = "begin"
    BY DEF Exit, TypeOK, NoCall
  <1>5. LocalOK(o)'
    BY <1>4 DEF LocalOK, PlaceOK, UpdateOK, SeenOK, TrustOK, Reading, Deciding, Copying, Appending
  <1> QED BY <1>1, <1>2, <1>3, <1>4, <1>5 DEF Exit, TypeOK, Steps, Stages, Alone

\* A method that ends, well or badly, leaves what it changed in order.
LEMMA ExitKeeps ==
    ASSUME IndInv, NEW o \in Operators, Exit(o),
           UNCHANGED <<revisions, trusted, drafts, receipt>>,
           litter' \subseteq litter, topLitter' \subseteq topLitter,
           crashes' \in 0..MaxCrashes, crashes <= crashes',
           crashes' = 0 => o \notin litter' /\ o \notin topLitter',
           acks' \subseteq Seals,
           \A a \in acks' \ acks : revisions # <<>> /\ Matches(Last(revisions).seals, a)
    PROVE  IndInv'
  <1>1. TypeOK'
    BY ExitLocals DEF IndInv, TypeOK
  <1>2. Grows
    BY SameStoreGrows DEF IndInv
  <1>3. ChainOK' /\ ReceiptsNamed' /\ AcknowledgedIsRecorded'
    BY DEF IndInv, ChainOK, ReceiptsNamed, AcknowledgedIsRecorded
  <1>4. LitterOK'
    <2>1. crashes' = 0 => crashes = 0
      BY DEF IndInv, TypeOK
    <2>2. \A q \in Operators \ {o} : pc'[q] = pc[q]
      BY DEF Exit, IndInv, TypeOK
    <2> QED BY <2>1, <2>2 DEF LitterOK, IndInv, TypeOK
  <1>5. Alone(o) /\ LocalOK(o)'
    BY ExitLocals DEF IndInv
  <1> QED BY <1>1, <1>2, <1>3, <1>4, <1>5, StepKeeps

\* Nobody but an operator at its link, or just after it, has a temporary file.
LEMMA NoLitter ==
    ASSUME IndInv, NEW o \in Operators, crashes = 0,
           pc[o] \notin {"append_link", "append_won", "append_lost",
                         "copy_link", "copy_won", "copy_lost"}
    PROVE  o \notin litter /\ o \notin topLitter
  BY DEF IndInv, LitterOK

LEMMA RaiseKeeps ==
    ASSUME IndInv, NEW o \in Operators, Raise(o), UNCHANGED <<store, handoff, crashes>>,
           pc[o] \notin {"append_link", "append_won", "append_lost",
                         "copy_link", "copy_won", "copy_lost"}
    PROVE  IndInv'
  BY ExitKeeps, NoLitter DEF Raise, store, handoff, IndInv, TypeOK

LEMMA ReturnKeeps ==
    ASSUME IndInv, NEW o \in Operators, Return(o, update[o]),
           UNCHANGED <<store, handoff, crashes>>,
           pc[o] \notin {"append_link", "append_won", "append_lost",
                         "copy_link", "copy_won", "copy_lost"},
           revisions # <<>>, Matches(Last(revisions).seals, update[o])
    PROVE  IndInv'
  <1>1. /\ update[o] \in Seals /\ acks \subseteq Seals /\ crashes \in 0..MaxCrashes
        /\ crashes' = 0 => o \notin litter /\ o \notin topLitter
    BY NoLitter DEF IndInv, TypeOK
  <1>2. Exit(o) /\ acks' = acks \cup {update[o]}
    BY DEF Return
  <1> QED BY <1>1, <1>2, ExitKeeps DEF store, handoff

-----------------------------------------------------------------------------
(* The steps of an operator.                                               *)

\* Where every operator stands, without the parts that are not needed.
LEMMA Facts ==
    ASSUME IndInv, NEW o \in Operators
    PROVE  /\ TypeOK /\ ChainOK /\ LitterOK /\ ReceiptsNamed
           /\ PlaceOK(o) /\ UpdateOK(o) /\ SeenOK(o) /\ TrustOK(o)
           /\ pc[o] \in Steps /\ call[o].method \in Methods /\ stage[o] \in Stages
           /\ update[o] \in Seals /\ seen[o].seals \in Seals /\ seen[o].phase \in Phase
           /\ seen[o].revision \in Nat
  BY DEF IndInv, LocalOK, TypeOK

LEMMA CallKeeps ==
    ASSUME IndInv, NEW o \in Operators, Call(o, Manifests, Jobs)
    PROVE  IndInv'
  <1>1. ASSUME NEW m \in Manifests, StartBegin(o, m) PROVE IndInv'
    <2>1. TypeOK'
      <3>1. [update[o] EXCEPT !.manifest = m] \in Seals
        BY Facts DEF Seals
      <3>2. update' \in [Operators -> Seals]
        BY <1>1, <3>1, Facts DEF StartBegin, TypeOK
      <3> QED BY <1>1, <3>2, Facts DEF StartBegin, Goto, TypeOK, Steps, Methods, store, handoff
    <2>2. LocalOK(o)'
      BY ZenonT(40), <1>1, Facts DEF StartBegin, Goto, TypeOK, store, handoff, LocalOK, PlaceOK, UpdateOK,
         SeenOK, TrustOK, Reading, Deciding, Copying, Appending, NoSeals, Seals
    <2>3. LitterOK'
      BY <1>1, Facts DEF StartBegin, Goto, TypeOK, store, LitterOK
    <2>4. Alone(o)
      BY <1>1, Facts DEF StartBegin, Goto, TypeOK, Alone
    <2> QED BY <1>1, <2>1, <2>2, <2>3, <2>4, MoveKeeps DEF StartBegin, store, handoff
  <1>2. ASSUME NEW method \in Methods \ {"begin"}, NEW j \in Jobs \cup {Nothing},
               method = "record_prepared" => j \in Jobs, StartMethod(o, method, j)
        PROVE  IndInv'
    <2>1. TypeOK'
      BY <1>2, Facts DEF StartMethod, Goto, TypeOK, Steps, store, handoff
    <2>2. LocalOK(o)'
      BY <1>2, Facts DEF StartMethod, Goto, TypeOK, store, handoff, LocalOK, PlaceOK, UpdateOK,
         SeenOK, TrustOK, Reading, Deciding, Copying, Appending
    <2>3. LitterOK'
      BY <1>2, Facts DEF StartMethod, Goto, TypeOK, store, LitterOK
    <2>4. Alone(o)
      BY <1>2, Facts DEF StartMethod, Goto, TypeOK, Alone
    <2> QED BY <1>2, <2>1, <2>2, <2>3, <2>4, MoveKeeps DEF StartMethod, store, handoff
  <1> QED BY <1>1, <1>2 DEF Call, Methods

\* begin's rename makes the first revision or leaves the chain alone.
LEMMA RenameKeeps ==
    ASSUME IndInv, NEW o \in Operators, RenameDirectory(o)
    PROVE  IndInv'
  <1> USE DEF RenameDirectory, Goto
  <1>1. call[o].arg \in Manifests
    BY Facts DEF PlaceOK
  <1>2. Begun(call[o].arg) \in State /\ WellSealed("prepare_pending", Begun(call[o].arg).seals)
    BY <1>1 DEF Begun, State, Phase, Seals, NoSeals, WellSealed, Terminal
  <1>3. TypeOK'
    BY <1>2, Facts DEF TypeOK, Steps, handoff, local
  <1>4. CASE revisions = <<>>
    <2>1. revisions' = <<Begun(call[o].arg)>>
      BY <1>4
    <2>2. /\ Len(revisions') = 1 /\ revisions'[1] = Begun(call[o].arg)
          /\ revisions' # <<>> /\ Last(revisions') = Begun(call[o].arg)
      BY <2>1 DEF Last
    <2>3. ChainOK'
      <3>1. Matches(Begun(call[o].arg).seals, Begun(call[o].arg).seals)
        BY <1>2, MatchesReflexive DEF State
      <3>2. Begun(call[o].arg).phase = "prepare_pending"
        BY DEF Begun
      <3>3. \A n \in Nat : n = 1 => \A i \in 1..n : i = 1
        OBVIOUS
      <3> QED BY <1>2, <2>2, <3>1, <3>2, <3>3 DEF ChainOK, Terminal
    <2>4. Grows
      BY <1>4, <2>2 DEF Grows
    <2>5. acks = {} /\ AcknowledgedIsRecorded'
      BY <1>4 DEF IndInv, AcknowledgedIsRecorded
    <2>6. LocalOK(o)'
      BY <2>2, Facts DEF LocalOK, TypeOK, local, PlaceOK, UpdateOK, SeenOK, TrustOK,
         Reading, Deciding, Copying, Appending
    <2>7. Alone(o) /\ LitterOK' /\ ReceiptsNamed'
      BY Facts DEF TypeOK, Alone, LitterOK, ReceiptsNamed, local, handoff
    <2> QED BY <1>3, <2>3, <2>4, <2>5, <2>6, <2>7, StepKeeps
  <1>5. CASE revisions # <<>>
    <2>1. UNCHANGED <<revisions, trusted, receipt, acks>>
      BY <1>5 DEF handoff
    <2>2. LocalOK(o)'
      BY <1>5, Facts DEF LocalOK, TypeOK, local, PlaceOK, UpdateOK, SeenOK, TrustOK,
         Reading, Deciding, Copying, Appending
    <2>3. Alone(o) /\ LitterOK'
      BY Facts DEF TypeOK, Alone, LitterOK, local
    <2> QED BY <1>3, <2>1, <2>2, <2>3, MoveKeeps
  <1> QED BY <1>4, <1>5

\* A step that changes only where operator o is, and which resume() it is in.
LEMMA GotoTypes ==
    ASSUME TypeOK, NEW o \in Operators, NEW step \in Steps, Goto(o, step),
           NEW which \in Stages, stage' = [stage EXCEPT ![o] = which] \/ stage' = stage,
           UNCHANGED <<store, handoff, call, seen, update, acks, crashes>>
    PROVE  TypeOK' /\ Alone(o)
  BY DEF TypeOK, Goto, Alone, store, handoff

LEMMA ListKeeps ==
    ASSUME IndInv, NEW o \in Operators, ListDirectory(o)
    PROVE  IndInv'
  <1>1. CASE topLitter = {}
    <2>1. Goto(o, "chain") /\ UNCHANGED <<store, handoff, local, acks, crashes>>
      BY <1>1 DEF ListDirectory
    <2>2. TypeOK' /\ Alone(o)
      BY <2>1, Facts, GotoTypes DEF local, Steps, Stages
    <2>3. pc[o] = "list" /\ pc'[o] = "chain" /\ UNCHANGED <<revisions, trusted, call, stage, seen, update>>
      BY <2>1, Facts DEF ListDirectory, Goto, local, store, TypeOK
    <2>4. LocalOK(o)'
      BY <2>3, Facts DEF LocalOK, PlaceOK, UpdateOK, SeenOK, TrustOK, Reading, Deciding,
         Copying, Appending
    <2>5. LitterOK'
      BY <2>1, <2>3, Facts DEF Goto, store, LitterOK, TypeOK
    <2> QED BY <2>1, <2>2, <2>4, <2>5, MoveKeeps DEF store, handoff
  <1>2. CASE topLitter # {}
    BY <1>2, RaiseKeeps DEF ListDirectory
  <1> QED BY <1>1, <1>2

LEMMA ReadChainKeeps ==
    ASSUME IndInv, NEW o \in Operators, ReadChain(o)
    PROVE  IndInv'
  <1>0. pc[o] = "chain" /\ UNCHANGED <<store, handoff, crashes>>
    BY DEF ReadChain
  <1> DEFINE last == Last(revisions)
  <1>1. revisions # <<>> /\ revisions \in Seq(State)
    BY <1>0, Facts DEF PlaceOK, TypeOK
  <1>2. last \in State /\ last.seals \in Seals /\ Len(revisions) \in 1..Len(revisions)
        /\ last = revisions[Len(revisions)]
    BY <1>1, LastRevision
  <1>3. ASSUME Raise(o) PROVE IndInv'
    BY <1>0, <1>3, RaiseKeeps
  <1>4. ASSUME Return(o, update[o]), Matches(last.seals, update[o]) PROVE IndInv'
    BY <1>0, <1>1, <1>4, ReturnKeeps
  <1>5. ASSUME seen' = [seen EXCEPT ![o] = [revision |-> Len(revisions) - 1,
                                           phase |-> last.phase, seals |-> last.seals]],
               Goto(o, "request"), UNCHANGED <<call, stage, update, acks>>,
               stage[o] \notin {"reread", "winner"}, call[o].method # "begin",
               call[o].method = "record_draft_ready" => last.phase # "prepare_pending",
               call[o].method = "record_finalized" =>
                   last.phase \notin {"prepare_pending", "awaiting_draft"}
        PROVE  IndInv'
    <2>1. [revision |-> Len(revisions) - 1, phase |-> last.phase, seals |-> last.seals]
             \in [revision : Nat, phase : Phase, seals : Seals]
      BY <1>2 DEF State
    <2>2. TypeOK' /\ Alone(o)
      BY <1>0, <1>5, <2>1, Facts DEF TypeOK, Goto, Alone, Steps, store, handoff
    <2>3. PlaceOK(o)' /\ UpdateOK(o)' /\ TrustOK(o)' /\ LitterOK'
      BY <1>0, <1>1, <1>5, Facts DEF Goto, store, handoff, LitterOK, TypeOK,
         PlaceOK, UpdateOK, TrustOK, Deciding, Copying, Appending
    <2>4. SeenOK(o)'
      <3>1. pc'[o] = "request" /\ call'[o] = call[o]
            /\ seen'[o] = [revision |-> Len(revisions) - 1, phase |-> last.phase, seals |-> last.seals]
        BY <1>5, Facts DEF Goto, TypeOK
      <3>2. seen'[o].revision + 1 = Len(revisions) /\ revisions' = revisions
        BY <1>0, <1>2, <3>1 DEF store
      <3>3. last = [phase |-> last.phase, seals |-> last.seals]
        BY <1>2 DEF State
      <3> QED BY <1>2, <1>5, <3>1, <3>2, <3>3 DEF SeenOK, Deciding, Copying, Appending
    <2> QED BY <1>0, <1>5, <2>2, <2>3, <2>4, MoveKeeps DEF LocalOK, store, handoff
  <1>6. CASE ~(litter = {} /\ Believable(last))
    BY <1>3, <1>6 DEF ReadChain
  <1>7. CASE litter = {} /\ Believable(last)
    <2>1. AfterResume(o, last)
      BY <1>7 DEF ReadChain
    <2>2. stage[o] = "reread" => Matches(last.seals, update[o])
      BY Facts DEF TrustOK
    <2>3. SameLogicalTransition(o, last) => Matches(last.seals, update[o])
      BY DEF SameLogicalTransition
    <2>4. CASE stage[o] \notin {"reread", "winner"}
      BY <1>3, <1>4, <1>5, <2>1, <2>4 DEF AfterResume, Proceed, TooEarly
    <2> QED BY <1>3, <1>4, <2>1, <2>2, <2>3, <2>4 DEF AfterResume
  <1> QED BY <1>6, <1>7

LEMMA RequestKeeps ==
    ASSUME IndInv, NEW o \in Operators,
           LoadRequest(o) \/ InstructDraft(o) \/ VerifyBoundRequest(o)
    PROVE  IndInv'
  <1>1. CASE LoadRequest(o)
    <2>0. UNCHANGED <<store, handoff, acks>> /\ pc[o] = "request"
      BY <1>1 DEF LoadRequest
    <2>1. call[o].arg \in Jobs /\ update[o] = NoSeals /\ stage[o] \notin {"reread", "winner"}
      BY <1>1, Facts DEF LoadRequest, PlaceOK, UpdateOK, Deciding, Copying, Appending
    <2>2. [update[o] EXCEPT !.job = call[o].arg] \in Seals
      BY <2>1, Facts DEF Seals
    <2>3. TypeOK' /\ Alone(o)
      BY <1>1, <2>2, Facts DEF LoadRequest, TypeOK, Goto, Alone, Steps, store, handoff
    <2>4. /\ pc'[o] = "decide" /\ update'[o] = [NoSeals EXCEPT !.job = call[o].arg]
          /\ UNCHANGED <<revisions, trusted, call, stage, seen>>
          /\ call[o].method = "record_prepared"
      BY <1>1, <2>1, Facts DEF LoadRequest, TypeOK, Goto, store
    <2>5. LocalOK(o)'
      BY <2>0, <2>1, <2>4, Facts DEF LocalOK, PlaceOK, UpdateOK, SeenOK, TrustOK, Reading, Deciding,
         Copying, Appending
    <2>6. LitterOK'
      BY <1>1, Facts DEF LoadRequest, TypeOK, Goto, store, LitterOK
    <2> QED BY <2>0, <2>3, <2>5, <2>6, MoveKeeps DEF store, handoff
  <1>2. CASE InstructDraft(o)
    BY <1>2, RaiseKeeps DEF InstructDraft, Raise
  <1>3. CASE VerifyBoundRequest(o)
    <2>0. /\ UNCHANGED <<store, handoff, call, seen, update, acks, crashes>> /\ pc[o] = "request"
          /\ call[o].method \in {"record_draft_ready", "record_finalized"}
      BY <1>3 DEF VerifyBoundRequest
    <2>1. \/ /\ Goto(o, "list") /\ stage' = [stage EXCEPT ![o] = "again"]
             /\ pc'[o] = "list" /\ stage'[o] = "again"
          \/ Goto(o, "drafts") /\ stage' = stage /\ pc'[o] = "drafts"
      BY <1>3, Facts DEF VerifyBoundRequest, Resume, Goto, TypeOK
    <2>2. TypeOK' /\ Alone(o)
      BY <2>0, <2>1, Facts, GotoTypes DEF Steps, Stages
    <2>3. LocalOK(o)'
      BY <2>0, <2>1, Facts DEF LocalOK, PlaceOK, UpdateOK, SeenOK, TrustOK, Reading, Deciding,
         Copying, Appending, store
    <2>4. LitterOK'
      BY <2>0, <2>1, Facts DEF TypeOK, Goto, store, LitterOK
    <2> QED BY <2>0, <2>2, <2>3, <2>4, MoveKeeps DEF store, handoff
  <1> QED BY <1>1, <1>2, <1>3

LEMMA ReadDraftsKeeps ==
    ASSUME IndInv, NEW o \in Operators, ReadDrafts(o)
    PROVE  IndInv'
  <1> DEFINE file == drafts[seen[o].seals.job]
  <1>0. pc[o] = "drafts" /\ UNCHANGED <<store, handoff, crashes>>
    BY DEF ReadDrafts
  <1>1. /\ call[o].method \in {"record_draft_ready", "record_finalized"}
        /\ update[o] = NoSeals /\ stage[o] \notin {"reread", "winner"}
    BY <1>0, Facts DEF PlaceOK, UpdateOK, Deciding, Copying, Appending
  <1>2. seen[o].seals.job \in Jobs
    <2>1. seen[o].phase # "prepare_pending"
          /\ WellSealed(revisions[seen[o].revision + 1].phase, revisions[seen[o].revision + 1].seals)
          /\ revisions[seen[o].revision + 1] = [phase |-> seen[o].phase, seals |-> seen[o].seals]
      BY <1>0, <1>1, Facts DEF SeenOK, ChainOK, Reading
    <2> QED BY <2>1 DEF WellSealed
  <1>3. CASE file = Nothing
    BY <1>0, <1>3, RaiseKeeps DEF ReadDrafts
  <1>4. CASE file # Nothing /\ call[o].method = "record_draft_ready"
    <2>1. /\ update' = [update EXCEPT ![o].drafts = file] /\ Goto(o, "decide")
          /\ UNCHANGED <<call, stage, seen, acks>>
      BY <1>4 DEF ReadDrafts
    <2>2. file \in Drafts
      BY <1>2, <1>4, Facts DEF TypeOK
    <2>3. [update[o] EXCEPT !.drafts = file] \in Seals
      BY <2>2, Facts DEF Seals
    <2>4. TypeOK' /\ Alone(o)
      BY <1>0, <2>1, <2>3, Facts DEF TypeOK, Goto, Alone, Steps, store, handoff
    <2>5. pc'[o] = "decide" /\ update'[o] = [NoSeals EXCEPT !.drafts = file]
      BY <1>1, <2>1, Facts DEF TypeOK, Goto
    <2>6. LocalOK(o)'
      BY <1>0, <1>1, <1>4, <2>1, <2>2, <2>5, Facts DEF LocalOK, PlaceOK, UpdateOK, SeenOK, TrustOK,
         Reading, Deciding, Copying, Appending, store
    <2>7. LitterOK'
      BY <1>0, <2>1, Facts DEF TypeOK, Goto, store, LitterOK
    <2> QED BY <1>0, <2>1, <2>4, <2>6, <2>7, MoveKeeps DEF store, handoff
  <1>5. CASE file # Nothing /\ call[o].method # "record_draft_ready" /\ seen[o].seals.drafts = file
    <2>1. Goto(o, "receipt") /\ UNCHANGED <<store, handoff, local, acks, crashes>>
      BY <1>0, <1>5 DEF ReadDrafts
    <2>2. TypeOK' /\ Alone(o)
      BY <2>1, Facts, GotoTypes DEF local, Steps, Stages
    <2>3. pc'[o] = "receipt" /\ UNCHANGED <<revisions, trusted, call, stage, seen, update>>
      BY <2>1, Facts DEF Goto, local, store, TypeOK
    <2>4. LocalOK(o)'
      BY <1>0, <1>1, <1>5, <2>3, Facts DEF LocalOK, PlaceOK, UpdateOK, SeenOK, TrustOK, Reading,
         Deciding, Copying, Appending
    <2>5. LitterOK'
      BY <1>0, <2>1, Facts DEF Goto, store, LitterOK, TypeOK
    <2> QED BY <2>1, <2>2, <2>4, <2>5, MoveKeeps DEF store, handoff
  <1>6. CASE file # Nothing /\ call[o].method # "record_draft_ready" /\ seen[o].seals.drafts # file
    BY <1>0, <1>6, RaiseKeeps DEF ReadDrafts
  <1> QED BY <1>3, <1>4, <1>5, <1>6

LEMMA ReadReceiptKeeps ==
    ASSUME IndInv, NEW o \in Operators, ReadReceipt(o)
    PROVE  IndInv'
  <1> DEFINE file == receipt[seen[o].seals.job]
  <1>0. pc[o] = "receipt" /\ UNCHANGED <<store, handoff, crashes>>
    BY DEF ReadReceipt
  <1>1. /\ call[o].method = "record_finalized"
        /\ update[o] = NoSeals /\ stage[o] \notin {"reread", "winner"}
    BY <1>0, Facts DEF PlaceOK, UpdateOK, Deciding, Copying, Appending
  <1>2. seen[o].seals.job \in Jobs
    <2>1. seen[o].phase # "prepare_pending"
          /\ WellSealed(revisions[seen[o].revision + 1].phase, revisions[seen[o].revision + 1].seals)
          /\ revisions[seen[o].revision + 1] = [phase |-> seen[o].phase, seals |-> seen[o].seals]
      BY <1>0, <1>1, Facts DEF SeenOK, ChainOK, Reading
    <2> QED BY <2>1 DEF WellSealed
  <1>3. CASE file # Nothing /\ file.drafts = seen[o].seals.drafts
    <2>1. /\ update' = [update EXCEPT ![o].receipt = file] /\ Goto(o, "copy_stage")
          /\ UNCHANGED <<call, stage, seen, acks>>
      BY <1>3 DEF ReadReceipt
    <2>2. file \in Receipt /\ file.job = seen[o].seals.job
      BY <1>2, <1>3, Facts DEF TypeOK, ReceiptsNamed
    <2>3. [update[o] EXCEPT !.receipt = file] \in Seals
      BY <2>2, Facts DEF Seals
    <2>4. TypeOK' /\ Alone(o)
      BY <1>0, <2>1, <2>3, Facts DEF TypeOK, Goto, Alone, Steps, store, handoff
    <2>5. pc'[o] = "copy_stage" /\ update'[o] = [NoSeals EXCEPT !.receipt = file]
      BY <1>1, <2>1, Facts DEF TypeOK, Goto
    <2>6. update'[o].receipt = file
      BY <2>5 DEF NoSeals
    <2>7. LocalOK(o)'
      BY <1>0, <1>1, <1>3, <2>1, <2>2, <2>5, <2>6, Facts DEF LocalOK, PlaceOK, UpdateOK, SeenOK,
         TrustOK, Reading, Deciding, Copying, Appending, store
    <2>8. LitterOK'
      BY <1>0, <2>1, Facts DEF TypeOK, Goto, store, LitterOK
    <2> QED BY <1>0, <2>1, <2>4, <2>7, <2>8, MoveKeeps DEF store, handoff
  <1>4. CASE ~(file # Nothing /\ file.drafts = seen[o].seals.drafts)
    BY <1>0, <1>4, RaiseKeeps DEF ReadReceipt
  <1> QED BY <1>3, <1>4

LEMMA StageKeeps ==
    ASSUME IndInv, NEW o \in Operators, StageCopy(o) \/ StageRevision(o)
    PROVE  IndInv'
  <1>1. /\ \/ pc[o] = "copy_stage" /\ pc'[o] = "copy_link"
           \/ pc[o] = "append_stage" /\ pc'[o] = "append_link"
        /\ UNCHANGED <<revisions, trusted, handoff, local, acks, crashes>>
        /\ Alone(o) /\ TypeOK'
    BY Facts DEF StageCopy, StageRevision, Goto, TypeOK, Alone, Steps, local, handoff
  <1>2. LocalOK(o)'
    BY <1>1, Facts DEF LocalOK, PlaceOK, UpdateOK, SeenOK, TrustOK, Reading, Deciding,
       Copying, Appending, Pending, local
  <1>3. LitterOK'
    BY Facts DEF StageCopy, StageRevision, Goto, TypeOK, LitterOK
  <1> QED BY <1>1, <1>2, <1>3, MoveKeeps DEF handoff

\* The first receipt stays: link(2) fails when the name exists.
LEMMA LinkCopyKeeps ==
    ASSUME IndInv, NEW o \in Operators, LinkCopy(o)
    PROVE  IndInv'
  <1>0. /\ pc[o] = "copy_link" /\ UNCHANGED <<revisions, litter, topLitter, handoff, local, acks, crashes>>
    BY DEF LinkCopy
  <1>1. call[o].method = "record_finalized" /\ update[o].receipt \in Receipt
    BY <1>0, Facts DEF PlaceOK, UpdateOK, Deciding, Copying, NoSeals
  <1>2. /\ \/ trusted = Nothing /\ trusted' = update[o].receipt /\ pc'[o] = "copy_won"
           \/ trusted # Nothing /\ trusted' = trusted /\ pc'[o] = "copy_lost"
        /\ Alone(o) /\ TypeOK'
    BY <1>1, Facts DEF LinkCopy, Goto, TypeOK, Alone, Steps, local, handoff
  <1>3. LocalOK(o)'
    BY <1>0, <1>1, <1>2, Facts DEF LocalOK, PlaceOK, UpdateOK, SeenOK, TrustOK, Reading, Deciding,
       Copying, Appending, local
  <1>4. LitterOK'
    BY <1>0, <1>2, Facts DEF LitterOK, Alone, TypeOK
  <1>5. Grows
    <2>1. revisions # <<>> => Matches(Last(revisions).seals, Last(revisions).seals)
      BY Facts, LastRevision, MatchesReflexive DEF TypeOK
    <2> QED BY <1>0, <1>2, <2>1, Facts DEF Grows, TypeOK
  <1>6. ChainOK'
    <2>1. revisions # <<>> /\ Last(revisions).phase \in Terminal => trusted # Nothing
      <3>1. SUFFICES ASSUME revisions # <<>>, Last(revisions).phase \in Terminal
                     PROVE  trusted # Nothing
        OBVIOUS
      <3>2. Last(revisions).seals.receipt \in Receipt
        BY <3>1, Facts, LastRevision DEF ChainOK, WellSealed, TypeOK
      <3>3. Nothing \notin Receipt
        BY StoreConfiguration DEF StoreConfiguration, Receipt, Terminal
      <3> QED BY <3>1, <3>2, <3>3, Facts DEF ChainOK
    <2> QED BY <1>0, <1>2, <2>1, Facts DEF ChainOK
  <1>7. ReceiptsNamed' /\ AcknowledgedIsRecorded'
    BY <1>0 DEF IndInv, ReceiptsNamed, AcknowledgedIsRecorded, handoff
  <1> QED BY <1>2, <1>3, <1>4, <1>5, <1>6, <1>7, StepKeeps

LEMMA UnlinkCopyKeeps ==
    ASSUME IndInv, NEW o \in Operators, UnlinkCopy(o)
    PROVE  IndInv'
  <1>0. /\ pc[o] \in {"copy_won", "copy_lost"} /\ topLitter' = topLitter \ {o}
        /\ UNCHANGED <<revisions, trusted, litter, handoff, crashes>>
    BY DEF UnlinkCopy
  <1>1. CASE pc[o] = "copy_lost" /\ trusted # update[o].receipt
    <2>1. Exit(o) /\ acks' = acks
      BY <1>1 DEF UnlinkCopy, Raise
    <2>2. /\ crashes = 0 => o \notin litter
          /\ crashes \in 0..MaxCrashes /\ acks \subseteq Seals
      BY <1>0, Facts DEF LitterOK, TypeOK
    <2> QED BY <1>0, <2>1, <2>2, ExitKeeps DEF handoff
  <1>2. CASE ~(pc[o] = "copy_lost" /\ trusted # update[o].receipt)
    <2>1. Goto(o, "decide") /\ UNCHANGED <<local, acks>>
      BY <1>2 DEF UnlinkCopy
    <2>2. pc'[o] = "decide" /\ Alone(o) /\ TypeOK'
      BY <1>0, <2>1, Facts DEF Goto, TypeOK, Alone, Steps, local, handoff
    <2>3. LocalOK(o)'
      BY <1>0, <1>2, <2>1, <2>2, Facts DEF LocalOK, PlaceOK, UpdateOK, SeenOK, TrustOK, Reading,
         Deciding, Copying, Appending, local
    <2>4. LitterOK'
      BY <1>0, <2>2, Facts DEF LitterOK, Alone, TypeOK
    <2> QED BY <1>0, <2>1, <2>2, <2>3, <2>4, MoveKeeps DEF handoff
  <1> QED BY <1>1, <1>2

\* A revision that was read is part of what the last revision records.
LEMMA SeenRecorded ==
    ASSUME IndInv, NEW o \in Operators, pc[o] \in Reading \cup Deciding
    PROVE  /\ revisions # <<>> /\ revisions \in Seq(State)
           /\ Last(revisions).seals \in Seals
           /\ Matches(Last(revisions).seals, seen[o].seals)
           /\ WellSealed(seen[o].phase, seen[o].seals)
  <1> DEFINE n == seen[o].revision + 1
  <1>1. n \in 1..Len(revisions) /\ revisions[n] = [phase |-> seen[o].phase, seals |-> seen[o].seals]
    BY Facts DEF SeenOK
  <1>2. revisions # <<>> /\ revisions \in Seq(State)
    BY <1>1, Facts DEF TypeOK
  <1>3. /\ Len(revisions) \in 1..Len(revisions) /\ Last(revisions) = revisions[Len(revisions)]
        /\ Last(revisions).seals \in Seals
    BY <1>2, LastRevision
  <1>4. /\ Matches(revisions[Len(revisions)].seals, revisions[n].seals)
        /\ WellSealed(revisions[n].phase, revisions[n].seals)
    <2>1. n <= Len(revisions)
      BY <1>1
    <2> QED BY <1>1, <1>3, <2>1, Facts DEF ChainOK
  <1> QED BY <1>1, <1>2, <1>3, <1>4

LEMMA DecideKeeps ==
    ASSUME IndInv, NEW o \in Operators, Decide(o)
    PROVE  IndInv'
  <1>0. pc[o] = "decide" /\ UNCHANGED <<store, handoff, crashes>>
    BY DEF Decide
  <1>1. CASE Pending(o)
    <2>1. Goto(o, "append_stage") /\ UNCHANGED <<local, acks>>
      BY <1>1 DEF Decide
    <2>2. TypeOK' /\ Alone(o)
      BY <1>0, <2>1, Facts, GotoTypes DEF local, Steps, Stages
    <2>3. pc'[o] = "append_stage" /\ UNCHANGED <<revisions, trusted, call, stage, seen, update>>
      BY <1>0, <2>1, Facts DEF Goto, local, store, TypeOK
    <2>4. Pending(o)'
      BY <1>1, <2>3 DEF Pending
    <2>5. PlaceOK(o)' /\ UpdateOK(o)' /\ TrustOK(o)'
      BY <1>0, <2>3, Facts DEF PlaceOK, UpdateOK, TrustOK, Deciding, Copying, Appending
    <2>6. SeenOK(o)'
      BY <1>0, <2>3, <2>4, Facts DEF SeenOK, Deciding, Copying, Appending, Reading
    <2>7. LitterOK'
      BY <1>0, <2>1, Facts DEF Goto, store, LitterOK, TypeOK
    <2> QED BY <1>0, <2>1, <2>2, <2>5, <2>6, <2>7, MoveKeeps DEF LocalOK, store, handoff
  <1>2. CASE ~Pending(o)
    <2>1. Raise(o) \/ (Return(o, update[o]) /\ Matches(seen[o].seals, update[o]))
      BY <1>2 DEF Decide
    <2>2. CASE Raise(o)
      BY <1>0, <2>2, RaiseKeeps
    <2>3. CASE Return(o, update[o]) /\ Matches(seen[o].seals, update[o])
      <3>1. /\ revisions # <<>> /\ Last(revisions).seals \in Seals
            /\ Matches(Last(revisions).seals, seen[o].seals)
        BY <1>0, SeenRecorded DEF Deciding
      <3>2. Matches(Last(revisions).seals, update[o])
        BY <2>3, <3>1, Facts, MatchesTransitive
      <3> QED BY <1>0, <2>3, <3>1, <3>2, ReturnKeeps
    <2> QED BY <2>1, <2>2, <2>3
  <1> QED BY <1>1, <1>2

\* What _append writes follows the state that was read, in phase and in seals.
LEMMA NextStateFollows ==
    ASSUME IndInv, NEW o \in Operators, pc[o] = "append_link"
    PROVE  /\ NextState(o) \in State
           /\ WellSealed(NextState(o).phase, NextState(o).seals)
           /\ <<seen[o].phase, NextState(o).phase>> \in Follows
           /\ Matches(NextState(o).seals, seen[o].seals)
           /\ Matches(NextState(o).seals, update[o])
           /\ NextState(o).phase \in Terminal => trusted = NextState(o).seals.receipt
  <1> DEFINE s == NextState(o).seals
             u == update[o]
             k == seen[o].seals
  <1>1. Pending(o) /\ WellSealed(seen[o].phase, k) /\ u \in Seals /\ k \in Seals
        /\ seen[o].phase \in Phase
    BY Facts, SeenRecorded DEF SeenOK, Deciding, Appending
  <1>2. s \in Seals
        /\ s.manifest = (IF u.manifest = Nothing THEN k.manifest ELSE u.manifest)
        /\ s.job = (IF u.job = Nothing THEN k.job ELSE u.job)
        /\ s.drafts = (IF u.drafts = Nothing THEN k.drafts ELSE u.drafts)
        /\ s.receipt = (IF u.receipt = Nothing THEN k.receipt ELSE u.receipt)
    BY <1>1 DEF NextState, Seals, SealNames
  <1>3. NextState(o).phase = TargetPhase(o)
    BY DEF NextState
  <1>4. NextState(o) = [phase |-> TargetPhase(o), seals |-> s]
    BY DEF NextState
  <1>5. CASE call[o].method = "record_prepared"
    <2>1. u = [NoSeals EXCEPT !.job = call[o].arg] /\ call[o].arg \in Jobs
      BY <1>5, Facts DEF UpdateOK, PlaceOK, Deciding, Appending
    <2>2. u.job \in Jobs /\ u.manifest = Nothing /\ u.drafts = Nothing /\ u.receipt = Nothing
      BY <2>1 DEF NoSeals
    <2>3. seen[o].phase = "prepare_pending" /\ TargetPhase(o) = "awaiting_draft"
      BY <1>1, <1>5 DEF Pending, TargetPhase
    <2>4. s.job = u.job /\ s.manifest = k.manifest /\ s.drafts = k.drafts /\ s.receipt = k.receipt
          /\ k.job = Nothing /\ k.drafts = Nothing /\ k.receipt = Nothing
      BY <1>1, <1>2, <2>2, <2>3, StoreConfiguration DEF WellSealed, Terminal, StoreConfiguration
    <2>5. Matches(s, k) /\ Matches(s, u)
      BY <1>1, <1>2, <2>2, <2>4, MatchesFields
    <2>6. WellSealed(TargetPhase(o), s)
      BY <2>2, <2>3, <2>4 DEF WellSealed, Terminal
    <2> QED BY <1>2, <1>3, <1>4, <2>3, <2>5, <2>6 DEF State, Phase, Follows, Terminal
  <1>6. CASE call[o].method = "record_draft_ready"
    <2>1. PICK d \in Drafts : u = [NoSeals EXCEPT !.drafts = d]
      BY <1>6, Facts DEF UpdateOK, Deciding, Appending
    <2>2. u.drafts \in Drafts /\ u.manifest = Nothing /\ u.job = Nothing /\ u.receipt = Nothing
      BY <2>1 DEF NoSeals
    <2>3. seen[o].phase = "awaiting_draft" /\ TargetPhase(o) = "finalize_pending"
      BY <1>1, <1>6 DEF Pending, TargetPhase
    <2>4. s.drafts = u.drafts /\ s.manifest = k.manifest /\ s.job = k.job /\ s.receipt = k.receipt
          /\ k.job \in Jobs /\ k.drafts = Nothing /\ k.receipt = Nothing
      BY <1>1, <1>2, <2>2, <2>3, StoreConfiguration DEF WellSealed, Terminal, StoreConfiguration
    <2>5. Matches(s, k) /\ Matches(s, u)
      BY <1>1, <1>2, <2>2, <2>4, MatchesFields
    <2>6. WellSealed(TargetPhase(o), s)
      BY <2>2, <2>3, <2>4 DEF WellSealed, Terminal
    <2> QED BY <1>2, <1>3, <1>4, <2>3, <2>5, <2>6 DEF State, Phase, Follows, Terminal
  <1>7. CASE call[o].method = "record_finalized"
    <2>1. PICK r \in Receipt : u = [NoSeals EXCEPT !.receipt = r]
      BY <1>7, Facts DEF UpdateOK, Deciding, Appending
    <2>2. u.receipt = r /\ u.manifest = Nothing /\ u.job = Nothing /\ u.drafts = Nothing
      BY <2>1 DEF NoSeals
    <2>3. r \in Receipt /\ r.job = k.job /\ r.drafts = k.drafts /\ trusted = r
      BY <1>7, <2>2, Facts DEF SeenOK, TrustOK, Deciding, Appending
    <2>4. seen[o].phase = "finalize_pending"
      BY <1>1, <1>7, Facts DEF Pending, SeenOK, Deciding, Appending, Phase, Terminal
    <2>5. TargetPhase(o) = r.status /\ r.status \in Terminal
      BY <1>7, <2>2 DEF TargetPhase, Receipt
    <2>6. Nothing \notin Receipt
      BY StoreConfiguration DEF StoreConfiguration, Receipt, Terminal
    <2>7. s.receipt = r /\ s.manifest = k.manifest /\ s.job = k.job /\ s.drafts = k.drafts
          /\ k.job \in Jobs /\ k.drafts \in Drafts /\ k.receipt = Nothing
      BY <1>1, <1>2, <2>2, <2>4, <2>6 DEF WellSealed, Terminal
    <2>8. Matches(s, k) /\ Matches(s, u)
      BY <1>1, <1>2, <2>2, <2>7, MatchesFields
    <2>9. WellSealed(TargetPhase(o), s)
      BY <2>3, <2>5, <2>7 DEF WellSealed, Terminal
    <2> QED BY <1>2, <1>3, <1>4, <2>3, <2>4, <2>5, <2>7, <2>8, <2>9
            DEF State, Phase, Follows, Terminal
  <1>8. call[o].method \in {"record_prepared", "record_draft_ready", "record_finalized"}
    BY Facts DEF UpdateOK, Deciding, Appending
  <1> QED BY <1>5, <1>6, <1>7, <1>8

\* The chain with one more revision that follows the last one.
LEMMA AppendChain ==
    ASSUME TypeOK, ChainOK, revisions # <<>>, NEW x \in State, trusted' = trusted,
           revisions' = Append(revisions, x),
           WellSealed(x.phase, x.seals), Matches(x.seals, Last(revisions).seals),
           <<Last(revisions).phase, x.phase>> \in Follows,
           x.phase \in Terminal => trusted = x.seals.receipt
    PROVE  ChainOK' /\ Grows
  <1> DEFINE n == Len(revisions)
  <1>1. /\ revisions \in Seq(State) /\ n \in Nat /\ n >= 1
        /\ Last(revisions) = revisions[n] /\ Last(revisions).seals \in Seals
        /\ Last(revisions') = x /\ Len(revisions') = n + 1
        /\ revisions' # <<>>
        /\ \A i \in 1..n : revisions'[i] = revisions[i]
        /\ revisions'[n + 1] = x
    BY LastRevision, AppendRevision DEF TypeOK
  <1>2. x.seals \in Seals /\ \A i \in 1..n : revisions[i].seals \in Seals
    <2>1. \A y \in State : y.seals \in Seals
      BY DEF State
    <2>2. \A i \in 1..n : revisions[i] \in State
      BY <1>1
    <2> QED BY <2>1, <2>2
  <1>3. \A i \in 1..(n + 1) : WellSealed(revisions'[i].phase, revisions'[i].seals)
    BY <1>1 DEF ChainOK
  <1>4. \A i, j \in 1..(n + 1) : i <= j => Matches(revisions'[j].seals, revisions'[i].seals)
    <2>1. SUFFICES ASSUME NEW i \in 1..(n + 1), NEW j \in 1..(n + 1), i <= j
                   PROVE  Matches(revisions'[j].seals, revisions'[i].seals)
      OBVIOUS
    <2>2. CASE j \in 1..n
      BY <1>1, <2>1, <2>2 DEF ChainOK
    <2>3. CASE j = n + 1 /\ i \in 1..n
      <3>1. Matches(revisions[n].seals, revisions[i].seals)
        BY <1>1, <2>3 DEF ChainOK
      <3> QED BY <1>1, <1>2, <2>3, <3>1, MatchesTransitive
    <2>4. CASE j = n + 1 /\ i = n + 1
      BY <1>1, <1>2, <2>4, MatchesReflexive
    <2> QED BY <1>1, <2>1, <2>2, <2>3, <2>4
  <1>5. revisions'[1].phase = "prepare_pending"
    BY <1>1 DEF ChainOK
  <1>6. \A i \in 1..n : <<revisions'[i].phase, revisions'[i + 1].phase>> \in Follows
    <2>1. SUFFICES ASSUME NEW i \in 1..n
                   PROVE  <<revisions'[i].phase, revisions'[i + 1].phase>> \in Follows
      OBVIOUS
    <2>2. CASE i = n
      BY <1>1, <2>2
    <2>3. CASE i \in 1..(n - 1)
      <3>1. i \in 1..n /\ i + 1 \in 1..n
        BY <1>1, <2>3
      <3>2. revisions'[i] = revisions[i] /\ revisions'[i + 1] = revisions[i + 1]
        BY <1>1, <3>1
      <3>3. <<revisions[i].phase, revisions[i + 1].phase>> \in Follows
        BY <2>3 DEF ChainOK
      <3> QED BY <3>2, <3>3
    <2>4. i = n \/ i \in 1..(n - 1)
      BY <1>1
    <2> QED BY <2>2, <2>3, <2>4
  <1>7. ChainOK'
    BY <1>1, <1>3, <1>4, <1>5, <1>6 DEF ChainOK
  <1> QED BY <1>1, <1>7 DEF Grows

\* The winner of the link adds its revision; the loser goes on to compare.
LEMMA LinkRevisionKeeps ==
    ASSUME IndInv, NEW o \in Operators, LinkRevision(o)
    PROVE  IndInv'
  <1>0. /\ pc[o] = "append_link"
        /\ UNCHANGED <<trusted, litter, topLitter, handoff, local, acks, crashes>>
    BY DEF LinkRevision
  <1>1. /\ revisions # <<>> /\ revisions \in Seq(State) /\ Last(revisions).seals \in Seals
        /\ Last(revisions) = revisions[Len(revisions)]
    BY <1>0, SeenRecorded, LastRevision DEF Deciding, Appending
  <1>2. CASE Len(revisions) = seen[o].revision + 1
    <2> DEFINE x == NextState(o)
    <2>1. revisions' = Append(revisions, x) /\ Goto(o, "append_won")
      BY <1>2 DEF LinkRevision
    <2>2. /\ x \in State /\ WellSealed(x.phase, x.seals)
          /\ <<seen[o].phase, x.phase>> \in Follows
          /\ Matches(x.seals, seen[o].seals) /\ Matches(x.seals, update[o])
          /\ x.phase \in Terminal => trusted = x.seals.receipt
      BY <1>0, NextStateFollows
    <2>3. Last(revisions) = [phase |-> seen[o].phase, seals |-> seen[o].seals]
      BY <1>0, <1>1, <1>2, Facts DEF SeenOK, Deciding, Appending
    <2>4. ChainOK' /\ Grows
      <3>1. Last(revisions).phase = seen[o].phase /\ Last(revisions).seals = seen[o].seals
        BY <2>3
      <3> QED BY <1>0, <1>1, <2>1, <2>2, <3>1, Facts, AppendChain
    <2>5. Last(revisions') = x /\ revisions' # <<>> /\ revisions' \in Seq(State)
      BY <1>1, <2>1, <2>2, AppendRevision
    <2>6. TypeOK' /\ Alone(o) /\ pc'[o] = "append_won"
      BY <1>0, <2>1, <2>5, Facts DEF TypeOK, Goto, Alone, Steps, local, handoff
    <2>7. LocalOK(o)'
      <3>1. PlaceOK(o)' /\ UpdateOK(o)' /\ TrustOK(o)'
        BY <1>0, <2>2, <2>5, <2>6, Facts DEF PlaceOK, UpdateOK, TrustOK, Deciding, Copying, Appending,
           local
      <3>2. SeenOK(o)'
        <4> DEFINE k == seen[o].revision + 1
        <4>1. k \in 1..Len(revisions) /\ k \in 1..Len(revisions') /\ revisions'[k] = revisions[k]
          BY <1>0, <1>1, <1>2, <2>1, <2>2, Facts, AppendRevision DEF SeenOK, Deciding, Appending
        <4>2. Pending(o)' <=> Pending(o)
          BY <1>0 DEF Pending, local
        <4> QED BY <1>0, <2>6, <4>1, <4>2, Facts DEF SeenOK, Deciding, Copying, Appending, local
      <3> QED BY <3>1, <3>2 DEF LocalOK
    <2>8. AcknowledgedIsRecorded'
      <3>1. SUFFICES ASSUME NEW a \in acks PROVE Matches(Last(revisions').seals, a)
        BY <1>0, <2>5 DEF AcknowledgedIsRecorded
      <3>2. Matches(Last(revisions).seals, a) /\ a \in Seals
        BY Facts DEF IndInv, AcknowledgedIsRecorded, TypeOK
      <3>3. Last(revisions').seals \in Seals
        BY <2>5, LastRevision
      <3> QED BY <1>1, <2>4, <3>2, <3>3, MatchesTransitive DEF Grows
    <2>9. LitterOK' /\ ReceiptsNamed'
      BY <1>0, <2>6, Facts DEF LitterOK, ReceiptsNamed, Alone, TypeOK, handoff
    <2> QED BY <2>4, <2>6, <2>7, <2>8, <2>9, StepKeeps
  <1>3. CASE Len(revisions) # seen[o].revision + 1
    <2>1. Goto(o, "append_lost") /\ revisions' = revisions
      BY <1>3 DEF LinkRevision
    <2>2. TypeOK' /\ Alone(o) /\ pc'[o] = "append_lost"
      BY <1>0, <2>1, Facts DEF TypeOK, Goto, Alone, Steps, local, handoff
    <2>3. LocalOK(o)'
      BY ZenonT(40), <1>0, <2>1, <2>2, Facts DEF LocalOK, PlaceOK, UpdateOK, SeenOK, TrustOK, Pending,
         Reading, Deciding, Copying, Appending, local
    <2>4. LitterOK'
      BY <1>0, <2>2, Facts DEF LitterOK, Alone, TypeOK
    <2> QED BY <1>0, <2>1, <2>2, <2>3, <2>4, MoveKeeps DEF handoff
  <1> QED BY <1>2, <1>3

LEMMA UnlinkRevisionKeeps ==
    ASSUME IndInv, NEW o \in Operators, UnlinkRevision(o)
    PROVE  IndInv'
  <1>0. /\ pc[o] \in {"append_won", "append_lost"} /\ litter' = litter \ {o}
        /\ UNCHANGED <<revisions, trusted, topLitter, handoff, call, seen, update, acks, crashes>>
        /\ Resume(o, IF pc[o] = "append_won" THEN "reread" ELSE "winner")
    BY DEF UnlinkRevision
  <1>1. /\ pc'[o] = "list" /\ stage'[o] = (IF pc[o] = "append_won" THEN "reread" ELSE "winner")
        /\ TypeOK' /\ Alone(o)
    BY <1>0, Facts DEF Resume, Goto, TypeOK, Alone, Steps, Stages, handoff
  <1>2. LocalOK(o)'
    BY ZenonT(40), <1>0, <1>1, Facts DEF LocalOK, PlaceOK, UpdateOK, SeenOK, TrustOK, Reading,
       Deciding, Copying, Appending
  <1>3. LitterOK'
    BY <1>0, <1>1, Facts DEF LitterOK, Alone, TypeOK
  <1> QED BY <1>0, <1>1, <1>2, <1>3, MoveKeeps DEF handoff

LEMMA FailureKeeps ==
    ASSUME IndInv, NEW o \in Operators, ClockWentBack(o) \/ PublishFails(o) \/ Crash(o)
    PROVE  IndInv'
  <1>1. CASE ClockWentBack(o)
    BY <1>1, RaiseKeeps DEF ClockWentBack
  <1>2. CASE PublishFails(o)
    <2>1. Exit(o) /\ acks' = acks
      BY <1>2 DEF PublishFails, Raise
    <2>2. crashes \in 0..MaxCrashes /\ acks \subseteq Seals
      BY Facts DEF TypeOK
    <2> QED BY <1>2, <2>1, <2>2, ExitKeeps DEF PublishFails, handoff
  <1>3. CASE Crash(o)
    <2>1. Exit(o) /\ acks' = acks /\ crashes' = crashes + 1 /\ UNCHANGED <<store, handoff>>
      BY <1>3 DEF Crash, Raise
    <2>2. /\ acks \subseteq Seals /\ crashes' \in 0..MaxCrashes /\ crashes <= crashes' /\ crashes' # 0
      BY <1>3, Facts, StoreConfiguration DEF Crash, TypeOK, StoreConfiguration
    <2> QED BY <2>1, <2>2, ExitKeeps DEF store, handoff
  <1> QED BY <1>1, <1>2, <1>3

\* The draft writer, finalize and retry touch the handoff only.
LEMMA OutsideKeeps ==
    ASSUME IndInv, NEW j \in Jobs, Outside(j)
    PROVE  IndInv'
  <1>0. UNCHANGED <<store, pc, local, acks, crashes>>
    BY DEF Outside, WriteDrafts, PublishReceipt, RetryHandoff
  <1>1. /\ drafts' \in [Jobs -> Drafts \cup {Nothing}]
        /\ receipt' \in [Jobs -> Receipt \cup {Nothing}]
        /\ ReceiptsNamed'
    <2>1. ASSUME NEW d \in Drafts, WriteDrafts(j, d)
          PROVE  drafts' \in [Jobs -> Drafts \cup {Nothing}] /\ receipt' = receipt
      BY <2>1 DEF WriteDrafts, IndInv, TypeOK
    <2>2. ASSUME NEW status \in Terminal, PublishReceipt(j, status)
          PROVE  drafts' = drafts /\ receipt' \in [Jobs -> Receipt \cup {Nothing}] /\ ReceiptsNamed'
      <3>1. [status |-> status, job |-> j, drafts |-> drafts[j]] \in Receipt
        BY <2>2 DEF PublishReceipt, IndInv, TypeOK, Receipt
      <3> QED BY <2>2, <3>1 DEF PublishReceipt, IndInv, TypeOK, ReceiptsNamed
    <2>3. ASSUME RetryHandoff(j)
          PROVE  /\ drafts' \in [Jobs -> Drafts \cup {Nothing}]
                 /\ receipt' \in [Jobs -> Receipt \cup {Nothing}]
                 /\ ReceiptsNamed'
      BY <2>3 DEF RetryHandoff, IndInv, TypeOK, ReceiptsNamed
    <2> QED BY <2>1, <2>2, <2>3 DEF Outside, IndInv, TypeOK, ReceiptsNamed
  <1>2. TypeOK' /\ ChainOK' /\ AcknowledgedIsRecorded' /\ LitterOK'
    BY <1>0, <1>1 DEF IndInv, TypeOK, ChainOK, AcknowledgedIsRecorded, LitterOK, store, local
  <1>3. Grows
    BY <1>0, SameStoreGrows DEF IndInv, store
  <1>4. \A o \in Operators : LocalOK(o)'
    BY <1>0, <1>2, <1>3, OthersKeep DEF IndInv, local
  <1> QED BY <1>1, <1>2, <1>4 DEF IndInv

-----------------------------------------------------------------------------
(* The theorems.                                                           *)

LEMMA InitInv == Init => IndInv
  <1> SUFFICES ASSUME Init PROVE IndInv
    OBVIOUS
  <1>1. NoSeals \in Seals
    BY DEF NoSeals, Seals
  <1>2. Unread \in [revision : Nat, phase : Phase, seals : Seals]
    BY <1>1 DEF Unread, Phase
  <1>3. NoCall \in [method : Methods, arg : Jobs \cup Manifests \cup {Nothing}]
    BY DEF NoCall, Methods
  <1>4. TypeOK
    BY <1>1, <1>2, <1>3, StoreConfiguration DEF Init, TypeOK, Steps, Stages, StoreConfiguration
  <1>5. ChainOK /\ ReceiptsNamed /\ AcknowledgedIsRecorded /\ LitterOK
    BY DEF Init, ChainOK, ReceiptsNamed, AcknowledgedIsRecorded, LitterOK
  <1>6. \A o \in Operators : LocalOK(o)
    BY DEF Init, LocalOK, PlaceOK, UpdateOK, SeenOK, TrustOK, NoCall, Reading, Deciding, Copying,
       Appending
  <1> QED BY <1>4, <1>5, <1>6 DEF IndInv

LEMMA StutterInv == IndInv /\ UNCHANGED vars => IndInv'
  <1> SUFFICES ASSUME IndInv, UNCHANGED vars PROVE IndInv'
    OBVIOUS
  <1>1. TypeOK' /\ ChainOK' /\ ReceiptsNamed' /\ AcknowledgedIsRecorded' /\ LitterOK'
    BY DEF vars, IndInv, TypeOK, ChainOK, ReceiptsNamed, AcknowledgedIsRecorded, LitterOK
  <1>2. \A o \in Operators : LocalOK(o)'
    BY <1>1, OthersKeep, SameStoreGrows DEF vars, IndInv
  <1> QED BY <1>1, <1>2 DEF IndInv

LEMMA NextInv == IndInv /\ [Next]_vars => IndInv'
  <1> SUFFICES ASSUME IndInv, [Next]_vars PROVE IndInv'
    OBVIOUS
  <1>1. ASSUME NEW o \in Operators, Step(o) PROVE IndInv'
    BY <1>1, RenameKeeps, ListKeeps, ReadChainKeeps, RequestKeeps, ReadDraftsKeeps,
       ReadReceiptKeeps, StageKeeps, LinkCopyKeeps, UnlinkCopyKeeps, DecideKeeps,
       LinkRevisionKeeps, UnlinkRevisionKeeps, FailureKeeps DEF Step
  <1> QED BY <1>1, CallKeeps, OutsideKeeps, StutterInv DEF Next

\* The invariant above holds of every execution of the store.
THEOREM Invariance == Spec => []IndInv
  BY InitInv, NextInv, PTL DEF Spec

\* Every variable keeps its type; in particular what _append writes is a state,
\* whatever method and whatever handoff it comes from.
THEOREM TypeCorrect == Spec => []TypeOK
  <1>1. IndInv => TypeOK
    BY DEF IndInv
  <1> QED BY <1>1, Invariance, PTL

\* The chain on disk always passes _verify_state_revision, and its terminal revision
\* has the trusted receipt it seals beside it, about its own handoff and drafts.
THEOREM ChainIsTrusted == Spec => []ChainTrusted
  <1>1. IndInv => ChainTrusted
    <2> SUFFICES ASSUME IndInv PROVE ChainTrusted
      OBVIOUS
    <2>1. ChainVerifies
      <3>1. \A i \in 1..(Len(revisions) - 1) : i \in 1..Len(revisions) /\ i + 1 \in 1..Len(revisions)
                                               /\ i <= i + 1
        BY DEF IndInv, TypeOK
      <3> QED BY <3>1 DEF IndInv, ChainOK, ChainVerifies
    <2>2. TerminalReceiptTrusted
      <3>1. SUFFICES ASSUME revisions # <<>>, Last(revisions).phase \in Terminal
                     PROVE  /\ trusted = Last(revisions).seals.receipt
                            /\ trusted.status = Last(revisions).phase
                            /\ trusted.job = Last(revisions).seals.job
                            /\ trusted.drafts = Last(revisions).seals.drafts
        BY DEF TerminalReceiptTrusted
      <3>2. WellSealed(Last(revisions).phase, Last(revisions).seals)
        BY <3>1, LastRevision DEF IndInv, TypeOK, ChainOK
      <3> QED BY <3>1, <3>2 DEF IndInv, ChainOK, WellSealed
    <2> QED BY <2>1, <2>2 DEF ChainTrusted
  <1> QED BY <1>1, Invariance, PTL

\* What a method that returned has asked for stays in the chain for good, whichever
\* operator's link won.
THEOREM AcknowledgementsStand == Spec => []AcknowledgedIsRecorded
  <1>1. IndInv => AcknowledgedIsRecorded
    BY DEF IndInv
  <1> QED BY <1>1, Invariance, PTL

\* As long as no operator is killed, resume() accepts the directory whenever no
\* method is running, however many publications failed.
THEOREM QuietIsResumable == Spec => []ResumableWhenQuiet
  <1>1. IndInv => ResumableWhenQuiet
    <2> SUFFICES ASSUME IndInv, crashes = 0, revisions # <<>>,
                        \A o \in Operators : pc[o] = "idle"
                 PROVE  litter = {} /\ topLitter = {} /\ Believable(Last(revisions))
      BY DEF ResumableWhenQuiet
    <2>1. litter = {} /\ topLitter = {}
      BY DEF IndInv, LitterOK, TypeOK
    <2>2. Believable(Last(revisions))
      BY DEF Believable, IndInv, ChainOK
    <2> QED BY <2>1, <2>2
  <1> QED BY <1>1, Invariance, PTL
=============================================================================
