--------------------------- MODULE OwnerDelivery ---------------------------
(***************************************************************************)
(* publish_premarket_brief and publish_daily_brief: one message to the      *)
(* owner per slot (a forecast session, or a target date), sent under a file *)
(* lock between a look for the slot's marker and the writing of it.  The    *)
(* message service takes the first message of a message_uuid, which is the  *)
(* slot's, and drops the others.                                            *)
(***************************************************************************)
EXTENDS Naturals, FiniteSets

CONSTANTS
  Slots,       \* forecast sessions and target dates that have a message
  Strict,      \* the pre-market slots: a marker for another forecast is an error
  Legacy,      \* the target dates that an old marker, named by forecast, covers
  Posters,     \* publishing processes
  NoBrief

ASSUME DeliveryAssumption ==
  /\ Strict \subseteq Slots /\ Legacy \subseteq Slots \ Strict
  /\ NoBrief \notin Posters

VARIABLES
  marker,      \* marker[s]: the brief the slot's marker file names
  owner,       \* owner[s]: the message the owner has received
  gate,        \* gate[s]: the poster that holds the slot's file lock
  post,        \* post[p]: where a publication is
  broken       \* the slots in which a publication was cut off after its message

deliveryVars == <<marker, owner, gate, post, broken>>

IdlePost == [step |-> "idle", slot |-> NoBrief, brief |-> NoBrief]

DeliveryInit ==
  /\ marker = [s \in Slots |-> NoBrief] /\ owner = [s \in Slots |-> NoBrief]
  /\ gate = [s \in Slots |-> NoBrief]
  /\ post = [p \in Posters |-> IdlePost] /\ broken = {}

\* A publication without its lock.
GateOpenAlways(s) == TRUE

\* flock on the marker's lock file.
GateOpen(s) == gate[s] = NoBrief

\* _legacy_marker_for_target: only the daily brief looks for one.
AlreadyMarked(s) == marker[s] # NoBrief \/ s \in Legacy

\* A publication that gets past the markers.  With one it changes nothing: it
\* answers already_sent, or raises when a strict slot's is of another forecast.
PublishBrief(p, s, b) ==
  /\ post[p].step = "idle" /\ GateOpen(s) /\ ~AlreadyMarked(s)
  /\ gate' = [gate EXCEPT ![s] = p]
  /\ post' = [post EXCEPT ![p] = [step |-> "send", slot |-> s, brief |-> b]]
  /\ UNCHANGED <<marker, owner, broken>>

EndPost(p) ==
  /\ gate' = [s \in Slots |-> IF gate[s] = p THEN NoBrief ELSE gate[s]]
  /\ post' = [post EXCEPT ![p] = IdlePost]

\* The service accepts the message, unless it had one of this uuid.
Received(had, b) == IF had = NoBrief THEN b ELSE had

Send(p) ==
  /\ post[p].step = "send"
  /\ owner' = [owner EXCEPT ![post[p].slot] = Received(@, post[p].brief)]
  /\ post' = [post EXCEPT ![p].step = "mark"]
  /\ UNCHANGED <<marker, gate, broken>>

\* The request fails: before the service has the message, or after.
SendFails(p, arrived) ==
  /\ post[p].step = "send" /\ EndPost(p)
  /\ owner' = IF arrived THEN [owner EXCEPT ![post[p].slot] = Received(@, post[p].brief)] ELSE owner
  /\ broken' = IF arrived THEN broken \cup {post[p].slot} ELSE broken
  /\ UNCHANGED marker

\* _atomic_write refuses to replace a marker, _write_marker replaces it.
WriteMarker(p) ==
  LET s == post[p].slot IN
  /\ post[p].step = "mark" /\ EndPost(p)
  /\ marker' = IF s \in Strict /\ marker[s] # NoBrief THEN marker
               ELSE [marker EXCEPT ![s] = post[p].brief]
  /\ UNCHANGED <<owner, broken>>

KillPoster(p) ==
  /\ post[p].step # "idle" /\ EndPost(p)
  /\ broken' = IF post[p].step = "mark" THEN broken \cup {post[p].slot} ELSE broken
  /\ UNCHANGED <<marker, owner>>

PostStep(p) ==
  \/ Send(p) \/ WriteMarker(p) \/ KillPoster(p)
  \/ \E arrived \in BOOLEAN : SendFails(p, arrived)

\* Whatever is published, by whom and in whatever order.
DeliverySpec ==
  DeliveryInit /\ [][\E p \in Posters : PostStep(p) \/ \E s \in Slots : \E b : PublishBrief(p, s, b)]_deliveryVars

\* A marker says what the owner has: never sent without a message, and, unless a
\* publication was cut off after its message, of the brief that arrived; a date
\* that an old marker covers gets no second message
\* (publish_premarket_brief, publish_daily_brief).
MarkedIsDelivered ==
  /\ \A s \in Slots : marker[s] # NoBrief =>
       owner[s] # NoBrief /\ (s \notin broken => owner[s] = marker[s])
  /\ \A s \in Legacy : owner[s] = NoBrief
=============================================================================
