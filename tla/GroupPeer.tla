----------------------------- MODULE GroupPeer ------------------------------
(***************************************************************************)
(* Messages between two Members of a group beside the authority            *)
(* (proto/group_peer.py), and what their replay bundles prove of them      *)
(* (proto/replay.py).  The context of a Member is the newest authority     *)
(* record it has applied; the Leader signs a directory of routes for each  *)
(* context.  Member "a" sends what another process has queued, Member "b"  *)
(* receives; both may restart, and the network loses connections.          *)
(***************************************************************************)
EXTENDS Integers, Sequences, FiniteSets

CONSTANTS
    MaxSeq,       \* bound: records of the authority
    MaxQueued,    \* bound: messages queued
    MaxRestarts,  \* bound: restarts in all
    MaxAttempts,  \* MAX_PEER_ACTION_ATTEMPTS (three in the code)
    None

Members == {"a", "b"}

VARIABLES
    authority,   \* [seq, ticket]: the newest record, and b's ticket by its advertisement
    link,        \* per Member: frames and directories on the way to it
    context,     \* per Member: the record it has applied, or -1
    directory,   \* a's routes in memory: [seq, ticket] or None
    saved,       \* group-peer-directory.json
    queue,       \* group-peer-actions.jsonl: [id, seq]
    outbox,      \* group-peer-outbox.json: [offset, pending, attempts]
    flight,      \* a's connection: the message that is sent, and where it is
    ticket,      \* of b's listener
    sentAt,      \* clock: two messages never carry the same sent_at
    evidence,    \* per Member: its log, which a restart reads again
    fate,        \* per message: how the outbox ended it
    restarts

peers == <<authority, link, context, directory, saved, queue, outbox, flight, ticket, sentAt, evidence, fate, restarts>>

Idle == [at |-> "idle"]
Directory == [kind |-> "directory", seq |-> authority.seq, ticket |-> authority.ticket]

Init ==
    /\ authority = [seq |-> 0, ticket |-> 0]
    /\ link = [m \in Members |-> <<Directory>>]
    /\ context = [m \in Members |-> 0]
    /\ directory = None /\ saved = None
    /\ queue = <<>> /\ outbox = [offset |-> 0, pending |-> None, attempts |-> 0]
    /\ flight = Idle /\ ticket = 0 /\ sentAt = 0
    /\ evidence = [m \in Members |-> <<>>] /\ fate = <<>> /\ restarts = 0
-----------------------------------------------------------------------------
(* The authority: a record goes to both, and then the directories for it     *)
(* (_publish_peer_directories_unlocked, under the lock of the broadcast)     *)
Published(record, joined) ==
    [m \in Members |-> IF m \notin joined THEN <<>> ELSE link[m] \o
        (IF record.seq > authority.seq THEN <<[kind |-> "frame", seq |-> record.seq]>> ELSE <<>>)
        \o <<[kind |-> "directory", seq |-> record.seq, ticket |-> record.ticket]>>]
Joined == {m \in Members : context[m] # -1}
Advance ==
    /\ authority.seq < MaxSeq
    /\ authority' = [authority EXCEPT !.seq = @ + 1]
    /\ link' = Published(authority', Joined)
    /\ UNCHANGED <<context, directory, saved, queue, outbox, flight, ticket, sentAt, evidence, fate, restarts>>

(* update_context and install_directory, as the Member reads its channel     *)
Applied(m) ==
    /\ link[m] # <<>> /\ Head(link[m]).kind = "frame"
    /\ context' = [context EXCEPT ![m] = Head(link[m]).seq]
    /\ directory' = IF m = "a" THEN None ELSE directory
    /\ link' = [link EXCEPT ![m] = Tail(@)]
    /\ UNCHANGED <<authority, saved, queue, outbox, flight, ticket, sentAt, evidence, fate, restarts>>
(* verify_peer_directory: of the very record the Member has applied          *)
InContext(m, received) == received.seq = context[m]
Installed(m) ==
    /\ link[m] # <<>> /\ Head(link[m]).kind = "directory" /\ InContext(m, Head(link[m]))
    /\ directory' = IF m = "a" THEN Head(link[m]) ELSE directory
    /\ saved' = IF m = "a" THEN Head(link[m]) ELSE saved
    /\ link' = [link EXCEPT ![m] = Tail(@)]
    /\ UNCHANGED <<authority, context, queue, outbox, flight, ticket, sentAt, evidence, fate, restarts>>

(* A restart: a new listener, no context; the logs and the outbox are read   *)
Restart(m) ==
    /\ restarts < MaxRestarts /\ restarts' = restarts + 1
    /\ context' = [context EXCEPT ![m] = -1]
    /\ link' = [link EXCEPT ![m] = <<>>]
    /\ flight' = IF m = "a" \/ flight.at = "received" THEN Idle ELSE flight
    /\ IF m = "a" THEN directory' = None /\ UNCHANGED ticket
                  ELSE ticket' = ticket + 1 /\ UNCHANGED directory
    /\ UNCHANGED <<authority, saved, queue, outbox, sentAt, evidence, fate>>
(* the Member is admitted again: the snapshot; its advertisement is          *)
(* published to all                                                          *)
Rejoin(m) ==
    /\ context[m] = -1
    /\ context' = [context EXCEPT ![m] = authority.seq]
    /\ authority' = [authority EXCEPT !.ticket = IF m = "b" THEN ticket ELSE @]
    /\ link' = Published(authority', Joined \union {m})
    /\ UNCHANGED <<directory, saved, queue, outbox, flight, ticket, sentAt, evidence, fate, restarts>>
-----------------------------------------------------------------------------
(* queue_peer_action, in another process, by the directory that is saved     *)
Queue ==
    /\ saved # None /\ Len(queue) < MaxQueued
    /\ queue' = Append(queue, [id |-> Len(queue) + 1, seq |-> saved.seq])
    /\ fate' = Append(fate, "queued")
    /\ UNCHANGED <<authority, link, context, directory, saved, outbox, flight, ticket, sentAt, evidence, restarts>>

(* _outbox_loop                                                              *)
Prepare ==
    /\ flight = Idle /\ outbox.pending = None /\ outbox.offset < Len(queue)
    /\ outbox' = [outbox EXCEPT !.pending = queue[outbox.offset + 1], !.attempts = 0]
    /\ UNCHANGED <<authority, link, context, directory, saved, queue, flight, ticket, sentAt, evidence, fate, restarts>>
Finished(how) ==
    /\ outbox' = [offset |-> outbox.offset + 1, pending |-> None, attempts |-> 0]
    /\ fate' = [fate EXCEPT ![outbox.pending.id] = how]
MutantCurrent == TRUE
Current == outbox.pending.seq = context["a"]
Expire ==
    /\ flight = Idle /\ outbox.pending # None /\ ~Current
    /\ Finished("expired")
    /\ UNCHANGED <<authority, link, context, directory, saved, queue, flight, ticket, sentAt, evidence, restarts>>
(* build_peer_message: the grant is that of the directory in memory          *)
Message ==
    [id |-> outbox.pending.id, seq |-> context["a"], ticket |-> directory.ticket, sentAt |-> sentAt]
(* _send_pending: the message is built and signed, then a connection awaited *)
Send ==
    /\ flight = Idle /\ outbox.pending # None /\ Current /\ directory # None
    /\ flight' = [at |-> "sent", status |-> None, message |-> Message]
    /\ sentAt' = sentAt + 1
    /\ UNCHANGED <<authority, link, context, directory, saved, queue, outbox, ticket, evidence, fate, restarts>>
(* no connection, no receipt in time, or the other end has closed           *)
Fail ==
    /\ flight.at \in {"sent", "received", "refused"}
    /\ IF outbox.attempts + 1 >= MaxAttempts THEN Finished("failed")
       ELSE outbox' = [outbox EXCEPT !.attempts = @ + 1] /\ UNCHANGED fate
    /\ flight' = Idle
    /\ UNCHANGED <<authority, link, context, directory, saved, queue, ticket, sentAt, evidence, restarts>>

(* _handle_incoming: the message and its grant must be of b's context and    *)
(* b's ticket, and an id that was received before carry the same envelope    *)
Received(id) == {i \in DOMAIN evidence["b"] : evidence["b"][i].message.id = id}
MutantAcceptable(message) == message.seq = context["b"] /\ message.ticket = ticket
Acceptable(message) ==
    /\ message.seq = context["b"] /\ message.ticket = ticket
    /\ \A i \in Received(message.id) : evidence["b"][i].message = message
(* PeerEvidenceLog.append: in the context the Member is in by now            *)
Appended(m, way, other) ==
    [evidence EXCEPT ![m] =
        Append(@, [direction |-> way, seq |-> context[m], peer |-> other, message |-> flight.message])]
Handle ==
    /\ flight.at = "sent" /\ context["b"] # -1
    /\ IF Acceptable(flight.message)
       THEN LET known == \E i \in Received(flight.message.id) : evidence["b"][i].message = flight.message IN
            /\ flight' = [flight EXCEPT !.at = "received", !.status = IF known THEN "duplicate" ELSE "accepted"]
            /\ evidence' = IF known THEN evidence ELSE Appended("b", "received", "a")
       ELSE flight' = [flight EXCEPT !.at = "refused"] /\ UNCHANGED evidence
    /\ UNCHANGED <<authority, link, context, directory, saved, queue, outbox, ticket, sentAt, fate, restarts>>

(* the receipt: the record of it carries a's context as it is by now         *)
Receipt == flight.at = "received"
Record ==
    /\ Receipt
    /\ evidence' = Appended("a", "sent", "b")
    /\ flight' = [flight EXCEPT !.at = "recorded"]
    /\ UNCHANGED <<authority, link, context, directory, saved, queue, outbox, ticket, sentAt, fate, restarts>>
Sent ==
    /\ flight.at = "recorded" /\ Finished("sent") /\ flight' = Idle
    /\ UNCHANGED <<authority, link, context, directory, saved, queue, ticket, sentAt, evidence, restarts>>

Next ==
    \/ Advance \/ Queue \/ Prepare \/ Expire \/ Send \/ Fail \/ Handle \/ Record \/ Sent
    \/ \E m \in Members : Applied(m) \/ Installed(m) \/ Restart(m) \/ Rejoin(m)
Spec == Init /\ [][Next]_peers
-----------------------------------------------------------------------------
(* reconcile_replay_bundles, over the peer index of both bundles             *)
Observed(id) ==
    UNION {{[by |-> m, record |-> evidence[m][i]] : i \in {k \in DOMAIN evidence[m] : evidence[m][k].message.id = id}}
           : m \in Members}
Matches(all) ==
    \E s, r \in all : /\ s.record.direction = "sent" /\ r.record.direction = "received"
                      /\ s.by = r.record.peer /\ r.by = s.record.peer
Conflict(id) ==
    LET all == Observed(id) IN
    \/ Cardinality({o.record.message : o \in all}) > 1
    \/ {"sent", "received"} \subseteq {o.record.direction : o \in all} /\ ~Matches(all)

(* _validate_participant_peer_evidence: a record is about its own message    *)
Verifies(m) == \A i \in DOMAIN evidence[m] : evidence[m][i].seq = evidence[m][i].message.seq

(* Contexts are records of the authority, the outbox is within its file.     *)
TypeOK ==
    /\ \A m \in Members : context[m] \in -1..authority.seq
    /\ outbox.offset \in 0..Len(queue) /\ outbox.attempts \in 0..(MaxAttempts - 1)
    /\ flight.at \in {"idle", "sent", "received", "refused", "recorded"}
    /\ outbox.pending = None => flight = Idle

(* The bundles of two honest Members never contradict each other, whatever   *)
(* was lost, retried or restarted between them, and what a Member says it    *)
(* has sent the other has recorded.                                          *)
BundlesReconcile ==
    \A id \in 1..Len(queue) :
        /\ ~Conflict(id)
        /\ \A o \in Observed(id) : o.record.direction = "sent" =>
              \E r \in Observed(id) : r.record.direction = "received" /\ r.record.message = o.record.message

(* A message is delivered in the context it was written in, at most once,    *)
(* and what the outbox ends as sent has been received.                       *)
DeliveredInContext ==
    /\ \A i \in DOMAIN evidence["b"] :
        /\ evidence["b"][i].message.seq = queue[evidence["b"][i].message.id].seq
        /\ Cardinality(Received(evidence["b"][i].message.id)) = 1
    /\ \A id \in DOMAIN fate : fate[id] = "sent" => Received(id) # {}

(* An honest Member's own evidence verifies in its participant bundle.       *)
EvidenceVerifies == \A m \in Members : Verifies(m)

(* A message is given up as expired only when the group has moved on.        *)
ExpiredIsStale == \A id \in DOMAIN fate : fate[id] = "expired" => queue[id].seq < authority.seq
=============================================================================
