---------------------------- MODULE GroupFailover ----------------------------
(***************************************************************************)
(* Leader succession of an authoritative_group room: the control-plane     *)
(* record of the room, the GroupAuthority of each Leader, the GroupReplica *)
(* of each Member, the channels between them, the lease heartbeat and the  *)
(* claim race after a lease ran out (agent/group.py, proto/group.py,       *)
(* proto/group_runtime.py, proto/group_control.py).                        *)
(*                                                                         *)
(* The hash chain of certified records is a sequence of entries: equal     *)
(* sequences stand for equal (seq, frame_hash) pairs, so "chains from" is  *)
(* IsPrefix.  A record with n predecessors has seq n; the empty sequence   *)
(* is a replica that holds no checkpoint (GroupReplica.seq is None).  The  *)
(* checkpoint a node would submit is its whole log, certified by the       *)
(* Leader of the last entry.                                               *)
(***************************************************************************)
EXTENDS Naturals, Sequences, SequencesExt

CONSTANTS
    Nodes,      \* the members of the room, the Host included
    Host,       \* the Member that created the room and leads epoch 0
    NoNode,     \* absence of a node
    MaxLen,     \* bound: inputs are accepted while a log is shorter than this
    MaxEpoch,   \* bound: the control plane grants no epoch above this
    MaxFaults   \* bound: crashes, cut channels, stalls and lost replies in all

ASSUME HostAssumption == Host \in Nodes
ASSUME NoNodeAssumption == NoNode \notin Nodes
ASSUME BoundsAssumption == MaxLen \in Nat /\ MaxEpoch \in Nat /\ MaxFaults \in Nat

VARIABLES
    server,   \* control plane: epoch, leader, lease, floor, status
    pc,       \* where the process of a node is
    repEpoch, \* GroupReplica.leader_epoch (GroupAuthority.leader_epoch of a Leader)
    log,      \* certified records up to the checkpoint the node holds
    repl,     \* Leader: length of the checkpoint it advertises as replicated
    renewal,  \* Leader: length carried by the heartbeat in flight (at most one)
    seen,     \* the group snapshot a recovering Member acts on
    link,     \* the Leader whose hub holds the Member's channel, or NoNode
    chan,     \* envelopes sent on that channel and not yet received
    fresh,    \* the Member still waits for the first envelope of the channel
    greet,    \* the Leader registered the channel and owes it the bootstrap
    acks,     \* the latest acknowledgement in flight on the channel (at most one)
    faults    \* faults spent

room   == <<server, faults>>
member == <<link, chan, fresh, greet, acks>>
leader == <<repl, renewal>>
vars   == <<server, pc, repEpoch, log, repl, renewal, seen, link, chan, fresh,
            greet, acks, faults>>

Leading == {"leader", "closing"}
PCs     == {"member", "query", "connect", "claim", "stopped"} \union Leading
Epochs  == 0..MaxEpoch

Entry    == [epoch : Epochs, leader : Nodes, fin : BOOLEAN]
Envelope == [log : Seq(Entry), full : BOOLEAN]

\* Epoch of the certificate on a checkpoint; meaningful when the log is not empty.
CertEpoch(l)  == Last(l).epoch
Certified(l)  == l # <<>>
Completed(l)  == Certified(l) /\ Last(l).fin

\* A node that holds a record of its own leads, or led, the epoch of that record.
Reigned(n)  == Certified(log[n]) /\ Last(log[n]).leader = n
Reigning(n) == pc[n] \in Leading /\ CertEpoch(log[n]) = server.epoch

TypeOK ==
    /\ server \in [epoch : Epochs, leader : Nodes, lease : BOOLEAN,
                   floor : Seq(Entry), status : {"active", "closed"}]
    /\ pc \in [Nodes -> PCs]
    /\ repEpoch \in [Nodes -> Epochs]
    /\ log \in [Nodes -> Seq(Entry)]
    /\ repl \in [Nodes -> Nat]
    /\ renewal \in [Nodes -> SUBSET Nat]
    /\ seen \in [Nodes -> [epoch : Epochs, leader : Nodes]]
    /\ link \in [Nodes -> Nodes \union {NoNode}]
    /\ chan \in [Nodes -> Seq(Envelope)]
    /\ fresh \in [Nodes -> BOOLEAN]
    /\ greet \in [Nodes -> BOOLEAN]
    /\ acks \in [Nodes -> SUBSET Seq(Entry)]
    /\ faults \in 0..MaxFaults

-----------------------------------------------------------------------------
(* The room has started: the Host leads epoch 0, wrote the initial snapshot  *)
(* (seq 0) and sent its bootstrap to the channels of the admitted Members.   *)

Snapshot == <<[epoch |-> 0, leader |-> Host, fin |-> FALSE]>>

Init ==
    /\ server = [epoch |-> 0, leader |-> Host, lease |-> TRUE,
                 floor |-> <<>>, status |-> "active"]
    /\ pc = [n \in Nodes |-> IF n = Host THEN "leader" ELSE "member"]
    /\ repEpoch = [n \in Nodes |-> 0]
    /\ log = [n \in Nodes |-> IF n = Host THEN Snapshot ELSE <<>>]
    /\ repl = [n \in Nodes |-> 0]
    /\ renewal = [n \in Nodes |-> {}]
    /\ seen = [n \in Nodes |-> [epoch |-> 0, leader |-> Host]]
    /\ link = [n \in Nodes |-> IF n = Host THEN NoNode ELSE Host]
    /\ chan = [n \in Nodes |-> IF n = Host THEN <<>>
                               ELSE <<[log |-> Snapshot, full |-> TRUE]>>]
    /\ fresh = [n \in Nodes |-> n # Host]
    /\ greet = [n \in Nodes |-> FALSE]
    /\ acks = [n \in Nodes |-> {}]
    /\ faults = 0

Fault == faults < MaxFaults /\ faults' = faults + 1

\* The channel of m is gone at both ends, with everything in flight on it.
DropLink(m) ==
    /\ link' = [link EXCEPT ![m] = NoNode]
    /\ chan' = [chan EXCEPT ![m] = <<>>]
    /\ fresh' = [fresh EXCEPT ![m] = FALSE]
    /\ greet' = [greet EXCEPT ![m] = FALSE]
    /\ acks' = [acks EXCEPT ![m] = {}]

-----------------------------------------------------------------------------
(* The Leader's authority                                                    *)

\* apply_input and the broadcast of its frame: one record is appended and every
\* greeted channel gets it, as a full checkpoint or (never the completing record)
\* as a delta.  A Leader fenced by the control plane still does this.
AcceptInput(l, fin, full) ==
    /\ pc[l] = "leader"
    /\ ~Completed(log[l])
    /\ Len(log[l]) < MaxLen
    /\ fin => full
    /\ LET new == Append(log[l], [epoch |-> repEpoch[l], leader |-> l, fin |-> fin])
       IN  /\ log' = [log EXCEPT ![l] = new]
           /\ chan' = [m \in Nodes |->
                         IF link[m] = l /\ ~greet[m]
                         THEN Append(chan[m], [log |-> new, full |-> full])
                         ELSE chan[m]]
    /\ pc' = [pc EXCEPT ![l] = IF fin THEN "closing" ELSE "leader"]
    /\ UNCHANGED <<room, leader, repEpoch, seen, link, fresh, greet, acks>>

\* attach_existing sends the self-contained bootstrap of the current record.  The
\* broadcast lock orders it before every later frame of the registered channel.
Bootstrap(l, m) ==
    /\ pc[l] \in Leading
    /\ link[m] = l
    /\ greet[m]
    /\ chan' = [chan EXCEPT ![m] = Append(@, [log |-> log[l], full |-> TRUE])]
    /\ greet' = [greet EXCEPT ![m] = FALSE]
    /\ UNCHANGED <<room, leader, pc, repEpoch, log, seen, link, fresh, acks>>

\* acknowledge: the hub compares the acknowledged hash with its own record at
\* that seq and keeps the newest checkpoint some Member is known to hold.
HandleAck(l, m) ==
    /\ pc[l] = "leader"
    /\ link[m] = l
    /\ \E a \in acks[m] :
         /\ IsPrefix(a, log[l])
         /\ repl' = [repl EXCEPT ![l] = IF Len(a) > @ THEN Len(a) ELSE @]
    /\ acks' = [acks EXCEPT ![m] = {}]
    /\ UNCHANGED <<room, pc, repEpoch, log, renewal, seen, link, chan, fresh, greet>>

-----------------------------------------------------------------------------
(* The Leader's lease                                                        *)

\* What the next heartbeat advertises (replicated_checkpoint, or what the last
\* one advertised while there is none).
Advertised(l) == repl[l]

\* One heartbeat at a time; it carries the checkpoint read before the request.
RenewSend(l) ==
    /\ pc[l] \in Leading
    /\ renewal[l] = {}
    /\ renewal' = [renewal EXCEPT ![l] = {Advertised(l)}]
    /\ UNCHANGED <<room, member, pc, repEpoch, log, repl, seen>>

MutantServerAccepts(l) == server.status = "active"
ServerAccepts(l) ==
    server.status = "active" /\ server.leader = l /\ server.epoch = repEpoch[l]

\* The control plane renews the lease of the current Leader and moves the floor
\* to the advertised checkpoint; from anyone else the heartbeat is refused.
RenewArrive(l) ==
    /\ \E n \in renewal[l] :
         server' = IF ServerAccepts(l)
                   THEN [server EXCEPT !.lease = TRUE,
                                       !.floor = SubSeq(log[l], 1, n)]
                   ELSE server
    /\ renewal' = [renewal EXCEPT ![l] = {}]
    /\ UNCHANGED <<member, pc, repEpoch, log, repl, seen, faults>>

\* No heartbeat succeeded for a whole lease period: the runtime is cancelled.
\* A stale Leader gets here; a current one whose replies were lost does too.
LeaseLost(l) ==
    /\ pc[l] = "leader"
    /\ IF server.lease /\ ServerAccepts(l) THEN Fault ELSE faults' = faults
    /\ pc' = [pc EXCEPT ![l] = "stopped"]
    /\ UNCHANGED <<server, member, leader, repEpoch, log, seen>>

\* The lease of a Leader that no longer heartbeats runs out.
LeaseExpire ==
    /\ server.lease
    /\ pc[server.leader] \notin Leading
    /\ server' = [server EXCEPT !.lease = FALSE]
    /\ UNCHANGED <<member, leader, pc, repEpoch, log, seen, faults>>

\* The heartbeats of a live Leader are late by a lease period.
LeaseStall ==
    /\ server.lease
    /\ pc[server.leader] \in Leading
    /\ Fault
    /\ server' = [server EXCEPT !.lease = FALSE]
    /\ UNCHANGED <<member, leader, pc, repEpoch, log, seen>>

\* After the completing record the runtime closes the room; when that request
\* fails the error is only logged.  Either way the process ends.
CloseRoom(l) ==
    /\ pc[l] = "closing"
    /\ \/ /\ server' = IF ServerAccepts(l) THEN [server EXCEPT !.status = "closed"]
                       ELSE server
          /\ faults' = faults
       \/ /\ Fault
          /\ server' = server
    /\ pc' = [pc EXCEPT ![l] = "stopped"]
    /\ UNCHANGED <<member, leader, repEpoch, log, seen>>

-----------------------------------------------------------------------------
(* The Member's replica                                                      *)

\* GroupReplica.apply, in its order: epoch; the record already held; a record
\* not beyond the one held; outside the bootstrap a gap or a foreign
\* predecessor; a first envelope without a complete checkpoint.
FromEpoch(m, env) == CertEpoch(env.log) = repEpoch[m]
Held(m, env)      == FromEpoch(m, env) /\ env.log = log[m]
Appends(m, env)   == Certified(log[m]) /\ Front(env.log) = log[m]
Acceptable(m, env) ==
    /\ FromEpoch(m, env)
    /\ Len(env.log) > Len(log[m])
    /\ IF fresh[m] THEN env.full ELSE Appends(m, env)

\* The first envelope of a channel and every applied one is acknowledged.  A
\* completed record ends the Member, unless the acknowledgement cannot be sent:
\* then the Member holds the record and recovers as if the Leader were lost.
ReceiveApply(m) ==
    /\ pc[m] = "member"
    /\ chan[m] # <<>>
    /\ LET env == Head(chan[m])
       IN  /\ Acceptable(m, env)
           /\ log' = [log EXCEPT ![m] = env.log]
           /\ \/ /\ ~Completed(env.log)
                 /\ acks' = [acks EXCEPT ![m] = {env.log}]
                 /\ chan' = [chan EXCEPT ![m] = Tail(@)]
                 /\ fresh' = [fresh EXCEPT ![m] = FALSE]
                 /\ UNCHANGED <<pc, link, greet, faults>>
              \/ /\ Completed(env.log)
                 /\ pc' = [pc EXCEPT ![m] = "stopped"]
                 /\ DropLink(m)
                 /\ faults' = faults
              \/ /\ Fault
                 /\ pc' = [pc EXCEPT ![m] = "query"]
                 /\ DropLink(m)
    /\ UNCHANGED <<server, leader, repEpoch, seen>>

\* The record already held, sent again as the bootstrap of this channel.
ReceiveHeld(m) ==
    /\ pc[m] = "member"
    /\ chan[m] # <<>>
    /\ LET env == Head(chan[m])
       IN  /\ Held(m, env)
           /\ IF Completed(env.log)
              THEN /\ pc' = [pc EXCEPT ![m] = "stopped"]
                   /\ DropLink(m)
              ELSE /\ acks' = [acks EXCEPT ![m] = IF fresh[m] THEN {env.log} ELSE @]
                   /\ chan' = [chan EXCEPT ![m] = Tail(@)]
                   /\ fresh' = [fresh EXCEPT ![m] = FALSE]
                   /\ UNCHANGED <<pc, link, greet>>
    /\ UNCHANGED <<server, leader, repEpoch, log, seen, faults>>

\* Any other envelope raises GroupProtocolError: the Member leaves the channel.
ReceiveReject(m) ==
    /\ pc[m] = "member"
    /\ chan[m] # <<>>
    /\ ~Acceptable(m, Head(chan[m]))
    /\ ~Held(m, Head(chan[m]))
    /\ pc' = [pc EXCEPT ![m] = "query"]
    /\ DropLink(m)
    /\ UNCHANGED <<server, leader, repEpoch, log, seen, faults>>

\* The channel closes because the Leader is gone, or is cut.
Disconnect(m) ==
    /\ pc[m] = "member"
    /\ IF pc[link[m]] \in Leading THEN Fault ELSE faults' = faults
    /\ pc' = [pc EXCEPT ![m] = "query"]
    /\ DropLink(m)
    /\ UNCHANGED <<server, leader, repEpoch, log, seen>>

-----------------------------------------------------------------------------
(* Recovery                                                                  *)

\* The Leader is replaced, or its lease still runs: connect (again) to the
\* Leader the snapshot names.
MutantFollows(m) == server.epoch >= repEpoch[m]
Follows(m) == server.epoch > repEpoch[m] \/ server.lease

\* One turn of the loop of _recover_or_follow: the snapshot is taken here and
\* acted on later, after other nodes may have moved.  Without a checkpoint there
\* is nothing to claim with, and the process ends.
Query(m) ==
    /\ pc[m] = "query"
    /\ seen' = [seen EXCEPT ![m] = [epoch |-> server.epoch, leader |-> server.leader]]
    /\ \E next \in {"connect", "claim", "stopped"} :
         /\ next = "connect" <=> server.status = "active" /\ Follows(m)
         /\ next = "claim" <=> /\ server.status = "active"
                               /\ ~Follows(m)
                               /\ Certified(log[m])
         /\ pc' = [pc EXCEPT ![m] = next]
    /\ UNCHANGED <<room, member, leader, repEpoch, log>>

\* The control plane's compare-and-set: the expected epoch, its lease run out,
\* and a checkpoint certified by its Leader that is not older than the floor.
ClaimWins(m) ==
    /\ server.status = "active"
    /\ server.epoch = seen[m].epoch
    /\ ~server.lease
    /\ CertEpoch(log[m]) = server.epoch
    /\ Len(log[m]) >= Len(server.floor)

Granted(m) == [server EXCEPT !.epoch = @ + 1, !.leader = m, !.lease = TRUE,
                             !.floor = log[m]]

\* The record the restored authority appends (it takes "completed" from the hook
\* on_leader_changed, and no hook of the repository sets it), and the checkpoint
\* its lease loop advertises until a Member acknowledges a newer one.
MutantEpochStart(m) == [epoch |-> repEpoch[m], leader |-> m, fin |-> FALSE]
EpochStart(m) == [epoch |-> server.epoch + 1, leader |-> m, fin |-> FALSE]

MutantInitialAdvertised(m) == 0
InitialAdvertised(m) == Len(log[m])

\* The winner restores its checkpoint as the authority of the new epoch, which
\* appends the epoch_start record; it has no channels yet.
Claim(m) ==
    /\ pc[m] = "claim"
    /\ ClaimWins(m)
    /\ server.epoch < MaxEpoch
    /\ server' = Granted(m)
    /\ pc' = [pc EXCEPT ![m] = "leader"]
    /\ repEpoch' = [repEpoch EXCEPT ![m] = server.epoch + 1]
    /\ log' = [log EXCEPT ![m] = Append(@, EpochStart(m))]
    /\ repl' = [repl EXCEPT ![m] = InitialAdvertised(m)]
    /\ UNCHANGED <<member, renewal, seen, faults>>

\* The claim is refused: RuntimeError, and the loop asks again.
ClaimRefused(m) ==
    /\ pc[m] = "claim"
    /\ ~ClaimWins(m)
    /\ pc' = [pc EXCEPT ![m] = "query"]
    /\ UNCHANGED <<room, member, leader, repEpoch, log, seen>>

\* The claim is granted but its reply is lost: an HTTP error is a RuntimeError
\* and the loop asks again, a network exception ends the process.
ClaimReplyLost(m) ==
    /\ pc[m] = "claim"
    /\ ClaimWins(m)
    /\ server.epoch < MaxEpoch
    /\ Fault
    /\ server' = Granted(m)
    /\ \E next \in {"query", "stopped"} : pc' = [pc EXCEPT ![m] = next]
    /\ UNCHANGED <<member, leader, repEpoch, log, seen>>

\* The Leader admits a channel only while the control plane names it the Leader
\* of the epoch the Member asked for (_leader_admit_channel, _connect_and_admit).
Admits(l, m) ==
    /\ pc[l] \in Leading
    /\ seen[m] = [epoch |-> repEpoch[l], leader |-> l]
    /\ server.epoch = repEpoch[l]
    /\ server.leader = l

\* Joins whichever authority answers and takes over its epoch.
MutantConnect(m) ==
    /\ pc[m] = "connect"
    /\ \E l \in Nodes \ {m} :
         /\ pc[l] \in Leading
         /\ link' = [link EXCEPT ![m] = l]
         /\ repEpoch' = [repEpoch EXCEPT ![m] = repEpoch[l]]
    /\ pc' = [pc EXCEPT ![m] = "member"]
    /\ fresh' = [fresh EXCEPT ![m] = TRUE]
    /\ greet' = [greet EXCEPT ![m] = TRUE]
    /\ UNCHANGED <<room, leader, log, seen, chan, acks>>

Connect(m) ==
    /\ pc[m] = "connect"
    /\ \E l \in Nodes \ {m} :
         /\ Admits(l, m)
         /\ link' = [link EXCEPT ![m] = l]
    /\ pc' = [pc EXCEPT ![m] = "member"]
    /\ repEpoch' = [repEpoch EXCEPT ![m] = seen[m].epoch]
    /\ fresh' = [fresh EXCEPT ![m] = TRUE]
    /\ greet' = [greet EXCEPT ![m] = TRUE]
    /\ UNCHANGED <<room, leader, log, seen, chan, acks>>

\* No admission: the ticket is dead or the answer does not match the snapshot.
ConnectFails(m) ==
    /\ pc[m] = "connect"
    /\ \A l \in Nodes \ {m} : ~Admits(l, m)
    /\ pc' = [pc EXCEPT ![m] = "query"]
    /\ UNCHANGED <<room, member, leader, repEpoch, log, seen>>

\* A process dies.  Its files survive, but nothing reads them: no command
\* restarts a room from group-checkpoint.json.
Crash(n) ==
    /\ pc[n] # "stopped"
    /\ Fault
    /\ pc' = [pc EXCEPT ![n] = "stopped"]
    /\ DropLink(n)
    /\ UNCHANGED <<server, leader, repEpoch, log, seen>>

-----------------------------------------------------------------------------
LeaderStep(l) ==
    \/ \E fin, full \in BOOLEAN : AcceptInput(l, fin, full)
    \/ \E m \in Nodes : Bootstrap(l, m) \/ HandleAck(l, m)
    \/ RenewSend(l) \/ RenewArrive(l) \/ LeaseLost(l) \/ CloseRoom(l)

MemberStep(m) ==
    \/ ReceiveApply(m) \/ ReceiveHeld(m) \/ ReceiveReject(m) \/ Disconnect(m)
    \/ Query(m) \/ Claim(m) \/ ClaimRefused(m) \/ ClaimReplyLost(m)
    \/ Connect(m) \/ ConnectFails(m)

Next ==
    \/ \E n \in Nodes : LeaderStep(n) \/ MemberStep(n) \/ Crash(n)
    \/ LeaseExpire
    \/ LeaseStall

Spec == Init /\ [][Next]_vars

\* Fairness: the asyncio loops and threads of a live process keep running, a
\* request that was sent arrives, a dead Leader's lease runs out and its
\* channels close.  Nothing obliges a user to act, and no fault must happen.
Progress(n) ==
    /\ WF_vars(ReceiveApply(n)) /\ WF_vars(ReceiveHeld(n)) /\ WF_vars(ReceiveReject(n))
    /\ WF_vars(Disconnect(n) /\ UNCHANGED faults)
    /\ WF_vars(Query(n)) /\ WF_vars(Claim(n)) /\ WF_vars(ClaimRefused(n))
    /\ WF_vars(Connect(n)) /\ WF_vars(ConnectFails(n))
    /\ WF_vars(\E m \in Nodes : Bootstrap(n, m))
    /\ WF_vars(RenewSend(n)) /\ WF_vars(RenewArrive(n)) /\ WF_vars(CloseRoom(n))
    /\ WF_vars(LeaseLost(n) /\ ~ServerAccepts(n))

Fairness == WF_vars(LeaseExpire) /\ \A n \in Nodes : Progress(n)

FairSpec == Spec /\ Fairness

-----------------------------------------------------------------------------
(* Safety                                                                    *)

\* Two authorities never sign records of the same epoch: every epoch is led by
\* one node, whatever leases, claims and lost replies came before (leader_epoch
\* is the fencing token of every envelope).
OneLeaderPerEpoch ==
    \A n1, n2 \in Nodes :
        /\ Reigned(n1)
        /\ Reigned(n2)
        /\ CertEpoch(log[n1]) = CertEpoch(log[n2])
        => n1 = n2

\* The Leader the control plane names continues the recovery floor: no record
\* below the floor is missing from, or different in, its authority.
FloorInLeader ==
    \A n \in Nodes :
        Reigned(n) /\ CertEpoch(log[n]) = server.epoch => IsPrefix(server.floor, log[n])

\* A floor moved by a heartbeat is held outside the Leader that advertised it:
\* acknowledge lets only another Member's checkpoint be advertised.
FloorHeldOutside ==
    Certified(server.floor) /\ CertEpoch(server.floor) = server.epoch
        => \E m \in Nodes \ {server.leader} : IsPrefix(server.floor, log[m])

\* The recovery floor of the control plane only grows, across heartbeats that
\* arrive late and claims by Members that lag behind.
FloorNeverRollsBack == [][IsPrefix(server.floor, server.floor')]_vars

\* A node never exchanges a certified checkpoint for one of an older epoch: a
\* fenced Leader cannot win back a Member of its successor.
EpochFencing ==
    [][\A n \in Nodes : Certified(log[n]) =>
          Certified(log'[n]) /\ CertEpoch(log[n]) <= CertEpoch(log'[n])]_vars

-----------------------------------------------------------------------------
(* Liveness                                                                  *)

LeaderGone(e) == server.epoch = e /\ server.status = "active"
                 /\ pc[server.leader] = "stopped"

\* m could succeed the Leader of epoch e.
Candidate(m, e) ==
    /\ pc[m] \in {"member", "query", "connect", "claim"}
    /\ Certified(log[m])
    /\ CertEpoch(log[m]) = e
    /\ Len(log[m]) >= Len(server.floor)

\* When the Leader of an epoch is gone and a live Member holds a checkpoint of
\* that epoch not older than the floor, some Member becomes the next Leader,
\* unless that Member dies, learns that the room ended, or a heartbeat of the
\* lost Leader still on its way moves the floor past its checkpoint.
SuccessionCompletes ==
    \A m \in Nodes : \A e \in 0..(MaxEpoch - 1) :
        (LeaderGone(e) /\ Candidate(m, e))
            ~> \/ server.epoch > e
               \/ server.status = "closed"
               \/ pc[m] = "stopped"
               \/ Len(log[m]) < Len(server.floor)

-----------------------------------------------------------------------------
(* What the documentation and the code's own checks promise, and the code does *)
(* not keep.                                                                  *)

\* A record some Member acknowledged, and the Leader heard of, survives the
\* next succession (docs/multiplayer.md: a zero-rollback successor state after
\* every acknowledged action).
ZeroRollback ==
    \A old, new \in Nodes :
        /\ Reigned(old)
        /\ Reigning(new)
        /\ CertEpoch(log[old]) < CertEpoch(log[new])
        => IsPrefix(SubSeq(log[old], 1, repl[old]), log[new])

\* A room that completed takes no further record (apply_input refuses input
\* once it is completed).
CompletedIsFinal ==
    \A n \in Nodes : \A i \in DOMAIN log[n] :
        log[n][i].fin => i = Len(log[n])
=============================================================================
