------------------------------ MODULE Realtime ------------------------------
(***************************************************************************)
(* A real-time match (proto/realtime.py): the host's clock makes a frame   *)
(* per tick and never waits, the guest answers every frame with commands   *)
(* for a later tick, which the host takes, queues and acknowledges in a    *)
(* task of its own.  A state of the world is the tick it belongs to.       *)
(***************************************************************************)
EXTENDS Naturals, Sequences

CONSTANTS
    Delay,     \* input_delay_ticks
    Leads,     \* command_lead_ticks the guest's measurements can give
    MaxLead,   \* max_command_lead_ticks
    Policies,  \* disconnect_policy: "abort", "continue"
    MaxTicks,  \* bound: the last tick a match reaches
    None

VARIABLES
    policy,
    agreed,       \* wire version, ruleset and config of the two are the same
    open,         \* the connection
    toHost, toGuest,
    host,         \* "join", "loop", "frame" (a frame is to be sent), "done", "aborted"
    tick,         \* runtime["tick"]
    frames,       \* frames made: [guest, host, outcome], what was applied
    hostPending,  \* per tick: the tick whose state the host's commands answer
    pending,      \* per tick: the guest's accepted command frame [seq, target, source]
    lastSeq,      \* last_guest_seq
    ack,          \* the acknowledgement the receiver is about to send
    accepted,     \* the journal's accepted command frames
    lost,         \* disconnected is set
    guest,        \* "start", "ready", "playing", "done", "aborted", "crashed"
    seen,         \* frames the guest has verified
    seq           \* command frames the guest has sent

match == <<policy, agreed, open, toHost, toGuest, host, tick, frames, hostPending, pending, lastSeq,
           ack, accepted, lost, guest, seen, seq>>

Ticks == 1..(MaxTicks + MaxLead)
Nothing == [seq |-> 0, target |-> 0, source |-> 0]
Outcomes == {"host", "guest", "draw"}

Init ==
    /\ policy \in Policies /\ agreed \in BOOLEAN
    /\ open = TRUE /\ toHost = <<>> /\ toGuest = <<>>
    /\ host = "join" /\ tick = 0 /\ frames = <<>>
    /\ hostPending = [t \in Ticks |-> None] /\ pending = [t \in Ticks |-> Nothing]
    /\ lastSeq = 0 /\ ack = None /\ accepted = {} /\ lost = FALSE
    /\ guest = "start" /\ seen = <<>> /\ seq = 0

(* a write on a closed connection is lost, or fails *)
ToGuest(m) == toGuest' = IF open THEN Append(toGuest, m) ELSE toGuest
-----------------------------------------------------------------------------
(* The host *)

(* queue_host_commands: what the world was at a tick answers a later one *)
QueuedAfter(t, queue) == IF t + Delay \in Ticks THEN [queue EXCEPT ![t + Delay] = t] ELSE queue

HostJoined ==
    /\ host = "join" /\ toHost # <<>>
    /\ toHost' = Tail(toHost)
    /\ IF agreed
       THEN /\ ToGuest([kind |-> "ready"])
            /\ host' = "loop" /\ hostPending' = QueuedAfter(0, hostPending)
       ELSE /\ ToGuest([kind |-> "reject"]) /\ host' = "aborted"
            /\ UNCHANGED hostPending
    /\ UNCHANGED <<policy, agreed, open, tick, frames, pending, lastSeq, ack, accepted, lost, guest, seen, seq>>

MutantLate(c) == c.target < tick
Late(c) == c.target <= tick

Accepts(c) ==
    /\ c.seq > lastSeq                      \* else non_monotonic_sequence
    /\ ~Late(c)                             \* late_target_tick
    /\ c.target <= tick + MaxLead           \* target_tick_too_far
    /\ pending[c.target] = Nothing          \* target_tick_already_queued

Playing == host \in {"loop", "frame"}

(* receive_commands, up to the acknowledgement *)
ReceiveCommand ==
    /\ Playing /\ ack = None /\ ~lost /\ toHost # <<>>
    /\ toHost' = Tail(toHost)
    /\ LET c == Head(toHost) IN
        /\ ack' = [kind |-> "ack", seq |-> c.seq, accepted |-> Accepts(c)]
        /\ IF Accepts(c)
           THEN /\ pending' = [pending EXCEPT ![c.target] = c]
                /\ lastSeq' = c.seq
                /\ accepted' = accepted \union {c}
           ELSE UNCHANGED <<pending, lastSeq, accepted>>
    /\ UNCHANGED <<policy, agreed, open, toGuest, host, tick, frames, hostPending, lost, guest, seen, seq>>

SendAck ==
    /\ Playing /\ ack # None
    /\ ack' = None
    /\ \/ ToGuest(ack) /\ UNCHANGED lost
       \/ ~open /\ lost' = TRUE /\ UNCHANGED toGuest
    /\ UNCHANGED <<policy, agreed, open, toHost, host, tick, frames, hostPending, pending, lastSeq, accepted,
                   guest, seen, seq>>

ReceiverClosed ==
    /\ Playing /\ ack = None /\ ~open /\ ~lost
    /\ lost' = TRUE
    /\ UNCHANGED <<policy, agreed, open, toHost, toGuest, host, tick, frames, hostPending, pending, lastSeq, ack,
                   accepted, guest, seen, seq>>

(* make_frame: what both sides' queues hold for a tick, and the outcome     *)
Frame(t, o) == [guest |-> pending[t], host |-> hostPending[t], outcome |-> o]

(* the deadline of a tick: the inputs are frozen, the world takes a step *)
Tick ==
    /\ host = "loop" /\ tick < MaxTicks
    /\ ~(lost /\ policy = "abort")
    /\ tick' = tick + 1
    /\ hostPending' = QueuedAfter(tick', [hostPending EXCEPT ![tick'] = None])
    /\ pending' = [pending EXCEPT ![tick'] = Nothing]
    /\ \E o \in Outcomes \union {None} : frames' = Append(frames, Frame(tick + 1, o))
    /\ host' = "frame"
    /\ UNCHANGED <<policy, agreed, open, toHost, toGuest, lastSeq, ack, accepted, lost, guest, seen, seq>>

(* the frame is sent unless the guest is known to be gone *)
SendFrame ==
    /\ host = "frame"
    /\ LET ends == IF frames[Len(frames)].outcome # None THEN "done" ELSE "loop" IN
        \/ /\ lost /\ host' = ends /\ UNCHANGED <<toGuest, lost>>
        \/ /\ ~lost /\ ToGuest([kind |-> "frame", tick |-> tick, frame |-> frames[Len(frames)]])
           /\ host' = ends /\ UNCHANGED lost
        \/ /\ ~lost /\ ~open /\ lost' = TRUE
           /\ host' = IF policy = "abort" THEN "aborted" ELSE ends
           /\ UNCHANGED toGuest
    /\ UNCHANGED <<policy, agreed, open, toHost, tick, frames, hostPending, pending, lastSeq, ack, accepted,
                   guest, seen, seq>>

HostDisconnected ==
    /\ \/ host = "join" /\ ~open
       \/ host = "loop" /\ lost /\ policy = "abort"
    /\ host' = "aborted"
    /\ UNCHANGED <<policy, agreed, open, toHost, toGuest, tick, frames, hostPending, pending, lastSeq, ack,
                   accepted, lost, guest, seen, seq>>
-----------------------------------------------------------------------------
(* The guest *)

GuestJoins ==
    /\ guest = "start"
    /\ toHost' = IF open THEN <<Nothing>> ELSE toHost
    /\ guest' = "ready"
    /\ UNCHANGED <<policy, agreed, open, toGuest, host, tick, frames, hostPending, pending, lastSeq, ack, accepted,
                   lost, seen, seq>>

(* build_transport_profile: the lead is measured anew for each frame        *)
Targets(t) == {t + lead : lead \in Leads}

(* send_commands for a frame;  a failed write     *)
(* raises, and nothing catches it                                           *)
SendCommands(t) ==
    \/ \E target \in Targets(t) :
        /\ seq' = seq + 1
        /\ toHost' = IF open THEN Append(toHost, [seq |-> seq', target |-> target, source |-> t]) ELSE toHost
        /\ guest' = "playing"
    \/ ~open /\ guest' = "crashed" /\ UNCHANGED <<toHost, seq>>

Received(kind) == toGuest # <<>> /\ Head(toGuest).kind = kind /\ toGuest' = Tail(toGuest)

GuestReady ==
    /\ guest = "ready"
    /\ \/ Received("ready") /\ SendCommands(0)
       \/ Received("reject") /\ guest' = "aborted" /\ UNCHANGED <<toHost, seq>>
    /\ UNCHANGED <<policy, agreed, open, host, tick, frames, hostPending, pending, lastSeq, ack, accepted, lost, seen>>

ReceiveAck ==
    /\ guest = "playing" /\ Received("ack")
    /\ UNCHANGED <<policy, agreed, open, toHost, host, tick, frames, hostPending, pending, lastSeq, ack, accepted,
                   lost, guest, seen, seq>>

(* verify_frame: the next tick, chained to the one before *)
Follows(m) == m.tick = Len(seen) + 1

(* a frame that fails the verification ends the match *)
ReceiveFrame ==
    /\ guest = "playing" /\ Received("frame")
    /\ LET m == Head(toGuest) IN
        IF ~Follows(m)
        THEN guest' = "aborted" /\ UNCHANGED <<toHost, seen, seq>>
        ELSE /\ seen' = Append(seen, m.frame)
             /\ IF m.frame.outcome # None THEN guest' = "done" /\ UNCHANGED <<toHost, seq>>
                ELSE SendCommands(m.tick)
    /\ UNCHANGED <<policy, agreed, open, host, tick, frames, hostPending, pending, lastSeq, ack, accepted, lost>>

(* the end of the channel is noticed before what is left in it *)
MutantGuestDisconnected ==
    /\ guest \in {"ready", "playing"} /\ ~open
    /\ guest' = "done"
    /\ UNCHANGED <<policy, agreed, open, toHost, toGuest, host, tick, frames, hostPending, pending, lastSeq, ack,
                   accepted, lost, seen, seq>>

GuestDisconnected ==
    /\ guest \in {"ready", "playing"} /\ ~open
    /\ guest' = "aborted"
    /\ UNCHANGED <<policy, agreed, open, toHost, toGuest, host, tick, frames, hostPending, pending, lastSeq, ack,
                   accepted, lost, seen, seq>>

(* either process is gone, after its end or before *)
Disconnect ==
    /\ open /\ open' = FALSE
    /\ UNCHANGED <<policy, agreed, toHost, toGuest, host, tick, frames, hostPending, pending, lastSeq, ack, accepted,
                   lost, guest, seen, seq>>

Next ==
    \/ HostJoined \/ ReceiveCommand \/ SendAck \/ ReceiverClosed \/ Tick \/ SendFrame \/ HostDisconnected
    \/ GuestJoins \/ GuestReady \/ ReceiveAck \/ ReceiveFrame \/ GuestDisconnected \/ Disconnect

Spec == Init /\ [][Next]_match
-----------------------------------------------------------------------------
(* Every variable keeps its type (runtime of _run_host_async, the locals of *)
(* _run_guest_async).                                                       *)
TypeOK ==
    /\ policy \in Policies /\ agreed \in BOOLEAN /\ open \in BOOLEAN /\ lost \in BOOLEAN
    /\ host \in {"join", "loop", "frame", "done", "aborted"}
    /\ guest \in {"start", "ready", "playing", "done", "aborted", "crashed"}
    /\ tick \in 0..MaxTicks /\ Len(frames) = tick
    /\ \A t \in Ticks : hostPending[t] \in {None} \union (0..MaxTicks) /\ pending[t].target \in {0, t}
    /\ lastSeq \in 0..seq

(* A command frame that was acknowledged as accepted is applied in the      *)
(* frame of its target tick and in no other one, although it is taken by a  *)
(* task that runs between the ticks; every frame applies what was accepted. *)
AcceptedIsApplied ==
    /\ \A c \in accepted : c.target \in DOMAIN frames => frames[c.target].guest = c
    /\ \A t \in DOMAIN frames : frames[t].guest # Nothing => frames[t].guest \in accepted /\ frames[t].guest.target = t

(* What the guest has verified is the host's history, no honest frame fails *)
(* the verification, and a guest that completes has the host's outcome.     *)
FramesAgree ==
    /\ Len(seen) <= Len(frames) /\ seen = SubSeq(frames, 1, Len(seen))
    /\ guest = "aborted" => ~open \/ ~agreed
    /\ guest = "done" => seen = frames /\ host = "done"

(* realtime.py:677 "its local Agent must not observe a newer state than     *)
(* Guest when choosing commands for the same target tick".                  *)
NoHeadStart ==
    \A t \in DOMAIN frames :
        frames[t].guest # Nothing /\ frames[t].host # None => frames[t].host <= frames[t].guest.source
=============================================================================
