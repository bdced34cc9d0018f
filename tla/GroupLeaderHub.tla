---------------------------- MODULE GroupLeaderHub ----------------------------
(***************************************************************************)
(* The hub of a Leader and the successive channels of one Member           *)
(* (proto/group_runtime.py, GroupLeaderHub).  Four kinds of asyncio tasks  *)
(* interleave at their awaits: the accept loop, which attaches one channel *)
(* after the other; run(), which handles the queue; one receiver for each  *)
(* channel; the ack watchdog.  The broadcast lock orders the first two.    *)
(* Queue events name the Member and not the channel they come from.        *)
(*                                                                         *)
(* Channel c is the c-th the Member opens.  Members are independent but    *)
(* for the lock and the sequence: another Member's input is OtherInput.    *)
(* Authority records are their seq; a peer overlay is in use.              *)
(***************************************************************************)
EXTENDS Naturals, Sequences, SequencesExt

CONSTANTS
    MaxConns,    \* bound: channels the Member opens
    MaxSeq,      \* bound: authority records
    MaxInputs    \* bound: inputs of the Member on their way

\* The join of a Member is a record after the first.
ASSUME HubBounds == MaxConns \in Nat \ {0} /\ MaxSeq \in Nat \ {0, 1} /\ MaxInputs \in Nat

VARIABLES
    \* the Member and the network
    conns,     \* channels opened
    ch,        \* the Member's channel, the last one it opened
    mode,      \* off, await (its first envelope), run, stall (it stops reading)
    held,      \* seq of its replica
    read,      \* messages it has read, for each channel
    up,        \* messages to the Leader, for each channel
    gone,      \* channels the Member has left
    \* the hub
    wire,      \* messages the Leader has sent, for each channel
    shut,      \* channels the Leader has closed
    queue,     \* hub.queue
    reg,       \* hub.channels[member], 0 when absent
    receiver,  \* hub.receivers[member]: the channel it reads, 0 when absent
    task,      \* the receiver task of each channel: none, running, cancelled, ended
    acked,     \* hub.acknowledged_seq[member], 0 when absent
    pend,      \* hub.pending_ack[member]: the required seq, 0 when absent
    lock,      \* holder of the broadcast lock: free, accept, run
    accept,    \* the accept loop: where it is, its channel, whether it is a join
    run,       \* run(): where it is, its channel, whether the Member's input
    \* the authority
    seq,       \* seq of the last record
    known      \* the authority represents the Member

member == <<conns, ch, mode, held, read, up, gone>>
book   == <<reg, receiver, acked, pend>>
hub    == <<wire, shut, queue, reg, receiver, task, acked, pend>>
auth   == <<seq, known>>
vars   == <<member, hub, lock, accept, run, auth>>

Chans  == 1..MaxConns
Frame  == [kind : {"boot", "record"}, seq : 1..MaxSeq]
Notice == [kind : {"directory", "receipt"}]
Event  == [kind : {"disconnect", "input"}] \union [kind : {"ack"}, seq : 1..MaxSeq]

TypeOK ==
    /\ conns \in 0..MaxConns /\ ch \in 0..MaxConns
    /\ mode \in {"off", "await", "run", "stall"}
    /\ held \in 0..MaxSeq
    /\ read \in [Chans -> Nat]
    /\ up \in [Chans -> Seq(Event)]
    /\ gone \in SUBSET Chans /\ shut \in SUBSET Chans
    /\ wire \in [Chans -> Seq(Frame \union Notice)]
    /\ queue \in Seq(Event)
    /\ reg \in 0..MaxConns /\ receiver \in 0..MaxConns
    /\ task \in [Chans -> {"none", "running", "cancelled", "ended"}]
    /\ acked \in 0..MaxSeq /\ pend \in 0..MaxSeq
    /\ lock \in {"free", "accept", "run"}
    /\ accept \in [pc : {"idle", "closing", "wait", "sending", "dir"},
                   ch : 0..MaxConns, join : BOOLEAN]
    /\ run \in [pc : {"idle", "wait", "sending", "receipt"}, ch : 0..MaxConns,
                own : BOOLEAN]
    /\ seq \in 1..MaxSeq
    /\ known \in BOOLEAN

Init ==
    /\ conns = 0 /\ ch = 0 /\ mode = "off" /\ held = 0
    /\ read = [c \in Chans |-> 0]
    /\ up = [c \in Chans |-> <<>>]
    /\ gone = {} /\ shut = {}
    /\ wire = [c \in Chans |-> <<>>]
    /\ queue = <<>>
    /\ reg = 0 /\ receiver = 0
    /\ task = [c \in Chans |-> "none"]
    /\ acked = 0 /\ pend = 0
    /\ lock = "free"
    /\ accept = [pc |-> "idle", ch |-> 0, join |-> FALSE]
    /\ run = [pc |-> "idle", ch |-> 0, own |-> FALSE]
    /\ seq = 1
    /\ known \in BOOLEAN    \* known: a Member of a restored authority

AtLeast(a, b) == IF a > b THEN a ELSE b
IsFrame(msg)  == msg.kind \in {"boot", "record"}

-----------------------------------------------------------------------------
(* The Member                                                                *)

Open ==
    /\ mode = "off"
    /\ conns < MaxConns
    /\ conns' = conns + 1
    /\ ch' = conns + 1
    /\ mode' = "await"
    /\ UNCHANGED <<held, read, up, gone, hub, lock, accept, run, auth>>

Leave == mode' = "off" /\ gone' = gone \union {ch}

\* The next message on the channel.  Nothing but an envelope may come first, and
\* that one must be complete, which a record may be or not; then the replica takes
\* the next record and ignores a repetition of the last one.
Refused(msg) == IsFrame(msg) => (msg.seq < held \/ msg.kind = "record")
Read ==
    /\ mode \in {"await", "run"}
    /\ read[ch] < Len(wire[ch])
    /\ read' = [read EXCEPT ![ch] = @ + 1]
    /\ LET msg == wire[ch][read[ch] + 1]
           Take ==
               /\ held' = msg.seq
               /\ mode' = "run"
               /\ up' = [up EXCEPT ![ch] = Append(@, [kind |-> "ack", seq |-> msg.seq])]
               /\ gone' = gone
       IN  \/ /\ IF mode = "await" THEN IsFrame(msg) /\ msg.seq >= held
                 ELSE IsFrame(msg) /\ msg.seq = held + 1
              /\ Take
           \/ /\ IF mode = "await" THEN Refused(msg)
                 ELSE IsFrame(msg) /\ msg.seq \notin {held, held + 1}
              /\ Leave /\ UNCHANGED <<held, up>>
           \/ /\ mode = "run"
              /\ IsFrame(msg) => msg.seq = held
              /\ UNCHANGED <<mode, gone, held, up>>
    /\ UNCHANGED <<conns, ch, hub, lock, accept, run, auth>>

\* The inputs sent and not yet taken by run(), of which MaxInputs are modelled.
InputsUnderWay == Len(SelectSeq(up[ch] \o queue, LAMBDA e : e.kind = "input"))
SendInput ==
    /\ mode = "run"
    /\ InputsUnderWay < MaxInputs
    /\ up' = [up EXCEPT ![ch] = Append(@, [kind |-> "input"])]
    /\ UNCHANGED <<conns, ch, mode, held, read, gone, hub, lock, accept, run, auth>>

\* The Leader has closed the channel; what was still on it may be lost.
SeeClosed ==
    /\ mode # "off"
    /\ ch \in shut
    /\ Leave
    /\ UNCHANGED <<conns, ch, held, read, up, hub, lock, accept, run, auth>>

\* The Member's side of the channel breaks, or its process restarts and its replica
\* is a new one.
Drop ==
    /\ mode # "off"
    /\ Leave
    /\ held' \in {held, 0}
    /\ UNCHANGED <<conns, ch, read, up, hub, lock, accept, run, auth>>

\* The Member stops reading while its channel stays up.
Stall ==
    /\ mode \in {"await", "run"}
    /\ mode' = "stall"
    /\ UNCHANGED <<conns, ch, held, read, up, gone, hub, lock, accept, run, auth>>

-----------------------------------------------------------------------------
(* Operations of the hub                                                     *)

MutantRelease(waiting, other) == lock' = "free"
\* Releasing the broadcast lock: asyncio.Lock hands it to the task that waits.
Release(waiting, other) == lock' = IF waiting THEN other ELSE "free"
ReleaseAccept == Release(run.pc = "wait", "run")
ReleaseRun    == Release(accept.pc \in {"wait", "dir"}, "accept")

Send(c, msg) == wire' = [wire EXCEPT ![c] = Append(@, msg)]

\* A directory or a receipt matters here as the first thing on a channel: after
\* that the Member's replica ignores it, and it is not kept.
Notify(kind) ==
    IF reg # 0 /\ wire[reg] = <<>> THEN Send(reg, [kind |-> kind]) ELSE wire' = wire

MutantTracked(s)  == IF s <= acked THEN pend ELSE IF pend = 0 THEN s ELSE pend
Tracked(s) == IF s <= acked THEN pend ELSE AtLeast(pend, s)

Cancelled(t) == IF receiver # 0 /\ t[receiver] = "running"
                THEN [t EXCEPT ![receiver] = "cancelled"] ELSE t

MutantDetach ==
    /\ reg' = 0
    /\ receiver' = 0
    /\ acked' = 0
    /\ pend' = 0
    /\ task' = Cancelled(task)
    /\ shut' = shut
\* detach: channel, receiver and ack tracking go together, whatever channel the
\* Member has now; the receiver is cancelled and the channel closed.
Detach ==
    /\ reg' = 0
    /\ receiver' = 0
    /\ acked' = 0
    /\ pend' = 0
    /\ task' = Cancelled(task)
    /\ shut' = IF reg # 0 THEN shut \union {reg} ELSE shut

\* A send to channel c of a Member that does not read may fail or time out.
MayFail(c) == c \in gone \/ (c = ch /\ mode = "stall")

-----------------------------------------------------------------------------
(* The accept loop                                                           *)

\* Channels are admitted in the order they were opened.
Newcomer == accept.ch + 1
Waiting  == accept.pc = "idle" /\ Newcomer <= conns

\* Admission fails for a Member that is no longer there.
AdmissionFails ==
    /\ Waiting
    /\ Newcomer \in gone
    /\ accept' = [accept EXCEPT !.ch = Newcomer]
    /\ UNCHANGED <<member, hub, lock, run, auth>>

\* attach and attach_existing begin: forget the acknowledgements, take the
\* previous channel out and close it.
Unregister ==
    /\ Waiting
    /\ reg # 0
    /\ acked' = 0
    /\ pend' = 0
    /\ reg' = 0
    /\ shut' = shut \union {reg}
    /\ accept' = [pc |-> "closing", ch |-> Newcomer, join |-> FALSE]
    /\ UNCHANGED <<member, wire, queue, receiver, task, lock, run, auth>>

\* With the lock: the bootstrap is built and its send begins, if the channel is
\* still the Member's; a join is a record of its own.
Bootstrap(c, here) ==
    LET s == IF known THEN seq ELSE seq + 1
    IN  /\ known' = TRUE
        /\ seq' = s
        /\ IF here
           THEN /\ Send(c, [kind |-> "boot", seq |-> s])
                /\ accept' = [pc |-> "sending", ch |-> c, join |-> ~known]
                /\ lock' = "accept"
           ELSE /\ wire' = wire
                /\ accept' = [accept EXCEPT !.pc = "idle"]
                /\ ReleaseAccept

\* The new channel is registered with its receiver, the old receiver cancelled;
\* all without an await when the lock is free.
Register ==
    /\ accept.pc = "closing" \/ (Waiting /\ reg = 0)
    /\ LET c == IF accept.pc = "closing" THEN accept.ch ELSE Newcomer
       IN  /\ reg' = c
           /\ receiver' = c
           /\ task' = [Cancelled(task) EXCEPT ![c] = "running"]
           /\ IF lock = "free"
              THEN Bootstrap(c, TRUE)
              ELSE /\ accept' = [pc |-> "wait", ch |-> c, join |-> FALSE]
                   /\ UNCHANGED <<wire, lock, auth>>
    /\ IF accept.pc = "closing" THEN UNCHANGED <<acked, pend>>
       ELSE acked' = 0 /\ pend' = 0
    /\ UNCHANGED <<member, shut, queue, run>>

GetLock ==
    /\ accept.pc = "wait"
    /\ lock = "accept"
    /\ Bootstrap(accept.ch, reg = accept.ch)
    /\ UNCHANGED <<member, shut, queue, book, task, run>>

\* The bootstrap was sent: it is tracked if the channel is still the Member's.
\* A join keeps the lock, a re-attachment takes it again, for the directories.
Bootstrapped ==
    /\ accept.pc = "sending"
    /\ IF reg = accept.ch
       THEN /\ pend' = Tracked(seq)
            /\ accept' = [accept EXCEPT !.pc = "dir"]
            /\ IF accept.join \/ run.pc # "wait" THEN lock' = lock ELSE lock' = "run"
       ELSE /\ pend' = pend
            /\ accept' = [accept EXCEPT !.pc = IF accept.join THEN "dir" ELSE "idle"]
            /\ IF accept.join THEN lock' = lock ELSE ReleaseAccept
    /\ UNCHANGED <<member, wire, shut, queue, reg, receiver, task, acked, run, auth>>

\* The bootstrap could not be sent: the channel is detached.
BootstrapFails ==
    /\ accept.pc = "sending"
    /\ MayFail(accept.ch)
    /\ IF reg = accept.ch THEN Detach ELSE UNCHANGED <<book, task, shut>>
    /\ accept' = [accept EXCEPT !.pc = IF accept.join THEN "dir" ELSE "idle"]
    /\ IF accept.join THEN lock' = lock ELSE ReleaseAccept
    /\ UNCHANGED <<member, wire, queue, run, auth>>

PublishDirectory ==
    IF known THEN Notify("directory") ELSE wire' = wire

\* _publish_peer_directories_unlocked, and the attachment is done.
AttachDone ==
    /\ accept.pc = "dir"
    /\ lock = "accept"
    /\ PublishDirectory
    /\ accept' = [accept EXCEPT !.pc = "idle"]
    /\ ReleaseAccept
    /\ UNCHANGED <<member, shut, queue, book, task, run, auth>>

-----------------------------------------------------------------------------
(* The receivers                                                             *)

Receive(c) ==
    /\ task[c] = "running"
    /\ up[c] # <<>>
    /\ queue' = Append(queue, Head(up[c]))
    /\ up' = [up EXCEPT ![c] = Tail(@)]
    /\ UNCHANGED <<conns, ch, mode, held, read, gone, wire, shut, book, task, lock,
                   accept, run, auth>>

\* What ends a receiver: its channel breaks, or it is cancelled.
Ends(c) == task[c] = "cancelled" \/ (task[c] = "running" /\ c \in gone)
MutantReported(c) == IF task[c] = "cancelled" THEN <<[kind |-> "disconnect"]>> ELSE <<>>
\* Either way the end is reported, under the Member's name.
Reported(c) == <<[kind |-> "disconnect"]>>
ReceiverEnds(c) ==
    /\ Ends(c)
    /\ task' = [task EXCEPT ![c] = "ended"]
    /\ queue' = queue \o Reported(c)
    /\ up' = [up EXCEPT ![c] = <<>>]
    /\ UNCHANGED <<conns, ch, mode, held, read, gone, wire, shut, book, lock, accept,
                   run, auth>>

-----------------------------------------------------------------------------
(* run()                                                                     *)

NextEvent(kind) == run.pc = "idle" /\ queue # <<>> /\ Head(queue).kind = kind

HandleDisconnect ==
    /\ NextEvent("disconnect")
    /\ Detach
    /\ queue' = Tail(queue)
    /\ UNCHANGED <<member, wire, lock, accept, run, auth>>

MutantLifted(s) == IF s > pend THEN 0 ELSE pend
Lifted(s) == IF s >= pend THEN 0 ELSE pend
\* An acknowledgement lifts the watch when it covers the required seq.
HandleAck ==
    /\ NextEvent("ack")
    /\ LET s == Head(queue).seq
       IN  /\ acked' = AtLeast(acked, s)
           /\ pend' = Lifted(s)
    /\ queue' = Tail(queue)
    /\ UNCHANGED <<member, wire, shut, reg, receiver, task, lock, accept, run, auth>>

\* Room for another record in the bounded instance, a join included.
Room == seq + (IF known THEN 1 ELSE 2) <= MaxSeq

MutantRecipient == IF known /\ pend = 0 THEN reg ELSE 0
\* Who gets a record: the channel registered at this moment, if it is a Member's.
Recipient == IF known THEN reg ELSE 0

\* With the lock.  record: apply_input makes a record, sent to the Members.
\* refused: it refuses, or finds a duplicate.  advertised: a peer advertisement,
\* only the directories follow.
Handle(own, result) ==
    /\ run' = [pc |-> IF result # "refused" THEN "sending"
                      ELSE IF own THEN "receipt" ELSE "idle",
               ch |-> IF result = "record" THEN Recipient ELSE 0, own |-> own]
    /\ IF result = "refused" THEN ReleaseRun ELSE lock' = "run"
    /\ IF result = "record"
       THEN /\ seq' = seq + 1
            /\ IF Recipient # 0 THEN Send(Recipient, [kind |-> "record", seq |-> seq + 1])
               ELSE wire' = wire
       ELSE UNCHANGED <<seq, wire>>

Results(own) == (IF Room THEN {"record"} ELSE {}) \union
                {"refused"} \union (IF own THEN {} ELSE {"advertised"})

TakeInput(own) ==
    /\ IF lock = "free"
       THEN \E result \in Results(own) : Handle(own, result)
       ELSE /\ run' = [pc |-> "wait", ch |-> 0, own |-> own]
            /\ UNCHANGED <<lock, wire, seq>>
    /\ UNCHANGED <<member, shut, book, task, accept, known>>

HandleInput == NextEvent("input") /\ queue' = Tail(queue) /\ TakeInput(TRUE)
OtherInput  == run.pc = "idle" /\ queue' = queue /\ TakeInput(FALSE)

RunGetsLock ==
    /\ run.pc = "wait"
    /\ lock = "run"
    /\ \E result \in Results(run.own) : Handle(run.own, result)
    /\ UNCHANGED <<member, shut, queue, book, task, accept, known>>

AfterBroadcast ==
    /\ run' = [run EXCEPT !.pc = IF run.own THEN "receipt" ELSE "idle", !.ch = 0]
    /\ ReleaseRun
    /\ UNCHANGED <<member, queue, accept, auth>>

\* The record was sent and is tracked; the directories follow under the lock.
Broadcast ==
    /\ run.pc = "sending"
    /\ pend' = IF run.ch # 0 /\ reg = run.ch THEN Tracked(seq) ELSE pend
    /\ PublishDirectory
    /\ AfterBroadcast
    /\ UNCHANGED <<shut, reg, receiver, task, acked>>

BroadcastFails ==
    /\ run.pc = "sending"
    /\ run.ch # 0
    /\ MayFail(run.ch)
    /\ IF reg = run.ch
       THEN Detach /\ wire' = wire
       ELSE PublishDirectory /\ UNCHANGED <<book, task, shut>>
    /\ AfterBroadcast

\* _send_receipt: to the channel the Member has now.
SendReceipt ==
    /\ run.pc = "receipt"
    /\ Notify("receipt")
    /\ run' = [run EXCEPT !.pc = "idle"]
    /\ UNCHANGED <<member, shut, queue, book, task, lock, accept, auth>>

\* The ack watchdog: a required seq was not acknowledged in time.
Watchdog ==
    /\ pend # 0
    /\ reg # 0
    /\ Detach
    /\ UNCHANGED <<member, wire, queue, lock, accept, run, auth>>

-----------------------------------------------------------------------------
Accept ==
    \/ AdmissionFails \/ Unregister \/ Register \/ GetLock \/ Bootstrapped
    \/ BootstrapFails \/ AttachDone

Run ==
    \/ HandleDisconnect \/ HandleAck \/ HandleInput \/ RunGetsLock
    \/ Broadcast \/ BroadcastFails \/ SendReceipt

Next ==
    \/ Open \/ Read \/ SendInput \/ SeeClosed \/ Drop \/ Stall
    \/ Accept \/ Run \/ OtherInput \/ Watchdog
    \/ \E c \in Chans : Receive(c) \/ ReceiverEnds(c)

Spec == Init /\ [][Next]_vars

\* Fairness: no task of the hub is starved; the Member reads, and sees the end of
\* a closed channel.  Faults, inputs and the timer are not fair.
Fairness ==
    /\ WF_vars(Accept) /\ WF_vars(Run)
    /\ \A c \in Chans : WF_vars(Receive(c)) /\ WF_vars(ReceiverEnds(c))
    /\ WF_vars(Read) /\ WF_vars(SeeClosed)

FairSpec == Spec /\ Fairness

-----------------------------------------------------------------------------
(* Properties                                                                *)

\* j is the next frame after i on channel c.
NextFrame(c, i, j) ==
    /\ i < j
    /\ IsFrame(wire[c][i]) /\ IsFrame(wire[c][j])
    /\ \A k \in DOMAIN wire[c] : i < k /\ k < j => ~IsFrame(wire[c][k])

\* Whatever is attached, detached and broadcast in whatever order, no record is
\* missing on a channel: after its first frame comes every next record, once; only
\* the bootstrap may repeat the record before it.
FramesContiguous ==
    \A c \in Chans : \A i, j \in DOMAIN wire[c] : NextFrame(c, i, j) =>
        wire[c][j].seq = wire[c][i].seq + (IF wire[c][j].kind = "boot" THEN 0 ELSE 1)

\* A registered channel is the one its receiver reads, and that receiver runs, or
\* its end is in the queue: no Member is left talking to nobody.
RegisteredIsServed ==
    reg # 0 =>
        /\ receiver = reg
        /\ \/ task[reg] = "running"
           \/ \E i \in DOMAIN queue : queue[i].kind = "disconnect"

\* A send to channel c is under way.
Sending(c) ==
    \/ accept.pc = "sending" /\ accept.ch = c
    \/ run.pc = "sending" /\ run.ch = c

\* A Member that leaves a frame unread is watched by the ack timer, but while a
\* send to it is under way, or when the frame is not beyond what was acknowledged
\* (a late acknowledgement of the channel before counts too).
StalledIsWatched ==
    reg # 0 /\ pend = 0 /\ ~Sending(reg) =>
        \A i \in DOMAIN wire[reg] :
            i > read[reg] /\ IsFrame(wire[reg][i]) => wire[reg][i].seq <= acked

\* The ack timer runs on a channel only while its Member has something left to
\* read or its acknowledgement is on the way: a Member that answers everything is
\* never detached for an overdue acknowledgement.
NoFalseAlarm ==
    reg # 0 /\ pend # 0 =>
        \/ reg \in gone \/ mode = "stall"
        \/ \E i \in DOMAIN wire[reg] : i > read[reg] /\ IsFrame(wire[reg][i])
        \/ \E e \in ToSet(up[reg]) \union ToSet(queue) : e.kind = "ack" /\ e.seq >= pend

\* A registered channel is given up only for what is wrong with it (its Member is
\* gone, a send failed, an acknowledgement is overdue) or for a newer one.
FreshChannelSurvives ==
    [][reg # 0 /\ reg' = 0 =>
          MayFail(reg) \/ pend # 0 \/ accept'.pc = "closing"]_vars

\* The accept loop gets the lock: an attachment comes to its end.
AttachCompletes == accept.pc # "idle" ~> accept.pc = "idle"

\* A Member on its channel gets its envelope or learns that the channel is over.
AwaitEnds == mode = "await" ~> mode # "await"
=============================================================================
