-------------------------- MODULE GroupActionOutbox --------------------------
(***************************************************************************)
(* The way of one Member's actions to the authority of its room: the       *)
(* append-only action log, the durable single-flight outbox beside it, the *)
(* channel to the Leader, the queue of the Leader's hub, the authority's   *)
(* last_client_seq, and the receipts on their way back                     *)
(* (proto/group_runtime.py, proto/group.py).                               *)
(*                                                                         *)
(* Action k is the k-th record of the action log: its end_offset and its   *)
(* action_id are both k, for an action gets one action_id and keeps it.    *)
(* Client sequences are per actor, so one actor is enough; the inputs of   *)
(* the others only decide what the hook accepts and when the room ends.    *)
(* With Local the actor is the Leader itself, whose hub reads the outbox.  *)
(***************************************************************************)
EXTENDS Naturals, Sequences, SequencesExt

CONSTANTS
    MaxActions,   \* bound: actions the user appends to the log
    MaxCopies,    \* bound: inputs and answers in flight when a retry is sent
    MaxFaults,    \* bound: cut channels and successions
    Local         \* the actor is the Leader

ASSUME OutboxBounds == MaxActions \in Nat /\ MaxCopies \in Nat /\ MaxFaults \in Nat
ASSUME LocalAssumption == Local \in BOOLEAN

VARIABLES
    submitted,  \* records of group-actions.jsonl
    outbox,     \* _GroupActionOutbox: committed offset, accepted seq, pending
    waiting,    \* the pending action was sent on this channel, awaiting a receipt
    mode,       \* the Member's channel: idle, run, terminal, done
    up,         \* inputs on the channel to the Leader
    queue,      \* inputs in the hub's queue, also those of an earlier channel
    down,       \* receipts and the completing frame on the channel to the Member
    last,       \* authority: last_client_seq of the actor
    applied,    \* authority: the actor's actions in the history, in order
    completed,  \* authority: the room is completed
    verdict,    \* what the receipts told the user of each action
    ever,       \* actions some Leader applied, in whatever history
    faults

user      == <<submitted, verdict>>
wire      == <<up, down>>
authority == <<last, applied, completed, ever>>
vars == <<submitted, outbox, waiting, mode, up, queue, down, last, applied,
          completed, verdict, ever, faults>>

Actions == 1..MaxActions
Input   == [seq : Nat, act : 0..MaxActions]
None    == [seq |-> 0, act |-> 0]
Statuses == {"accepted", "duplicate", "rejected"}
Receipt == [kind : {"receipt"}, status : Statuses, seq : Nat, act : 0..MaxActions]
Final   == [kind : {"final"}, last : Nat]

TypeOK ==
    /\ submitted \in 0..MaxActions
    /\ outbox \in [offset : 0..MaxActions, accepted : Nat, pending : Input]
    /\ waiting \in BOOLEAN
    /\ mode \in {"idle", "run", "terminal", "done"}
    /\ up \in Seq(Input)
    /\ queue \in Seq(Input)
    /\ down \in Seq(Receipt \union Final)
    /\ last \in Nat
    /\ applied \in Seq(0..MaxActions)
    /\ completed \in BOOLEAN
    /\ verdict \in [Actions -> Statuses \union {"none"}]
    /\ ever \in SUBSET (0..MaxActions)
    /\ faults \in 0..MaxFaults

Init ==
    /\ submitted = 0
    /\ outbox = [offset |-> 0, accepted |-> 0, pending |-> None]
    /\ waiting = FALSE
    /\ mode = IF Local THEN "run" ELSE "idle"
    /\ up = <<>>
    /\ queue = <<>>
    /\ down = <<>>
    /\ last = 0
    /\ applied = <<>>
    /\ completed = FALSE
    /\ verdict = [a \in Actions |-> "none"]
    /\ ever = {}
    /\ faults = 0

AtLeast(a, b) == IF a > b THEN a ELSE b

-----------------------------------------------------------------------------
(* The outbox                                                                *)

\* prepare: the action in flight, or the next record of the log with the next
\* client_seq.
Prepared(o) ==
    IF o.pending # None THEN o
    ELSE [o EXCEPT !.pending = [seq |-> o.accepted + 1, act |-> o.offset + 1]]

\* handle_receipt: the receipt must name the pending action and its client_seq.
MutantMatches(o, r) == o.pending # None /\ r.seq = o.accepted /\ r.act = o.pending.act
Matches(o, r) == o.pending # None /\ r.seq = o.pending.seq /\ r.act = o.pending.act

\* A terminal receipt commits the action; a rejected one leaves its client_seq
\* to the next action.
MutantSettled(o, r) ==
    [offset   |-> submitted,
     accepted |-> IF r.status = "rejected" THEN o.accepted ELSE AtLeast(o.accepted, r.seq),
     pending  |-> None]
Settled(o, r) ==
    [offset   |-> AtLeast(o.offset, o.pending.act),
     accepted |-> IF r.status = "rejected" THEN o.accepted ELSE AtLeast(o.accepted, r.seq),
     pending  |-> None]

\* reconcile: align the pending action with the client_seq of a checkpoint.
Reconciled(o, n) ==
    IF o.pending = None THEN [o EXCEPT !.accepted = n]
    ELSE IF o.pending.seq <= n
    THEN [offset |-> AtLeast(o.offset, o.pending.act), accepted |-> n, pending |-> None]
    ELSE [o EXCEPT !.accepted = n, !.pending.seq = n + 1]

-----------------------------------------------------------------------------
(* The Member                                                                *)

\* `session action` appends a record to the log.
Submit ==
    /\ mode # "done"
    /\ submitted < MaxActions
    /\ submitted' = submitted + 1
    /\ UNCHANGED <<outbox, waiting, mode, wire, queue, authority, verdict, faults>>

\* The sender (or the hub's own reader) takes the pending action or prepares the
\* next one, and sends it.
Send ==
    /\ mode = "run"
    /\ ~waiting
    /\ outbox.pending # None \/ outbox.offset < submitted
    /\ outbox' = Prepared(outbox)
    /\ IF Local
       THEN queue' = Append(queue, outbox'.pending) /\ up' = up
       ELSE up' = Append(up, outbox'.pending) /\ queue' = queue
    /\ waiting' = TRUE
    /\ UNCHANGED <<user, mode, down, authority, faults>>

\* No receipt for a second: the sender sends the pending action once more.
Retry ==
    /\ ~Local
    /\ mode = "run"
    /\ waiting
    /\ Len(up) + Len(queue) + Len(down) < MaxCopies
    /\ up' = Append(up, outbox.pending)
    /\ UNCHANGED <<user, outbox, waiting, mode, down, queue, authority, faults>>

\* A receipt for the pending action settles it; any other is only reported.
ReceiveReceipt ==
    /\ mode = "run"
    /\ down # <<>>
    /\ LET r == Head(down)
       IN  /\ r.kind = "receipt"
           /\ IF Matches(outbox, r)
              THEN /\ outbox' = Settled(outbox, r)
                   /\ verdict' = [verdict EXCEPT ![r.act] = r.status]
                   /\ waiting' = FALSE
              ELSE UNCHANGED <<outbox, verdict, waiting>>
    /\ down' = Tail(down)
    /\ UNCHANGED <<submitted, mode, up, queue, authority, faults>>

\* The completing frame.  A pending action whose client_seq its checkpoint covers
\* is committed, and the Member waits for the receipt; otherwise it is done.
ReceiveFinal ==
    /\ mode = "run"
    /\ down # <<>>
    /\ LET f == Head(down)
       IN  /\ f.kind = "final"
           /\ IF outbox.pending # None /\ outbox.pending.seq <= f.last
              THEN /\ outbox' = Reconciled(outbox, f.last)
                   /\ mode' = "terminal"
              ELSE /\ mode' = "done"
                   /\ outbox' = outbox
    /\ down' = Tail(down)
    /\ waiting' = FALSE
    /\ UNCHANGED <<user, up, queue, authority, faults>>

\* The receipt of the completing action came, or two seconds passed or the
\* channel closed: then the Member reports it accepted from the checkpoint.
Finish ==
    /\ mode = "terminal"
    /\ verdict' = [verdict EXCEPT ![outbox.offset] = "accepted"]
    /\ mode' = "done"
    /\ UNCHANGED <<submitted, outbox, waiting, wire, queue, authority, faults>>

\* A (re)connection: the outbox is loaded and reconciled with the bootstrap.
Reconnect ==
    /\ mode = "idle"
    /\ ~completed
    /\ outbox' = Reconciled(outbox, last)
    /\ waiting' = FALSE
    /\ mode' = "run"
    /\ UNCHANGED <<user, wire, queue, authority, faults>>

\* Recovery finds the room closed.
FindClosed ==
    /\ mode = "idle"
    /\ completed
    /\ mode' = "done"
    /\ UNCHANGED <<user, outbox, waiting, wire, queue, authority, faults>>

-----------------------------------------------------------------------------
(* The Leader                                                                *)

\* The receiver of the channel puts an input on the hub's queue.
Enqueue ==
    /\ up # <<>>
    /\ ~completed
    /\ queue' = Append(queue, Head(up))
    /\ up' = Tail(up)
    /\ UNCHANGED <<user, outbox, waiting, mode, down, authority, faults>>

MutantDuplicate(e)  == e.seq < last
Duplicate(e) == e.seq <= last
Gap(e)       == e.seq > last + 1

Answer(e, status) == [kind |-> "receipt", status |-> status, seq |-> e.seq, act |-> e.act]

\* What the hub sends: to the channel registered now, or to nobody; the Leader's
\* own receipt settles its outbox at once.
Reply(e, status, frames) ==
    IF Local
    THEN /\ IF Matches(outbox, Answer(e, status))
            THEN /\ outbox' = Settled(outbox, Answer(e, status))
                 /\ verdict' = [verdict EXCEPT ![e.act] = status]
                 /\ waiting' = FALSE
            ELSE UNCHANGED <<outbox, verdict, waiting>>
         /\ mode' = IF frames = <<>> THEN mode ELSE "done"
         /\ down' = down
    ELSE /\ down' = IF mode = "run" THEN down \o frames \o <<Answer(e, status)>> ELSE down
         /\ UNCHANGED <<outbox, verdict, waiting, mode>>

\* apply_input of an input the hook accepts; fin: it completes the room, and the
\* completing frame is broadcast before the receipt.
Apply(fin) ==
    /\ ~completed
    /\ queue # <<>>
    /\ LET e == Head(queue)
       IN  /\ ~Duplicate(e)
           /\ ~Gap(e)
           /\ last' = e.seq
           /\ applied' = Append(applied, e.act)
           /\ ever' = ever \union {e.act}
           /\ completed' = fin
           /\ Reply(e, "accepted",
                    IF fin THEN <<[kind |-> "final", last |-> e.seq]>> ELSE <<>>)
    /\ queue' = Tail(queue)
    /\ UNCHANGED <<submitted, up, faults>>

\* A client_seq the authority has accepted before: nothing is applied.
AnswerDuplicate ==
    /\ ~completed
    /\ queue # <<>>
    /\ Duplicate(Head(queue))
    /\ Reply(Head(queue), "duplicate", <<>>)
    /\ queue' = Tail(queue)
    /\ UNCHANGED <<submitted, up, authority, faults>>

\* The hook raises GroupProtocolError (not this actor's turn, say), or the
\* client_seq leaves a gap.
Refuse ==
    /\ ~completed
    /\ queue # <<>>
    /\ ~Duplicate(Head(queue))
    /\ Reply(Head(queue), "rejected", <<>>)
    /\ queue' = Tail(queue)
    /\ UNCHANGED <<submitted, up, authority, faults>>

\* The input of another Member completes the room.
OtherCompletes ==
    /\ ~completed
    /\ completed' = TRUE
    /\ IF Local
       THEN mode' = "done" /\ down' = down
       ELSE /\ mode' = mode
            /\ down' = IF mode = "run"
                       THEN Append(down, [kind |-> "final", last |-> last]) ELSE down
    /\ UNCHANGED <<user, outbox, waiting, up, queue, last, applied, ever, faults>>

-----------------------------------------------------------------------------
(* Faults                                                                    *)

Fault == ~Local /\ faults < MaxFaults /\ faults' = faults + 1

\* The channel is lost with what is on it; the hub's queue is not.
Cut ==
    /\ mode = "run"
    /\ Fault
    /\ mode' = "idle"
    /\ up' = <<>>
    /\ down' = <<>>
    /\ waiting' = FALSE
    /\ UNCHANGED <<user, outbox, queue, authority>>

\* Another Member succeeds the Leader from a checkpoint that holds the first n
\* actions of this actor.
Succession ==
    /\ ~completed
    /\ mode \in {"idle", "run"}
    /\ Fault
    /\ \E n \in 0..last :
         /\ last' = n
         /\ applied' = SubSeq(applied, 1, n)
    /\ mode' = "idle"
    /\ up' = <<>>
    /\ queue' = <<>>
    /\ down' = <<>>
    /\ waiting' = FALSE
    /\ UNCHANGED <<user, outbox, completed, ever>>

-----------------------------------------------------------------------------
Next ==
    \/ Submit \/ Send \/ Retry \/ ReceiveReceipt \/ ReceiveFinal \/ Finish
    \/ Reconnect \/ FindClosed
    \/ Enqueue \/ (\E fin \in BOOLEAN : Apply(fin)) \/ AnswerDuplicate \/ Refuse
    \/ OtherCompletes
    \/ Cut \/ Succession

Spec == Init /\ [][Next]_vars

\* Fairness: the tasks of both processes run, the channel delivers while it is
\* up, and a Member without a channel reconnects.
Fairness ==
    /\ WF_vars(Send) /\ WF_vars(ReceiveReceipt) /\ WF_vars(ReceiveFinal)
    /\ WF_vars(Finish) /\ WF_vars(Reconnect) /\ WF_vars(FindClosed)
    /\ WF_vars(Enqueue)
    /\ WF_vars((\E fin \in BOOLEAN : Apply(fin)) \/ AnswerDuplicate \/ Refuse)

FairSpec == Spec /\ Fairness

-----------------------------------------------------------------------------
(* Properties                                                                *)

\* However often inputs are sent again, over however many channels and Leaders,
\* a history applies the actor's actions in the order of the log, none twice.
AppliedInOrder ==
    \A i, j \in DOMAIN applied : i < j => applied[i] < applied[j]

\* The authority never sees a gap: a gap is answered with a final rejection, and
\* the action would be lost.
NoGap == \A i \in DOMAIN queue : queue[i].seq <= last + 1

\* An action the outbox has passed was applied or refused; the one exception is
\* an action whose client_seq an earlier, refused action had used after all (a
\* second copy of it was accepted).
LostOnlyAfterReuse ==
    \A b \in 1..outbox.offset :
        \/ b \in ever
        \/ verdict[b] = "rejected"
        \/ \E a \in 1..(b - 1) : verdict[a] = "rejected" /\ a \in ever

\* A receipt tells the truth: accepted (or duplicate) means applied, rejected
\* means not applied.
ReceiptsTellTheTruth ==
    \A a \in Actions :
        /\ verdict[a] \in {"accepted", "duplicate"} => a \in ever
        /\ verdict[a] = "rejected" => a \notin ever

\* Every submitted action is settled, or the session ends.
SubmittedIsSettled ==
    \A a \in Actions : (submitted >= a) ~> (outbox.offset >= a \/ mode = "done")
=============================================================================
