----------------------------- MODULE FreeChat ------------------------------
(***************************************************************************)
(* One side of a free-mode conversation (proto/engine.py): texts that      *)
(* other processes append to a durable inbox, the backlog of that inbox    *)
(* which is sent before anything is received, and then four tasks, of      *)
(* which the first receiver or sender to end takes the others along.       *)
(***************************************************************************)
EXTENDS Naturals, Sequences, Functions

CONSTANTS
    MaxLines,  \* bound: lines appended to the inbox
    Quit,      \* the line that says /quit, 0 when none does
    MaxHeard,  \* bound: messages of the peer
    None

VARIABLES
    lines,     \* complete lines of inbox.jsonl, 1..lines
    torn,      \* an appender is in the middle of the next line
    offset,    \* inbox_offset, in lines
    phase,     \* "handshake", "backlog", "chatting", "over"
    backlog,   \* of initial_items, what is still to be sent
    input,     \* input_q, of inbox lines
    sent,      \* lines sent to the peer
    open,      \* the connection
    heard,     \* messages received
    tasks,     \* receiver and sender: "on", "done" or "failed"
    terminal,  \* terminal_result is set
    outcome    \* what the engine returned: "completed", "disconnected", or "raised"

chat == <<lines, torn, offset, phase, backlog, input, sent, open, heard, tasks, terminal, outcome>>

Lines(a, b) == [i \in 1..(b - a) |-> a + i]

Init ==
    /\ lines = 0 /\ torn = FALSE /\ offset = 0
    /\ phase = "handshake"
    /\ backlog = <<>> /\ input = <<>> /\ sent = <<>>
    /\ open = TRUE /\ heard = 0
    /\ tasks = [receiver |-> "off", sender |-> "off"]
    /\ terminal = FALSE /\ outcome = None

(* another process appends, in one or in two writes *)
Appender ==
    /\ lines < MaxLines
    /\ \/ torn' = TRUE /\ ~torn /\ UNCHANGED lines
       \/ torn' = FALSE /\ lines' = lines + 1
    /\ UNCHANGED <<offset, phase, backlog, input, sent, open, heard, tasks, terminal, outcome>>

MutantReadable == IF torn THEN lines + 1 ELSE lines
(* _read_free_inbox stops before a line without its newline *)
Readable == lines

Raise == phase' = "over" /\ outcome' = "raised"

(* Host: the join, answered; guest: the join, and its answer.  A closed     *)
(* channel is not caught here.                                              *)
Handshake ==
    /\ phase = "handshake"
    /\ \/ open /\ phase' = "read" /\ UNCHANGED outcome
       \/ ~open /\ Raise
    /\ UNCHANGED <<lines, torn, offset, backlog, input, sent, open, heard, tasks, terminal>>

ReadBacklog ==
    /\ phase = "read"
    /\ backlog' = Lines(offset, Readable) /\ offset' = Readable
    /\ phase' = "backlog"
    /\ UNCHANGED <<lines, torn, input, sent, open, heard, tasks, terminal, outcome>>

(* send_local_text, for the backlog: a failed write is not caught *)
SendBacklog ==
    /\ phase = "backlog" /\ backlog # <<>>
    /\ backlog' = Tail(backlog)
    /\ \/ /\ sent' = Append(sent, Head(backlog))
          /\ IF Head(backlog) = Quit THEN phase' = "over" /\ outcome' = "completed"
             ELSE UNCHANGED <<phase, outcome>>
       \/ ~open /\ Raise /\ UNCHANGED sent
    /\ UNCHANGED <<lines, torn, offset, input, open, heard, tasks, terminal>>

MutantStartTasks ==
    /\ phase = "backlog"
    /\ phase' = "chatting"
    /\ tasks' = [receiver |-> "on", sender |-> "on"]
    /\ UNCHANGED <<lines, torn, offset, backlog, input, sent, open, heard, terminal, outcome>>

StartTasks ==
    /\ phase = "backlog" /\ backlog = <<>>
    /\ phase' = "chatting"
    /\ tasks' = [receiver |-> "on", sender |-> "on"]
    /\ UNCHANGED <<lines, torn, offset, backlog, input, sent, open, heard, terminal, outcome>>

Chatting == phase = "chatting" /\ tasks.receiver = "on" /\ tasks.sender = "on"

(* inbox_producer, and stdin_producer whose lines are not numbered here *)
Produce ==
    /\ Chatting
    /\ input' = input \o Lines(offset, Readable) /\ offset' = Readable
    /\ UNCHANGED <<lines, torn, phase, backlog, sent, open, heard, tasks, terminal, outcome>>

(* sender: a failed write ends the task with the exception *)
SendLine ==
    /\ Chatting /\ input # <<>>
    /\ input' = Tail(input)
    /\ \/ /\ sent' = Append(sent, Head(input))
          /\ tasks' = IF Head(input) = Quit THEN [tasks EXCEPT !.sender = "done"] ELSE tasks
       \/ ~open /\ tasks' = [tasks EXCEPT !.sender = "failed"] /\ UNCHANGED sent
    /\ UNCHANGED <<lines, torn, offset, phase, backlog, open, heard, terminal, outcome>>

(* receiver: a message, one that is refused or whose hook fails, the end,   *)
(* or the end of the channel                                                *)
Receive ==
    /\ Chatting
    /\ \/ heard < MaxHeard /\ heard' = heard + 1 /\ UNCHANGED <<tasks, terminal>>
       \/ heard < MaxHeard /\ heard' = heard + 1 /\ tasks' = [tasks EXCEPT !.receiver = "done"] /\ UNCHANGED terminal
       \/ ~open /\ tasks' = [tasks EXCEPT !.receiver = "done"] /\ terminal' = TRUE /\ UNCHANGED heard
    /\ UNCHANGED <<lines, torn, offset, phase, backlog, input, sent, open, outcome>>

(* asyncio.wait returns with the first of the two *)
Finish ==
    /\ phase = "chatting" /\ ~Chatting
    /\ phase' = "over"
    /\ outcome' = IF terminal THEN "disconnected" ELSE "completed"
    /\ UNCHANGED <<lines, torn, offset, backlog, input, sent, open, heard, tasks, terminal>>

Disconnect ==
    /\ open /\ open' = FALSE
    /\ UNCHANGED <<lines, torn, offset, phase, backlog, input, sent, heard, tasks, terminal, outcome>>

Next ==
    \/ Appender \/ Handshake \/ ReadBacklog \/ SendBacklog \/ StartTasks
    \/ Produce \/ SendLine \/ Receive \/ Finish \/ Disconnect

Spec == Init /\ [][Next]_chat
-----------------------------------------------------------------------------
(* Every variable keeps its type (the locals of _run_free_async).           *)
TypeOK ==
    /\ lines \in 0..MaxLines /\ offset \in 0..lines /\ torn \in BOOLEAN
    /\ phase \in {"handshake", "read", "backlog", "chatting", "over"}
    /\ outcome \in {None, "completed", "disconnected", "raised"}
    /\ heard \in 0..MaxHeard /\ open \in BOOLEAN /\ terminal \in BOOLEAN

(* No command of the inbox is lost or taken twice, also when it is read     *)
(* while it is being written: what was sent and what waits to be sent is    *)
(* the inbox up to the offset, in order (the partial tail is left alone).   *)
EveryLineOnce ==
    /\ offset <= lines
    /\ open /\ outcome = None => sent \o backlog \o input = Lines(0, offset)

(* A conversation ends in order only with its backlog sent: what was        *)
(* appended while the handshake was forming is delivered before a message   *)
(* of the peer can end the session.                                         *)
BacklogFirst == outcome = "completed" => backlog = <<>> \/ Quit \in Range(sent)

(* A disconnect is never a completed session (_handle_peer_disconnect:      *)
(* "returns a completed=False result so no session proof is produced").     *)
DisconnectNeverCompletes == outcome = "completed" => tasks.sender # "failed"
=============================================================================
