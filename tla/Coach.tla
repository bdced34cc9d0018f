-------------------------------- MODULE Coach --------------------------------
(***************************************************************************)
(* The coach of the web page (agent/coach.py): threads of the web server   *)
(* send and reset, one thread runs a subprocess for each turn, and the     *)
(* inbox on disk (proto/sdk.py) lets a new process take up what the old    *)
(* one left.  Every step below is a statement between two locks.           *)
(***************************************************************************)
EXTENDS Naturals, Sequences, FiniteSets, FiniteSetsExt

CONSTANTS
    Agents,     \* who makes the session id: "caller" ({session_id} in the template) or "agent"
    MaxTurns,   \* bound: messages of the user
    MaxResets,  \* bound: resets
    MaxEnds,    \* bound: ends of the process
    None

VARIABLES
    agent,
    process,     \* "up", "stopping" or "down"
    ends,
    generation,  \* _generation
    inbox,       \* coach_inbox.jsonl
    dialog,      \* coach_dialog.jsonl
    session,     \* coach_session.json: the generation whose conversation it names, or None
    queue,       \* _inbox
    sender,      \* a thread in send
    resetter,    \* a thread in reset
    worker,      \* the consumer and the turn it is in
    overlapped   \* turns that were sent while a reset ran

coach == <<agent, process, ends, generation, inbox, dialog, session, queue, sender, resetter, worker, overlapped>>

Idle == [at |-> "idle", turn |-> 0, gen |-> 0, resume |-> FALSE, again |-> FALSE]
Away == [at |-> "idle", turn |-> 0, gen |-> 0]
Turns == Cardinality({i \in DOMAIN inbox : inbox[i].type = "enqueue"})

Init ==
    /\ agent \in Agents /\ process = "up" /\ ends = 0 /\ generation = 0
    /\ inbox = <<>> /\ dialog = <<>> /\ session = None /\ queue = <<>>
    /\ sender = Away /\ resetter = Away /\ worker = Idle /\ overlapped = {}
-----------------------------------------------------------------------------
(* CoachInbox: what is still to do, in the order it was asked                *)
Generation == Max({0} \cup {inbox[i].gen : i \in {k \in DOMAIN inbox : inbox[k].type = "reset"}})
Done(turn) == \E i \in DOMAIN inbox : inbox[i].type = "done" /\ inbox[i].turn = turn
Mark(type, turn, gen) == Append(inbox, [type |-> type, turn |-> turn, gen |-> gen])
MutantPending == {i \in DOMAIN inbox : inbox[i].type = "enqueue" /\ inbox[i].gen >= Generation}
Pending ==
    {i \in DOMAIN inbox : inbox[i].type = "enqueue" /\ ~Done(inbox[i].turn) /\ inbox[i].gen >= Generation}
InOrder(lines) ==
    {order \in [1..Cardinality(lines) -> lines] : \A i, j \in DOMAIN order : i < j => order[i] < order[j]}

(* send: the generation, the inbox on disk, the queue in memory              *)
Send ==
    /\ process = "up" /\ sender = Away /\ Turns < MaxTurns
    /\ sender' = [at |-> "append", turn |-> Turns + 1, gen |-> generation]
    /\ overlapped' = IF resetter # Away THEN overlapped \cup {Turns + 1} ELSE overlapped
    /\ UNCHANGED <<agent, process, ends, generation, inbox, dialog, session, queue, resetter, worker>>
SendAppend ==
    /\ sender.at = "append"
    /\ inbox' = Mark("enqueue", sender.turn, sender.gen)
    /\ sender' = [sender EXCEPT !.at = "put"]
    /\ UNCHANGED <<agent, process, ends, generation, dialog, session, queue, resetter, worker, overlapped>>
SendPut ==
    /\ sender.at = "put"
    /\ queue' = Append(queue, [turn |-> sender.turn, gen |-> sender.gen])
    /\ sender' = Away
    /\ UNCHANGED <<agent, process, ends, generation, inbox, dialog, session, resetter, worker, overlapped>>

(* reset: the generation, the queue, the inbox, the dialog and the session   *)
Reset ==
    /\ process = "up" /\ resetter = Away /\ generation < MaxResets
    /\ generation' = generation + 1
    /\ resetter' = [at |-> "drain", turn |-> 0, gen |-> generation + 1]
    /\ overlapped' = IF sender # Away THEN overlapped \cup {sender.turn} ELSE overlapped
    /\ UNCHANGED <<agent, process, ends, inbox, dialog, session, queue, sender, worker>>
ResetStep(from, to) == resetter.at = from /\ resetter' = IF to = "idle" THEN Away ELSE [resetter EXCEPT !.at = to]
ResetDrain ==
    /\ ResetStep("drain", "mark") /\ queue' = <<>>
    /\ UNCHANGED <<agent, process, ends, generation, inbox, dialog, session, sender, worker, overlapped>>
ResetMark ==
    /\ ResetStep("mark", "dialog") /\ inbox' = Mark("reset", 0, resetter.gen)
    /\ UNCHANGED <<agent, process, ends, generation, dialog, session, queue, sender, worker, overlapped>>
ResetDialog ==
    /\ ResetStep("dialog", "session") /\ dialog' = <<>>
    /\ UNCHANGED <<agent, process, ends, generation, inbox, session, queue, sender, worker, overlapped>>
ResetSession ==
    /\ ResetStep("session", "idle") /\ session' = None
    /\ UNCHANGED <<agent, process, ends, generation, inbox, dialog, queue, sender, worker, overlapped>>
-----------------------------------------------------------------------------
(* _loop and _handle_turn                                                    *)
IsCurrent == worker.gen = generation
Says(role) == Append(dialog, [role |-> role, turn |-> worker.turn, gen |-> worker.gen])
At(there) == worker' = IF there = "idle" THEN Idle ELSE [worker EXCEPT !.at = there]
Take ==
    /\ process = "up" /\ worker = Idle /\ queue # <<>>
    /\ worker' = [Idle EXCEPT !.at = "check", !.turn = Head(queue).turn, !.gen = Head(queue).gen]
    /\ queue' = Tail(queue)
    /\ UNCHANGED <<agent, process, ends, generation, inbox, dialog, session, sender, resetter, overlapped>>
Check ==
    /\ worker.at = "check" /\ At(IF IsCurrent THEN "user" ELSE "idle")
    /\ UNCHANGED <<agent, process, ends, generation, inbox, dialog, session, queue, sender, resetter, overlapped>>
User ==
    /\ worker.at = "user" /\ At("session")
    /\ dialog' = IF \E i \in DOMAIN dialog : dialog[i].turn = worker.turn /\ dialog[i].role = "user"
                 THEN dialog ELSE Says("user")
    /\ UNCHANGED <<agent, process, ends, generation, inbox, session, queue, sender, resetter, overlapped>>
NewSession == IF agent = "caller" THEN worker.gen ELSE None
Conversation ==
    /\ worker.at = "session"
    /\ worker' = [worker EXCEPT !.at = "running", !.resume = session # None]
    /\ session' = IF session = None THEN NewSession ELSE session
    /\ UNCHANGED <<agent, process, ends, generation, inbox, dialog, queue, sender, resetter, overlapped>>

(* _run_streaming: the subprocess ends, is terminated, or times out          *)
Ran ==
    /\ worker.at = "running"
    /\ IF process = "stopping" \/ ~IsCurrent
       THEN At(IF worker.again /\ IsCurrent THEN "fail" ELSE "idle")
       ELSE \/ At("persist") \/ At("fail")
            \/ worker.resume /\ At("lost")
    /\ UNCHANGED <<agent, process, ends, generation, inbox, dialog, session, queue, sender, resetter, overlapped>>
Retry ==
    /\ worker.at = "lost"
    /\ IF IsCurrent
       THEN /\ session' = NewSession
            /\ worker' = [worker EXCEPT !.at = "running", !.resume = FALSE, !.again = TRUE]
       ELSE At("fail") /\ UNCHANGED session
    /\ UNCHANGED <<agent, process, ends, generation, inbox, dialog, queue, sender, resetter, overlapped>>
Persist ==
    /\ worker.at = "persist" /\ At("reply")
    /\ session' = IF agent = "agent" THEN worker.gen ELSE session
    /\ UNCHANGED <<agent, process, ends, generation, inbox, dialog, queue, sender, resetter, overlapped>>
Reply ==
    /\ worker.at = "reply" /\ At("done") /\ dialog' = Says("coach")
    /\ UNCHANGED <<agent, process, ends, generation, inbox, session, queue, sender, resetter, overlapped>>
Fails ==
    /\ worker.at = "fail" /\ At("done")
    /\ dialog' = IF IsCurrent THEN Says("error") ELSE dialog
    /\ UNCHANGED <<agent, process, ends, generation, inbox, session, queue, sender, resetter, overlapped>>
MarkDone ==
    /\ worker.at = "done" /\ At("idle") /\ inbox' = Mark("done", worker.turn, worker.gen)
    /\ UNCHANGED <<agent, process, ends, generation, dialog, session, queue, sender, resetter, overlapped>>
-----------------------------------------------------------------------------
(* stop lets the thread end its turn; a crash does not.  A new process reads *)
(* the generation and what is pending.                                       *)
Stop ==
    /\ process = "up" /\ ends < MaxEnds /\ process' = "stopping" /\ ends' = ends + 1
    /\ UNCHANGED <<agent, generation, inbox, dialog, session, queue, sender, resetter, worker, overlapped>>
Down ==
    /\ \/ process = "stopping" /\ worker = Idle /\ UNCHANGED ends
       \/ process = "up" /\ ends < MaxEnds /\ ends' = ends + 1
    /\ process' = "down" /\ worker' = Idle /\ sender' = Away /\ resetter' = Away /\ queue' = <<>>
    /\ UNCHANGED <<agent, generation, inbox, dialog, session, overlapped>>
MutantStart ==
    /\ process = "down" /\ process' = "up" /\ generation' = Generation
    /\ UNCHANGED <<agent, ends, inbox, dialog, session, queue, sender, resetter, worker, overlapped>>
Start ==
    /\ process = "down" /\ process' = "up"
    /\ generation' = Generation
    /\ \E order \in InOrder(Pending) :
          queue' = [i \in DOMAIN order |-> [turn |-> inbox[order[i]].turn, gen |-> inbox[order[i]].gen]]
    /\ UNCHANGED <<agent, ends, inbox, dialog, session, sender, resetter, worker, overlapped>>

Next ==
    \/ Send \/ SendAppend \/ SendPut
    \/ Reset \/ ResetDrain \/ ResetMark \/ ResetDialog \/ ResetSession
    \/ Take \/ Check \/ User \/ Conversation \/ Ran \/ Retry \/ Persist \/ Reply \/ Fails \/ MarkDone
    \/ Stop \/ Down \/ Start
Spec == Init /\ [][Next]_coach
-----------------------------------------------------------------------------
TypeOK ==
    /\ agent \in Agents /\ process \in {"up", "stopping", "down"} /\ ends \in 0..MaxEnds
    /\ generation \in 0..MaxResets /\ session \in 0..MaxResets \cup {None}
    /\ \A i \in DOMAIN inbox : inbox[i].type \in {"enqueue", "done", "reset"} /\ inbox[i].turn \in 0..MaxTurns
    /\ \A i \in DOMAIN dialog : dialog[i].role \in {"user", "coach", "error"} /\ dialog[i].turn \in 1..MaxTurns
    /\ sender.at \in {"idle", "append", "put"}
    /\ resetter.at \in {"idle", "drain", "mark", "dialog", "session"}
    /\ worker.at \in {"idle", "check", "user", "session", "running", "lost", "persist", "reply", "fail", "done"}

(* What the inbox says is to do is on its way to be done: in the queue, with *)
(* the worker, or with the thread that sends it.  (The message of a thread   *)
(* that a reset overlaps may wait for the next process, or for ever.)        *)
NoTurnLost ==
    process = "up" => \A i \in Pending :
        LET turn == inbox[i].turn IN
        \/ inbox[i].gen < generation \/ turn \in overlapped
        \/ turn \in {queue[k].turn : k \in DOMAIN queue} \cup {worker.turn, sender.turn}

(* A turn that is marked done is not run again, in this process or a later   *)
(* one, and one that is queued twice is not in two places.                   *)
DoneIsDone ==
    /\ worker.at \in {"check", "user", "session", "running"} => ~Done(worker.turn)
    /\ \A i, j \in DOMAIN queue : queue[i].turn = queue[j].turn => i = j

(* "stale turns cannot reappear after the user clears the coach              *)
(* conversation": a reset that has ended leaves no line and no session of    *)
(* an older generation.                                                      *)
StaleStayAway ==
    process = "up" /\ resetter = Away =>
        /\ \A i \in DOMAIN dialog : dialog[i].gen >= Generation
        /\ session = None \/ session >= Generation
=============================================================================
