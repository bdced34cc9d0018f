---------------------------- MODULE DuelEngine -----------------------------
(***************************************************************************)
(* A two-party match of proto/engine.py, host against guest, over the      *)
(* heartbeat channel of engine/p2p.py, up to what agent/host.py and        *)
(* agent/join.py tell the server: session_loop, request_response and       *)
(* simultaneous_round.  Messages travel on a stream per direction; a       *)
(* background reader moves them into a queue the engine receives from.     *)
(* The hooks are abstract: a host's hook may go on, finish with a winner   *)
(* or abort at any message, a guest's hook follows the host.               *)
(***************************************************************************)
EXTENDS Naturals, Sequences, Functions

CONSTANTS
    Modes,      \* the flow modes played: session_loop, request_response, simultaneous_round
    Values,     \* what a side can choose in a simultaneous round
    MaxRounds,  \* bound: messages or rounds a match takes at most
    MaxPings,   \* bound: heartbeat pings on the wire
    None

Sides == {"host", "guest"}
Peer(s) == IF s = "host" THEN "guest" ELSE "host"
Winners == {"host", "guest", "draw"}

ASSUME DuelAssumption ==
    /\ MaxRounds \in Nat \ {0} /\ MaxPings \in Nat
    /\ None \notin Winners \union Values

VARIABLES
    mode,
    open,     \* the connection: a node that shuts down or crashes closes it
    wire,     \* per side: bytes on their way to it
    queue,    \* per side: _business_queue
    reader,   \* per side: "on", "error" (_reader_error is set) or "dead" (gone without)
    pings,    \* pings sent so far
    at,       \* per side: what the engine waits for, or "start", "done", "crashed", "left"
    round,    \* per side: round_num
    chosen,   \* per side: the value behind its commitment of the round
    held,     \* per side: the peer's commitment of the round (the value in it)
    last,     \* the winner in the guest's result_msg
    result,   \* per side: [completed, outcome] once done
    judged,   \* the winner the host's hook found
    session   \* the server's record: [status, reports]

vars == <<mode, open, wire, queue, reader, pings, at, round, chosen, held, last, result, judged, session>>

Msg(kind, r, v) == [kind |-> kind, round |-> r, value |-> v]
Undecided == [completed |-> FALSE, outcome |-> None]

Init ==
    /\ mode \in Modes
    /\ open = TRUE
    /\ wire = [s \in Sides |-> <<>>] /\ queue = [s \in Sides |-> <<>>]
    /\ reader = [s \in Sides |-> "on"]
    /\ pings = 0
    /\ at = [s \in Sides |-> IF s = "host" THEN "join" ELSE "start"]
    /\ round = [s \in Sides |-> 0]
    /\ chosen = [s \in Sides |-> None] /\ held = [s \in Sides |-> None] /\ last = None
    /\ result = [s \in Sides |-> Undecided]
    /\ judged = None
    /\ session = [status |-> "matched", reports |-> [s \in Sides |-> None]]

Over(s) == at[s] \in {"done", "crashed", "left"}
-----------------------------------------------------------------------------
(* The channel *)

(* the reader queues a business message *)
ReadMessage(s) ==
    /\ reader[s] = "on" /\ wire[s] # <<>> /\ Head(wire[s]).kind # "ping"
    /\ wire' = [wire EXCEPT ![s] = Tail(@)]
    /\ queue' = [queue EXCEPT ![s] = Append(@, Head(wire[s]))]
    /\ UNCHANGED <<mode, open, reader, pings, at, round, chosen, held, last, result, judged, session>>

(* the reader answers a ping; when the write of the pong fails, the         *)
(* exception ends the task, and nothing records it                          *)
ReadPing(s) ==
    /\ reader[s] = "on" /\ wire[s] # <<>> /\ Head(wire[s]).kind = "ping"
    /\ wire' = [wire EXCEPT ![s] = Tail(@)]
    /\ \/ reader' = reader
       \/ ~open /\ reader' = [reader EXCEPT ![s] = "dead"]
    /\ UNCHANGED <<mode, open, queue, pings, at, round, chosen, held, last, result, judged, session>>

(* the stream is closed: what is still on its way may be lost *)
MutantReadClosed(s) ==
    /\ reader[s] = "on" /\ ~open
    /\ reader' = reader
    /\ UNCHANGED <<mode, open, wire, queue, pings, at, round, chosen, held, last, result, judged, session>>

ReadClosed(s) ==
    /\ reader[s] = "on" /\ ~open
    /\ reader' = [reader EXCEPT ![s] = "error"]
    /\ UNCHANGED <<mode, open, wire, queue, pings, at, round, chosen, held, last, result, judged, session>>

SendPing(s) ==
    /\ open /\ pings < MaxPings /\ at[s] # "left" /\ at[s] # "crashed"
    /\ pings' = pings + 1
    /\ wire' = [wire EXCEPT ![Peer(s)] = Append(@, Msg("ping", 0, None))]
    /\ UNCHANGED <<mode, open, queue, reader, at, round, chosen, held, last, result, judged, session>>

(* recv hands out a queued message, unless the reader has seen the end *)
Receives(s, what) ==
    /\ at[s] = what /\ reader[s] # "error" /\ queue[s] # <<>>
    /\ queue' = [queue EXCEPT ![s] = Tail(@)]

Received(s) == Head(queue[s])

(* ChannelClosed: the engine ends uncompleted (_handle_peer_disconnect)     *)
MutantDisconnected(s) ==
    /\ ~Over(s) /\ at[s] # "start" /\ reader[s] = "error"
    /\ at' = [at EXCEPT ![s] = "done"]
    /\ result' = [result EXCEPT ![s] = [completed |-> TRUE, outcome |-> None]]
    /\ UNCHANGED <<mode, open, wire, queue, reader, pings, round, chosen, held, last, judged, session>>

Disconnected(s) ==
    /\ ~Over(s) /\ at[s] # "start" /\ reader[s] = "error"
    /\ at' = [at EXCEPT ![s] = "done"]
    /\ result' = [result EXCEPT ![s] = [completed |-> FALSE, outcome |-> None]]
    /\ UNCHANGED <<mode, open, wire, queue, reader, pings, round, chosen, held, last, judged, session>>

(* what a handler sends; a write on a closed connection is lost *)
Sends(s, ms) == wire' = [wire EXCEPT ![Peer(s)] = IF open THEN @ \o ms ELSE @]

(* ... or raises, which no engine catches: engine_error *)
Raises(s) ==
    /\ ~open /\ ~Over(s) /\ at[s] # "start"
    /\ at' = [at EXCEPT ![s] = "crashed"]
    /\ session' = IF session.status = "matched" THEN [session EXCEPT !.status = "failed"] ELSE session
    /\ UNCHANGED <<mode, open, wire, queue, reader, pings, round, chosen, held, last, result, judged>>

Ends(s, completed, outcome) ==
    /\ at' = [at EXCEPT ![s] = "done"]
    /\ result' = [result EXCEPT ![s] = [completed |-> completed, outcome |-> outcome]]

GoesOn(s, what) == at' = [at EXCEPT ![s] = what] /\ UNCHANGED result
-----------------------------------------------------------------------------
(* The handshake *)

First == IF mode = "simultaneous_round" THEN "commit" ELSE "message"

GuestJoins ==
    /\ at["guest"] = "start"
    /\ Sends("guest", <<Msg("join", 0, None)>>)
    /\ GoesOn("guest", "ready")
    /\ UNCHANGED <<mode, open, queue, reader, pings, round, chosen, held, last, judged, session>>

(* The host of a simultaneous round commits in the same breath; the hook    *)
(* of a session_loop may end the match here.                                *)
MutantHostJoined ==
    /\ Receives("host", "join")
    /\ \E v \in Values :
        /\ Sends("host", <<Msg("ready", 0, None), Msg("commit", 0, v), Msg("reveal", 0, v)>>)
        /\ chosen' = [chosen EXCEPT !["host"] = v]
    /\ GoesOn("host", "reveal")
    /\ UNCHANGED <<mode, open, reader, pings, round, held, last, judged, session>>

HostJoined ==
    /\ Receives("host", "join")
    /\ \/ /\ mode # "simultaneous_round"
          /\ Sends("host", <<Msg("ready", 0, None)>>)
          /\ \/ GoesOn("host", "message")
             \/ mode = "session_loop" /\ \E c \in BOOLEAN : Ends("host", c, None)
          /\ UNCHANGED chosen
       \/ /\ mode = "simultaneous_round"
          /\ \E v \in Values :
                /\ Sends("host", <<Msg("ready", 0, None), Msg("commit", 0, v)>>)
                /\ chosen' = [chosen EXCEPT !["host"] = v]
          /\ GoesOn("host", "commit")
    /\ UNCHANGED <<mode, open, reader, pings, round, held, last, judged, session>>

GuestReady ==
    /\ Receives("guest", "ready")
    /\ \/ /\ mode # "simultaneous_round"
          /\ \/ Sends("guest", <<Msg("move", 1, None)>>) /\ GoesOn("guest", "message")
             \/ UNCHANGED wire /\ Ends("guest", FALSE, None)
          /\ UNCHANGED chosen
       \/ /\ mode = "simultaneous_round"
          /\ \E v \in Values : chosen' = [chosen EXCEPT !["guest"] = v]
          /\ GoesOn("guest", "commit")
          /\ UNCHANGED wire
    /\ UNCHANGED <<mode, open, reader, pings, round, held, last, judged, session>>
-----------------------------------------------------------------------------
(* session_loop and request_response *)

HostHandles ==
    /\ mode = "session_loop" /\ Receives("host", "message")
    /\ LET m == Received("host") IN
        \/ /\ m.kind = "move" /\ m.round < MaxRounds
           /\ Sends("host", <<Msg("move", m.round + 1, None)>>)
           /\ GoesOn("host", "message") /\ UNCHANGED judged
        \/ /\ m.kind = "move"
           /\ \E w \in Winners \union {None} :
                /\ Sends("host", <<Msg("final", m.round, w)>>)
                /\ Ends("host", TRUE, w) /\ judged' = w
        \/ /\ \E c \in BOOLEAN : Ends("host", c, None)       \* no response
           /\ UNCHANGED <<wire, judged>>
        \/ /\ Sends("host", <<Msg("error", m.round, None)>>)  \* abort, with an error
           /\ Ends("host", FALSE, None) /\ UNCHANGED judged
    /\ UNCHANGED <<mode, open, reader, pings, round, chosen, held, last, session>>

GuestHandles ==
    /\ mode = "session_loop" /\ Receives("guest", "message")
    /\ LET m == Received("guest") IN
        CASE m.kind = "move" ->
               \/ Sends("guest", <<Msg("move", m.round + 1, None)>>) /\ GoesOn("guest", "message")
               \/ Sends("guest", <<Msg("error", m.round, None)>>) /\ Ends("guest", FALSE, None)
          [] m.kind = "final" -> UNCHANGED wire /\ Ends("guest", TRUE, m.value)
          [] OTHER ->                                    \* answered with an error of its own
               Sends("guest", <<Msg("error", m.round, None)>>) /\ Ends("guest", FALSE, None)
    /\ UNCHANGED <<mode, open, reader, pings, round, chosen, held, last, judged, session>>

(* one request, and one response or none *)
HostResponds ==
    /\ mode = "request_response" /\ Receives("host", "message")
    /\ \/ UNCHANGED wire /\ Ends("host", FALSE, None)
       \/ Sends("host", <<Msg("response", Received("host").round, None)>>) /\ Ends("host", TRUE, None)
    /\ UNCHANGED <<mode, open, reader, pings, round, chosen, held, last, judged, session>>

GuestResponded ==
    /\ mode = "request_response" /\ Receives("guest", "message")
    /\ UNCHANGED wire /\ Ends("guest", TRUE, None)
    /\ UNCHANGED <<mode, open, reader, pings, round, chosen, held, last, judged, session>>
-----------------------------------------------------------------------------
(* simultaneous_round: commit, commit, reveal, reveal, result *)

HostCommitted ==
    /\ Receives("host", "commit") /\ held' = [held EXCEPT !["host"] = Received("host").value]
    /\ Sends("host", <<Msg("reveal", round["host"], chosen["host"])>>)
    /\ GoesOn("host", "reveal")
    /\ UNCHANGED <<mode, open, reader, pings, round, chosen, last, judged, session>>

(* the reveal is checked against the commitment, the hook judges, and the   *)
(* next commitment follows at once, or the end                              *)
HostRevealed ==
    /\ Receives("host", "reveal")
    /\ LET m == Received("host") IN
        /\ IF m.value # held["host"]
           THEN /\ Sends("host", <<Msg("error", round["host"], None)>>)
                /\ Ends("host", FALSE, None)
                /\ UNCHANGED <<round, chosen, held, last, judged>>
           ELSE /\ round' = [round EXCEPT !["host"] = @ + 1]
                /\ held' = [held EXCEPT !["host"] = None]
                /\ \/ /\ round["host"] + 1 < MaxRounds
                      /\ \E v \in Values :
                          /\ Sends("host", <<Msg("result", round["host"], None), Msg("commit", round["host"] + 1, v)>>)
                          /\ chosen' = [chosen EXCEPT !["host"] = v]
                      /\ GoesOn("host", "commit") /\ UNCHANGED judged
                   \/ \E w \in Winners :
                        /\ Sends("host", <<Msg("result", round["host"], w), Msg("end", 0, None)>>)
                        /\ Ends("host", TRUE, w) /\ judged' = w
                        /\ chosen' = [chosen EXCEPT !["host"] = None]
    /\ UNCHANGED <<mode, open, reader, pings, last, session>>

(* the guest has chosen before it looks at what came: "end" wins over the   *)
(* value it has ready for a round that never is                             *)
GuestCommits ==
    /\ Receives("guest", "commit")
    /\ LET m == Received("guest") IN
        /\ IF m.kind = "end"
           THEN /\ Ends("guest", TRUE, last)
                /\ UNCHANGED <<wire, held>>
           ELSE /\ held' = [held EXCEPT !["guest"] = m.value]
                /\ Sends("guest", <<Msg("commit", round["guest"], chosen["guest"])>>)
                /\ GoesOn("guest", "reveal")
    /\ UNCHANGED <<mode, open, reader, pings, round, chosen, last, judged, session>>

GuestRevealed ==
    /\ Receives("guest", "reveal")
    /\ LET m == Received("guest") IN
        /\ IF m.value # held["guest"]
           THEN UNCHANGED wire /\ Ends("guest", FALSE, None)
           ELSE /\ Sends("guest", <<Msg("reveal", round["guest"], chosen["guest"])>>)
                /\ GoesOn("guest", "result")
    /\ UNCHANGED <<mode, open, reader, pings, round, chosen, held, last, judged, session>>

(* the shadow judge may find a result wrong; else the hook takes it, and    *)
(* the value of the next round is chosen before anything else is looked at  *)
GuestResult ==
    /\ Receives("guest", "result")
    /\ LET m == Received("guest") IN
        /\ \/ /\ round' = [round EXCEPT !["guest"] = @ + 1]
              /\ held' = [held EXCEPT !["guest"] = None]
              /\ last' = m.value
              /\ \E v \in Values : chosen' = [chosen EXCEPT !["guest"] = v]
              /\ GoesOn("guest", "commit")
           \/ Ends("guest", FALSE, None) /\ UNCHANGED <<round, held, last, chosen>>
    /\ UNCHANGED <<mode, open, wire, reader, pings, judged, session>>
-----------------------------------------------------------------------------
(* The agent after the engine: the session is closed, the winner reported,  *)
(* and the node shut down.                                                  *)

Closes(s) ==
    /\ at[s] = "done"
    /\ at' = [at EXCEPT ![s] = "left"]
    /\ session' =
        [status |-> IF session.status # "matched" THEN session.status      \* 409
                    ELSE IF result[s].completed THEN "closed" ELSE "failed",
         reports |-> IF result[s].completed /\ result[s].outcome # None
                     THEN [session.reports EXCEPT ![s] = result[s].outcome] ELSE session.reports]
    /\ open' = FALSE
    /\ UNCHANGED <<mode, wire, queue, reader, pings, round, chosen, held, last, result, judged>>

Crash(s) ==
    /\ at[s] \notin {"crashed", "left"}
    /\ at' = [at EXCEPT ![s] = "crashed"]
    /\ open' = FALSE
    /\ UNCHANGED <<mode, wire, queue, reader, pings, round, chosen, held, last, result, judged, session>>

Channel == \E s \in Sides : ReadMessage(s) \/ ReadPing(s) \/ ReadClosed(s)
Engine ==
    \/ GuestJoins \/ HostJoined \/ GuestReady \/ HostHandles \/ GuestHandles
    \/ HostResponds \/ GuestResponded
    \/ HostCommitted \/ HostRevealed \/ GuestCommits \/ GuestRevealed \/ GuestResult
    \/ \E s \in Sides : Disconnected(s) \/ Closes(s)

Next ==
    \/ Channel \/ Engine
    \/ \E s \in Sides : SendPing(s) \/ Raises(s) \/ Crash(s)

Fairness == WF_vars(Channel) /\ WF_vars(Engine)
Spec == Init /\ [][Next]_vars /\ Fairness
-----------------------------------------------------------------------------
(* Every variable keeps its type (the locals of the engines, the fields of  *)
(* AsyncHeartbeatChannel).                                                  *)
TypeOK ==
    /\ mode \in Modes /\ open \in BOOLEAN
    /\ reader \in [Sides -> {"on", "error", "dead"}]
    /\ at \in [Sides -> {"start", "join", "ready", "message", "commit", "reveal", "result",
                         "done", "crashed", "left"}]
    /\ round \in [Sides -> 0..MaxRounds] /\ pings \in 0..MaxPings
    /\ chosen \in [Sides -> Values \union {None}]
    /\ held \in [Sides -> Values \union {None}] /\ last \in Winners \union {None}
    /\ result \in [Sides -> [completed : BOOLEAN, outcome : Winners \union {None}]]
    /\ judged \in Winners \union {None}
    /\ session.status \in {"matched", "closed", "failed"}

(* Neither side can see the other's value before its own choice is fixed: a *)
(* reveal that is on its way or received was sent by a side that holds the  *)
(* peer's commitment of that round.                                         *)
NoPeeking ==
    \A s \in Sides :
        (\E m \in Range(queue[Peer(s)] \o wire[Peer(s)]) :
            m.kind = "reveal" /\ m.round = round[s] /\ ~Over(s)) => held[s] # None

(* A guest completes a match only when its host has completed it with the   *)
(* same outcome, and the server never gets two different reports, whatever  *)
(* was lost at the end (a disconnect never counts as a match).              *)
OneOutcome ==
    /\ result["guest"].completed => result["host"].completed /\ result["guest"].outcome = judged
    /\ \A s \in Sides : session.reports[s] \in {None, judged}

(* A reader that is gone has told recv so (p2p.py: a failed pong write      *)
(* "must wake business recv").                                              *)
DeadReaderWakesRecv == \A s \in Sides : reader[s] # "dead"

(* When the connection is gone both engines come to their end, unless the   *)
(* reader died without a word; nobody waits for a message for ever.         *)
ClosedEnds == \A s \in Sides : (~open ~> (Over(s) \/ at[s] = "start" \/ reader[s] = "dead"))
=============================================================================
