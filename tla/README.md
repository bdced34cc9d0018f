# Aigenora: specifications, model checking and proofs

Aigenora lets agents meet over peer-to-peer channels, play games, hold meetings, decide by
ceremony and hand tasks to each other. A small control plane keeps invitations and rooms; everything
else happens between the participants' own processes. This directory specifies in TLA+ the parts of
it whose correctness depends on the order of events, checks them with TLC on small instances and
proves the most important results with TLAPS. Paths below are relative to `src/src/aigenora/` unless
they start with `docs/`.

Contents: 1 the system · 2 the models · 3 the runs · 4 fairness · 5 the proofs · 6 where code and
documentation disagree · 7 what is not modelled, and why.

## 1. The system

### 1.1 Inventory

| Component | State it keeps | Operations | What makes it hard | What makes it correct |
|---|---|---|---|---|
| **Group room** `agent/group.py`, `proto/group.py`, `proto/group_control.py` | control plane: epoch, Leader, lease, floor, status; Leader: signed hash chain, replicated checkpoint; Member: replica, snapshot file | accept an input, broadcast, acknowledge, heartbeat, lose the lease, claim, restore, reconnect, complete, close | heartbeats and claims in flight, lost replies, a fenced Leader that does not know it, completion without the closing request | one Leader an epoch, the recovery floor is held by the Leader and by someone else and never rolls back, no Member returns to an older epoch, a successor is found |
| **Group actions** `proto/group_runtime.py` (outbox, hub queue), `proto/group.py` (`apply_input`) | action log, outbox file, `last_client_seq`, queue, receipts | submit, send, retry, settle, reconcile with a checkpoint, accept, refuse, answer a duplicate or a gap | the one-second retry against a late receipt, inputs of an earlier channel, a succession that takes `last_client_seq` back | actions applied in order and once, none lost, each settled |
| **Group Leader hub** `proto/group_runtime.py` (`GroupLeaderHub`) | channels, receivers, queue, acknowledgements required and received, broadcast lock | attach, replace, detach, run, receive, broadcast, watchdog | four kinds of asyncio tasks that interleave at each await; events that name the Member, not the channel | no record missing on a channel, no Member left talking to nobody, every attachment ends |
| **Group peer overlay** `proto/group_peer.py` | tickets, signed directory, outbox, evidence | advertise, send, retry, answer | sender and receiver must share (epoch, seq, membership) exactly | a message is delivered at most once and not silently lost |
| **Collaboration tasks** `collab/service.py`, `store.py`, `host_app.py`, `adapter.py`, `worker_cli.py` | SQLite ledger: tasks, invocations, artifacts, input requests, notes; threads; the worker process | submit, offer/put artifacts, ask/answer, cancel, dispatch, watch, resume, finish, recover | a ledger shared by the event loop, threads and other processes; crashes between two statements | a task is executed once and with its inputs, no running task is unobserved, terminal states are final |
| **Collaboration channel** `collab/admission.py`, `psk.py`, `transfer.py`, `guest_app.py` | enrolled guests, transfer positions | admit, authenticate, transfer | resumed transfers | only whole, verified artifacts count |
| **Two-party engine** `proto/engine.py`, `hooks.py`, `session.py` | round, state, transcript, commitments | session_loop, free, request_response, simultaneous_round, shadow judge | two sides of one state machine; errors in place of results | both sides end in the same round with the same result |
| **Real-time engine** `proto/realtime.py` | tick, pending commands, frame chain, acknowledgements | tick, command, acknowledge, disconnect | a tick loop against a receiver | an accepted command is applied at its tick, frames chain |
| **Mental poker** `proto/mp_engine.py`, `mental_poker.py`, `engine/ot.py`, `engine/aead_deck.py` | deck, transfers, openings, receipts | set up, draw, play, witness, audit | several parties, aborts in any phase | every card has one holder, an audit finds every cheat |
| **Hidden roles** `proto/hidden_role.py`, `whisper_bridge.py` | roles, phases, votes, private channels | deal, speak, vote, eliminate | private and public phases, late votes | each role sees what it may, phases never skip |
| **Tables and boards** `proto/poker.py`, `shared_deck.py`, `tractor.py`, `mahjong.py`, `card_games.py`, the hooks of the bundle library | the table: deck, hands, bets, tricks, scores | bet, bid, play, claim, deal, restore | boundary cases; claims in any order; a restart in the middle of a hand | conservation of chips and cards, a legal play for whoever must follow, one game on both sides |
| **Decision ceremony** `ceremony/*` | witness stores: nullifier and checkpoint locks; bus; guardian ledger | submit, receipt, seal, collect a quorum, abort, tally | witnesses that hold different records, deadlines | one checkpoint a height, one ballot a nullifier |
| **Runtime service** `runtime/*`, `protocol_worker/*`, `proto/remote_hooks*.py` | pending requests, idempotency table, worker process | dispatch, time out, cancel, restart | a pool of threads, retries | one execution for one key |
| **Sessions and the coach** `agent/session.py`, `_daemon.py`, `coach.py`, `web.py`, `services/session.py` | session directory, decision windows, turn thread and its generation | decide, intervene, start/stop a turn, relay | files shared by commands and a running session; a turn that finishes after its window | a decision is used once, for the window it was made for |
| **Invitations** `agent/host.py`, `join.py`, `browse.py`, `engine/p2p.py`, `engine/rest.py` | tickets, the session on the platform, `session.json` | create, renew, join, negotiate hooks, report, close, cancel | network failures; a process and the command that started it write the same file | both play on a session that both signed, with the same hooks; what the platform is told is what was completed |
| **Bundles, validation, replay, game kit** | archives, records | package, verify, re-execute, compile | sequential file work | same input, same hash |
| **Identity, trust, ratings, console, skill files** | local files | read, write, print | – | – |

### 1.2 How they interact

The host of a room starts `GroupAuthority` and `GroupLeaderHub` in one asyncio loop and a heartbeat
task beside them. A Member runs `run_group_guest_channel` over a `GroupReplica`. The
two talk through one ordered, reliable channel that may break, and each of them separately to the
control plane by HTTP: a request may arrive and its reply be lost. `session action` appends to a
file that the Member's loop reads; the outbox file next to it is what survives. When the Leader's
lease runs out every Member asks the control plane, and the first claim that the control plane
accepts makes that Member the authority of the next epoch, from its own checkpoint.

The collaboration host keeps everything in one SQLite file. RPC handlers run on the event loop, the
dispatcher and the watchers are threads, the worker and the operator use a command line of their
own: they share nothing but that file.

The other components are used by a command (`host`, `join`, `session`, `decision`): an engine calls
hooks, and these answer from data, from the decision file that a web page, a console or an agent
appends to (`DecisionWindow`), or from a process of their own when the bundle came from a peer
(`RemoteHooks`). The coach is a thread of the web server; the runtime service is a process that a
host application talks to over stdio. Both leave files from which a later process goes on.

## 2. The models

| Module | What it is | Code |
|---|---|---|
| `GroupFailover` | the room: control plane, authorities, replicas, channels, heartbeats, claims, crashes | `agent/group.py`, `proto/group.py`, `proto/group_runtime.py`, `proto/group_control.py` |
| `GroupActionOutbox` | one Member's actions: log, outbox, channel, hub queue, authority, receipts | `proto/group_runtime.py`, `proto/group.py`, `agent/session.py` |
| `GroupLeaderHub` | the hub's tasks and the successive channels of one Member, await by await | `proto/group_runtime.py`, `agent/group.py` |
| `GroupFrames`, `JsonDelta` | what the frames carry: views and checkpoints, in full and as deltas, late Members, hooks that raise | `proto/group.py`, `proto/json_delta.py` |
| `GroupPeer` | messages between two Members beside the authority, and what their evidence proves | `proto/group_peer.py`, `proto/replay.py` |
| `CollabTask` | one task in the ledger, with every thread and process that changes it | `collab/*` |
| `Transfer` | the files of a task, uploaded and pulled in chunks by interrupted commands | `collab/transfer.py`, `service.py`, `guest_app.py` |
| `CollabSession` | admission, join, reattachment and the serving slot | `collab/admission.py`, `host_app.py`, `guest_app.py` |
| `CeremonyBoard`, `BallotBox` | witnesses, receipts, checkpoint, guardians, verifiers; the abstract ballot box that they implement | `ceremony/board.py`, `witness_server.py`, `tally.py`, `verifier/vsdp.py` |
| `CeremonyBus` | transport of contributions, quorum collection, abort | `ceremony/bus.py` |
| `DuelEngine` | a match of two over the heartbeat channel, up to the report to the server | `proto/engine.py`, `engine/p2p.py`, `agent/host.py`, `join.py` |
| `FreeChat` | a conversation with a durable inbox | `proto/engine.py` |
| `DecisionWindow` | how the decision of a round is found | `proto/hooks.py`, `sdk.py`, `decide_gateway.py`, `intervention_intent.py` |
| `Realtime` | tick loop, receiver and acknowledgements | `proto/realtime.py` |
| `MentalPoker`, `HiddenRole` | a card match without a dealer; hidden roles without one | `proto/mp_engine.py`, `mental_poker.py`; `proto/hidden_role.py` |
| `RuntimeServer` | the stdio service with its pool, and the session it works on | `runtime/server.py`, `protocol_worker/runner.py` |
| `RemoteHooks` | hooks in a process of their own | `proto/remote_hooks*.py` |
| `Coach` | background turns of a language model | `agent/coach.py`, `proto/sdk.py` |
| `Pairing` | from an invitation to the end of the session, daemons included | `agent/host.py`, `join.py`, `_daemon.py`, `protocol_bundle_p2p.py` |
| `SharedDeck`; `HoldEm`, `Landlord`, `Bridge`, `Mahjong`, `Tractor`; `BoardGames` | the tables and boards of the bundle library, with the rules they call | `proto/shared_deck.py`, `poker.py`, `card_games.py`, `mahjong.py`, `tractor.py`; `protocols/*/*/hooks.py` |
| `…Proofs` | theorems and the lemmas they rest on (section 5) | – |
| `MC…` | instances for TLC | – |

Which lines a definition stands for is listed in `PROJECT.json` under `map`.

Six MC modules put components together that share no state (`MCGroupActionOutbox`, `MCCollabTask`,
`MCCeremony`, `MCEngines`, `MCServices`, and `MCTables`, which also has the frames of a group). A variable `part` says which of them a
behaviour runs, the others stay in their initial state; the reachable states are the union of the
components', not their product. The invariants of the components are named there by what they say together (`DuelIsFair`, `PairingHolds`, ...), each
including the component's `TypeOK`.

### GroupFailover

A record of the hash chain is an entry `[epoch, leader, fin]`, a checkpoint the sequence of records
up to it. Equal sequences stand for equal `(seq, frame_hash)`; "chains from" is `IsPrefix`; the
certificate of a checkpoint is made by the Leader of its last entry. `server` is the control plane,
which is no part of the repository: its compare-and-set on the expected epoch, its lease and its
floor are taken from the client's calls (`group_control.py`) and the answers it expects, and are
marked external. `pc` says where a node's process is: `leader` and `closing` in
`_run_leader_runtime`, `member` in `run_group_guest_channel`, `query`, `claim`, `connect` in
`_recover_or_follow`, `stopped` when the command has ended. One action is one step of these between
two awaits: `AcceptInput` (apply and broadcast), `Bootstrap`, `HandleAck`, `RenewSend`/`RenewArrive`
(a heartbeat carries what was read before the request), `LeaseLost`, `CloseRoom`,
`ReceiveApply`/`ReceiveHeld`/`ReceiveReject` (the three ways out of `GroupReplica.apply`), `Query`,
`Claim`, `ClaimRefused`, `ClaimReplyLost`, `Connect`, `ConnectFails`, `Crash`. Left out: the lobby,
seats and late joins, signatures (nobody forges), the events for the user.

### GroupActionOutbox

Action `k` is the `k`-th record of the log. `outbox` is `_GroupActionOutbox` (`offset`, `accepted`,
`pending`); `up`, `queue` and `down` are the channel to the Leader, the hub's queue and the channel
back. `Prepared`, `Settled`, `Reconciled` and `Matches` translate the outbox's methods; `Apply`,
`AnswerDuplicate`, `Refuse` are `apply_input` and the answers of `run`. `Refuse` stands for the
hook's refusal and for a gap; whether a gap ever happens is the property `NoGap`. `Succession` takes
the authority back to a checkpoint with fewer of this Member's actions. `ever` is an auxiliary
variable: what any Leader applied. With `Local` the actor is the Leader itself, whose inputs need no
channel; the theorems hold for both values, the runs use the remote actor.

### GroupLeaderHub

`accept` and `run` are the program counters of the accept loop and of `run()` between awaits,
`lock` the broadcast lock (handed to the first waiter, as `asyncio.Lock` does), `task[c]` the
receiver task of channel `c`, `reg`, `receiver`, `acked`, `pend` the hub's dictionaries at the
Member's key. Queue events carry the Member and not the channel, as in the code. The Member reads,
stalls, leaves and opens the next channel. Other Members only appear as `OtherInput`: they hold the
lock and produce records.

### CollabTask

`TaskStore.transition` reads the row, tests the edge and updates in a second statement; so every
state change is two actions, `Check` and `Write`, and `plan[a]` lists what actor `a` (event loop,
dispatcher, watcher, command line) has still to do. The handlers are `TaskSubmit`, `ArtifactOffer`,
`ArtifactPut`, `InputSubmit`, `CancelRequest`, `AgentNote`; the dispatcher `Claim`, `Submit`,
`SubmitRaises`, `StartWatcher`; the watcher `WatchDone`, `Resume`, `Finalize`; the command line
`WorkerFinish`, `WorkerAsk`, `WorkerInbox`. `Crash`, `Restart` and `Serve` end and recover the
host; the worker process and the command line survive it. `Edges` is `TRANSITIONS`. Artifacts are
members of a set, offered and complete or not; the texts of notes and events are left out.

### GroupFrames and JsonDelta

`authority` holds the fields of `GroupAuthority`, `channel[m]` the envelopes on the way, `replica[m]`
the fields of `GroupReplica`. A hash is what it is of. `ApplyInput` and `ApplyRaises` are
`apply_input` with a hook that answers or that raises while the views are built (the state has then
changed and no envelope exists); `Attach` and `AttachExisting` the newcomer and the one that returns;
`Receive` the replica's checks in their order, decoding and verdict; `Succeed` builds an authority from
a replicated checkpoint. `JsonDelta` translates the list and object deltas over values of a fixed depth.
It recurses over values and is therefore for TLC only.

### GroupPeer

Member "a" sends what `group-peer-actions.jsonl` holds, "b" receives. `context[m]` is the newest
authority record that m has applied; the signed directory and the message must be of the same one.
`Next` interleaves records, directories, the queue, the outbox's attempts, the receipt, and restarts of
either side, which read directory, outbox and evidence back from disk.

### Transfer and CollabSession

`Transfer`: `upload[c]` is where command `c` is in `upload_artifacts` (two terminals may give it at
once), `artifact`, `staged` and `queued` what the host has, `pull` and `target` the way back. A chunk is
as declared ("good"), has other bytes ("bad"), or has not the length of its place ("odd"): an edited input has
what `Readings` allows, up to the first chunk of another length. `_on_artifact_put` is `Put` when it takes every
chunk of the batch, `Refuse` when `validate_chunk_object` raises for one: what came before is then on
the disk, the row is as it was, and nothing is verified. `HostEnds` is the end of the process after some of
the writes; every connection breaks. In `staged` a bad chunk that one of these two wrote is "stray". `CollabSession`: a session is the invitation, the guest and its nonce;
`serve[n]` is the handler of connection `n` between two awaits, `call[g]` the guest's command; the
community server with its invitations is taken from the calls of both sides and is marked external.

### CeremonyBoard, BallotBox and CeremonyBus

A ballot is `[id, nullifier, choice]`, a witness's signature the pair of witness and statement, a Merkle root
the set it is built of. Every witness runs a thread for each request (`handlers`); its durable store is
`records`, `locks`, `receipts`, `lockedRoot`; `Restart` loses the threads and keeps the store. `held` and
`signed` are what a relay has collected. `CombineCheckpoints`, `AcquireAuthorization` and `OpenDecision`
need what the code verifies at that point, the verifier's checks included. `BallotBox` says what all of
this promises: a nullifier gets one receipt, a box is sealed once over ballots that have one, and what
is opened is the tally of the sealed box. `IsOneBallotBox` is the refinement under the mapping
`receipted <- {b : Receipted(b)}`, `sealed` and `opened` themselves. `CeremonyBus` keeps the two steps of a
delivery apart: the check for an abort, and the one under the condition's lock after the delay.

### DuelEngine, FreeChat, DecisionWindow, Realtime

`DuelEngine` runs both sides over a stream per direction. `reader[s]` is the background task that moves
messages into the queue and answers pings; `at[s]` is what the engine waits for in each of the three flow
modes. Hooks are abstract: the host's may go on, finish or abort at any message. `FreeChat` is one side:
appenders write the inbox line by line (a torn line is seen as such), the backlog goes out before anything
is received, then the first of receiver and sender to end takes the others along. `DecisionWindow`
interleaves the game process, between its looks at the file, with the look-then-append of each
submitter; the human mode holds the latest decision until the release. In `Realtime` a state of the
world is the tick it belongs to; the host's loop never waits, the receiver that queues and acknowledges
the guest's frames is a task of its own.

### MentalPoker and HiddenRole

`MentalPoker`: the host's keys lie under labels id-A, the guest's under id-B, each side keeps its own
ledger and transcript, and after the game both open and audit. The injected faults are those of the code's
own `_fault` switch. `HiddenRole`: a lock is a count per seat, as exponents commute and inverses
cancel; the relay asks again when an answer is lost, which is where a seat could lock or shuffle twice.

### RuntimeServer, RemoteHooks, Coach, Pairing

`RuntimeServer`: `job[t]` is what thread `t` runs, statement by statement, on a session without a lock;
`disk` is the file a new process recovers from. The client repeats a request under its key once it is answered, or lost with
the process, or (`Impatient`) at any time. `RemoteHooks`: threads of the engine share one pipe and one
lock; a second proxy for the same session competes for the claim. `Coach`: `sender`, `resetter` and `worker` are the
three threads between two locks; `inbox`, `dialog` and `session` are files. `Pairing`: each side is a process
and the command that started it as a daemon; both write `session.json` as a whole, after reading it.

### Tables and boards

A state of a table is the state of its hooks. An action that the hooks refuse changes nothing, because the
authority hands them a copy; so refused actions are no steps. Decks are cut down to the cards that bring
up the cases which the rules tell apart, and the shuffle is a set of orders.

## 3. The runs

| Run | Instance | Properties | Distinct states |
|---|---|---|---|
| `failover_safety` | Host + 2 Members, 3 records, 2 successions, 4 faults | `OneLeaderPerEpoch`, `FloorInLeader`, `FloorNeverRollsBack`, `EpochFencing` | 1 121 052 (symmetric in the Members) |
| `failover_liveness` | 2 records, 2 successions, 2 faults | `SuccessionCompletes` | 78 450 |
| `group_delivery` | 3 actions, 3 copies, 2 faults; the hub with 2 channels, 2 records | `AppliedInOrder`, `LostOnlyAfterReuse`, `SubmittedIsSettled`, `HubProgress` | 229 611 |
| `hub_safety` | 2 channels, 3 records, 1 input | `FramesContiguous`, `HubIsSound` | 3.7 million |
| `collab_checks` | a task without inputs or with two; 2 pages and 3 results with 2 commands, 2 faults of the files; 2 guests with 3 connections | `SubmittedOnce`, `ExecutedWithInputs`, `RunningIsWatched`, `FilesArrive`, `SessionsAreReal` | 823 201 |
| `collab_liveness` | the same without inputs; one command and 1 fault of the files | `CollabProgress` | 54 171 |
| `collab_final` | no inputs | **violated**: `TerminalIsFinal` (section 6) | |
| `ceremony_checks` | 3 witnesses with quorum 2, 3 guardians with threshold 2, 3 ballots, 1 fault; bus with 2 roles, 2 collections, 3 deliveries | `NoDoubleVote`, `OneRoot`, `IsOneBallotBox`, `ContributionsSettle` | 242 554 (symmetric in the witnesses) |
| `engines_checks` | duel: 3 flow modes, 2 rounds; chat: 3 lines; windows: 2 rounds, 2 submitters; real time: 3 ticks; roles: 3 seats; poker: 5 cards, 6 kinds of faults | `DuelIsFair`, `ChatIsWhole`, `DecisionsCount`, `MatchAgrees`, `RolesStayHidden`, `AuditsTellTheTruth`, `ClosedEnds` | 332 571 |
| `engines_disconnect` | the same | **violated**: `DisconnectNeverCompletes` | |
| `services_checks` | runtime: 2 threads, 3 requests, 1 crash; overlay: 2 records, 2 messages, 1 restart; remote hooks: 2 threads, 4 calls; coach: 2 turns, 1 reset, 1 restart; pairing | `RequestsAnswered`, `PeersReconcile`, `WorkerInStep`, `TurnsAreKept`, `PairingHolds` | 1 276 735 (symmetric in the threads) |
| `tables_checks` | Hold'em 2 hands, 1 restart; Landlord 2 deals; a Bridge board; a Mahjong hand; Tractor 2 hands; boards of 3×3, 3×4, 4×3; frames: 2 nodes, 4 records, 1 succession | `ChipsAndPots`, `TricksAreSound`, `TilesAndPoints`, `BestClaimIsServed`, `FollowingIsPossible`, `OneGame`, `FramesHold` | 462 740 |

What the properties of the later modules say:

* `HubIsSound`: a registered channel has a live receiver or a queued end; a Member that answers is never
  detached for a late acknowledgement; one that leaves a record unread is watched. `HubProgress`: every
  attachment comes to an end, and a Member that waits for its first envelope gets one or sees the end.
* `FilesArrive`: the inputs unpacked for the worker are the declared ones, chunk by chunk, except where a batch
  that the host refused or did not finish was the last to write (section 6); a pull ends in a
  mismatch only when the worker published again or the guest had a longer file of that name.
  `SessionsAreReal`: whom the host serves is on a session that it bound and for which the server took the
  invitation. `CollabProgress`: queued tasks are dispatched, exits reported, waiting connections served
  or refused.
* `NoDoubleVote`, `OneRoot`: no member has two ballots with a receipt, no two roots get a quorum.
  `ContributionsSettle`: two collections never disagree, and nothing is delivered after an abort, not
  even what had passed the first check and was delayed.
* `DuelIsFair`: no reveal leaves a side that does not yet hold the other's commitment; a guest completes only
  what its host has completed, with the same outcome, and the server gets no two different reports.
  `ClosedEnds`: on a lost connection both engines come to an end. `ChatIsWhole`: every line of the
  inbox is sent once and in order, the backlog first. `DecisionsCount`: a decision for a later round is
  not passed over, a policy never plays over an explicit decision. `MatchAgrees`: an accepted command is
  applied at its tick and at no other, both histories are the same. `RolesStayHidden`: a card on its way is
  under its recipient's lock until the recipient opens it, and a finished ceremony passes the audit,
  whatever was lost and asked again. `AuditsTellTheTruth`: an audit passes only when both sides hold
  the same transcript, hands and winner; without a fault nobody fails it.
* `RequestsAnswered`: one answer for each request, and a repeat gets the first one. `PeersReconcile`: two
  bundles never contradict each other, a message is received at most once and in its own context.
  `WorkerInStep`: one live worker for a session, and between two calls nothing is under way.
  `TurnsAreKept`: no turn is lost or run again after it is done. `PairingHolds`: both sides play by the
  same hooks and on a session both signed; what the platform is told agrees with what was completed.
* `FramesHold`: a replica turns an envelope down only because frames are missing or it is ahead; what counts as
  replicated is held by another Member.
* Tables: chips, cards, tiles and points are conserved; a street ends with equal bets and nobody wins more
  from another than it has put in (`ChipsAndPots`); the contract goes to its declarer, turns follow the
  tricks (`TricksAreSound`); the best claim wins in whatever order the three answer
  (`BestClaimIsServed`); the rules of following always leave a legal play (`FollowingIsPossible`); both
  sides of a board game see one game (`OneGame`). An `ASSUME` of `MCTables` evaluates Bridge's score against
  the number of tricks.

Why the bounds are enough. *Failover*: a race needs an old Leader, a lagging Member and a leading one,
so three nodes; a second succession is needed for the floor of the first to be lost or kept; three
records let two Members differ by one while the Leader is ahead of both; four faults allow a crash, a
cut channel, a stall and a lost reply in one behaviour. *Outbox*: a reused `client_seq` needs two
actions, its effect on the one after a third; three copies let two retries overtake the receipt; two
faults allow a succession after a cut. *Hub*: what can go wrong between channels needs an old one and a
new one; three records let a broadcast run into an attachment with one before and one after. *Task*: two
artifacts are the smallest manifest of which a part can be complete; the number of crashes and restarts is
not bounded. *Files*: a batch of two with files of 2, 1, 1 and 0 chunks gives a batch within a file,
one across files and an empty file; with two commands and two faults (an edit, a broken connection, the end
of the host) a page can be complete while the other command still has a batch read from another file. *Sessions*: two guests on one slot, and a third connection for
the one that comes back. *Board*: with quorum 2 of 3 two ballots can meet different witnesses, which
is the case that the locks are for; one fault is a crash between the lock and the receipt, or a lost
receipt. *Engines*: the second round is the first in which messages of an earlier one can be around; a
lead of 1 or 3 ticks gives commands in time, too late and too early; three seats are the fewest with
a wolf, a second wolf and a seer. *Services*: two threads and three requests allow a repeat
beside another request at work. *Tables*: two hands show what is carried over, short stacks give side pots. *Frames*: four
records let a checkpoint with a delta follow one in full, and a succession in between.

All cfgs set `CHECK_DEADLOCK FALSE`: a room closes, a task ends, a match is over, a channel is the
last the bound allows, and the system may rest.

## 4. Fairness

* *Failover*: weak fairness of every step of a live process (`Progress`) and of the lease's
  expiry. The steps run in asyncio loops with a timeout on each wait, a request that was sent
  arrives, and the control plane's clock runs. `AcceptInput`, `LeaseStall`, `Crash`, and a loss of
  the lease by a Leader that is still current, are not fair: no user has to act and no fault has to
  happen. `SuccessionCompletes` excuses a heartbeat of the dead Leader that was on its way and
  moves the floor past the candidate: the code cannot undo it.
* *Outbox*: sender, receiver, hub and reconnection go on. `Retry` is not fair: the property does
  not depend on it while the channel holds.
* *Hub*: no asyncio task is starved (`Accept`, `Run`, the receivers) and the lock is granted in
  order. The Member reads. The timer, faults and inputs are not fair.
* *Task*: the threads of a live host and the command line go on. Workers need not exit, nobody has
  to call, and a host that went down need not come back; hence "or the host is down" in the two
  liveness properties of the task.
* *Sessions*: the host's handlers go on (one event loop, a timeout on each read). The guests are not fair:
  they may stop anywhere.
* *Duel*: the channel (reader tasks, end of the stream) and the engines that have something to do. Pings, crashes
  and hooks that raise are not fair.

The other modules have safety properties only and are checked without fairness.

## 5. The proofs

The theorems hold for every set of nodes and every bound. Their assumptions are the named `ASSUME`s
of the modules: the Host is a node, `NoNode` is none, bounds are natural numbers, `Local` is Boolean; for
the hub (`HubBounds`) that a channel may come and that a record can follow the first; for the board
(`BoardAssumption`) that two quorums of the profile intersect (`2 * WitnessQuorum > WitnessCount`), as the
profile of `ceremony/manifest.py` has them (three of four); for the bus (`BusAssumption`) that the roles
allowed to contribute are roles; for the sessions (`SessionsAssumption`) that the server can list an
invitation; for the files (`FilesAssumption`) that no input is on two pages, as `collect_inputs` gives no file
twice, and that sizes are natural numbers; for the engines (`DuelAssumption`, `EnginesAssumption`,
`RolesAssumption`) that `None` is no value, no tick, no card and no name of an ending, that every seat has
a card and that a shuffle is a permutation; for the services (`ServicesAssumption`) that it is no outcome, owner or
thread, that a worker may get a call, a message is sent once at least and the table of answers has an
entry. TLC evaluates each of them in a run.

**`GroupFailoverProofs`**: `TypeCorrect`, `NoSplitBrain`, `LeaderHoldsFloor`, `FloorIsMonotone`,
`EpochFences`, from `Invariance == Spec => []IInv`.
`OneLeaderPerEpoch` and `FloorInLeader` are not inductive by themselves. `IInv` adds: a leading
process signs with the epoch of its last record, which is its own (`Ownership`); checkpoint epoch ≤
replica epoch ≤ control-plane epoch, and who signs in the current epoch is the Leader the control
plane names (`EpochOrder`); every checkpoint and every envelope in flight was cut from the log of
its signer (`Provenance`), which makes "not older than the floor" imply "continues the floor"
when a claim wins; what is advertised, also by a heartbeat under way, lies between the floor and the
log (`Advertising`), so that a late heartbeat cannot move the floor back. Frame lemmas say which
actions can change which variable, and each conjunct is proved over those only.

**`GroupActionOutboxProofs`**: `TypeCorrect`, `ActionsInOrder`, `GapNeverSeen`, `NoActionLost`.
The inductive invariant relates the outbox, the verdicts, the history and *every* input on its way,
including those of earlier channels (`OnTheWay`): its `client_seq` is at most the next one, its
action is passed or pending, and whatever was applied under smaller numbers came before it. `Core`
takes these as parameters, so that a step which both applies and settles is the composition of two
lemmas. `Synced` says that the authority is not behind the outbox while anything can still be
applied: that is what `reconcile` establishes at every reconnection.

**`GroupLeaderHubProofs`**: `HubSound` (`HubIsSound`: types, `RegisteredIsServed`, `NoWrongfulTimeout`,
`StalledIsWatched`) and `ChannelsContiguous` (`FramesContiguous`). `FramesContiguous` speaks of two
neighbouring frames of one channel; what makes it inductive is that the *last* frame of the registered channel is
the authority's last record (`WireInv`: a replaced channel falls behind and gets nothing more, a
notice may only come first). `MemberInv` and `AcceptInv` say where the Member and the accept loop can be, at each
await. `BookInv` relates the acknowledgements to the channels: every frame on the registered channel is
acknowledged, tracked by the timer, or its send is under way (`Watched`); what is tracked was sent there
(`Tracking`); and what the Member holds is acknowledged or that is on its way (`HeldAnswered`), without which
the timer could detach a Member that has answered. Every step of the hub is one of five steps of
the channels (`WireStep`), and the conjuncts about frames are proved over those.

**`CollabTaskProofs`**: `TypeCorrect`, `GivenOnce` (`SubmittedOnce`), `RunningHasWatcher`
(`RunningIsWatched`), `WorkHasInputs` (`ExecutedWithInputs`), `SessionsHold` (`SessionsAreReal`) and
`FilesSound` (`FilesArrive`). The invariant lists the plans each actor can have, and says of the states before
the execution (`Early`) that only the event loop changes them; that the adapter has not been called
while a task is early, queued or about to be handed over; and that every dispatching task has its
invocation in the ledger, which is why the restart never requeues one. `ExecutedWithInputs` looks only at the
moment of submission; `Ungiven` is the reason for it: while inputs are missing (and no question was
answered, which is the stated exception) the task is in an early or a final state, no actor is about to
queue or hand it over, and no thread holds a row read before that it may still overwrite.
The sessions have an invariant of their own (`SessionInv`), for any guests, connections and renewals. The
server hands its invitations out in turn and never reuses one (`InTurn`); a guest says `ready` only for a
session whose invitation it took, by the server's word (`TakenFirst`), and what a connection serves, and
what the host remembers of a guest, it has bound (`BoundFirst`). A guest that breaks off between the
server's answer and its own `ready` leaves an invitation taken and a session unbound, but never the other
way round.
The files have `FilesInv`, for any commands, pages, chunks, batch sizes and faults. Of the way in, a batch has
chunks of the files of its own page only (`Asked`), and the files of a page that is complete are on the disk as
they were declared, but for stray chunks (`CompleteIsStaged`). A batch that is refused or cut off changes the disk
and not the row: it writes within the files of its page (`PageChunks`), and leaves good and stray chunks
good or stray (`StrayKeeps`); what was complete stays so. A batch of another command, or one that is put again, may change the
verdict of its own page, in both directions, and of no other, because no file is on two pages; this is what
lets the inputs be unpacked when the last page is complete. Of the way back, a reply has of each file just
the chunks from the cursor it was asked with to the one it gives, and when it says that it is done, all of
them (`InOrder`): so below its cursor the guest has what was published, over whatever an earlier pull left
there (`Below`). The chunks that follow a cursor are the concatenation of those of the files, for any number of
files; `ServedIs` derives from `Flattened` and `Climb` (see `EnginesProofs` for how these replace an induction)
what a batch of it has, and `CountOf` how many chunks of each file.

**`CeremonyBoardProofs`**: `TypeCorrect`, `VotesOnce` (`NoDoubleVote`), `SealsOnce` (`OneRoot`),
`ImplementsBallotBox`, the refinement, and `ContributionsHold` (`ContributionsSettle`). What a relay holds of a witness, that witness has locked
(`AcceptedIsLocked`, `SignedIsLocked`); a witness locks a nullifier, and a root, once (`TypeOK` for the locks). Two
receipts of one nullifier, or two sealed roots, would need two quorums; `QuorumsMeet` gives the
witness in both. What a witness counts has a receipt, what is sealed has a quorum, what is opened is its
tally (`CountedHasReceipt`, `SealedIsSealable`, `OpenedIsTally`). With these each step of the board is a
step of `BallotBox` or a stutter. For the bus, `ContributionsSettle` compares two states of a collection and the
store: what a collection has got is what the store has under that role (`GotIsThere`), so a
contribution that is repeated and differs, and an abort, cannot change what was returned.

**`EnginesProofs`**: `DuelSafe` (types, `NoPeeking`, `OneOutcome` of `DuelEngine`) and, of the engines together,
`DuelFair` (`DuelIsFair`), `ChatWhole` (`ChatIsWhole`), `MatchSafe` (`MatchAgrees`), `DecisionsSafe`
(`DecisionsCount`) and `RolesSafe` (`RolesStayHidden`), for any number of lines, rounds, decisions, ticks,
leads and seats. A behaviour runs one engine, so each has an invariant of its own (`EnginesInv`).
Of the duel, `DuelInv` does not speak of the connection
and the queue of a side apart: what is *coming* to it, both in order and without the heartbeats, is
what matters, and no step of a reader or of the heartbeat changes it (`ChannelKeeps`). Out of the session
loop the two ends take turns (`Turns`), and each message that comes is the one awaited or the one after
it (`Awaited`). A reveal was sent in a round whose commitment its sender held (`Peeks`), which with the turns
gives `NoPeeking`. The Host finds the winner once, as it ends (`Judged`); every message from which the
guest learns an outcome was sent then and carries it (`Told`). There is one lemma for each handler, and each
disposes of the parts that mention only a side that is over at once (`EndingsKeep`).
In a conversation, what was sent, the backlog and the input together are the inbox up to the offset
(`ChatLines`). In a real-time match, a command that was accepted is pending under its tick or in its
tick's frame (`CommandsKept`); the frames on their way are the Host's (`FramesSent`), and on a channel that is not
lost none is skipped (`NoneSkipped`); only the last frame has an outcome (`OutcomeLast`). `MatchAgrees` needs
all of them because the frames the guest has seen are compared with the Host's, the commands in them
with those acknowledged. In a decision window, a line of the bus is consumed for an earlier window, or for this one
if this one has its decision (`MarkedByNow`): that is why none for a later window is lost.
For the hidden roles, `RolesInv` says of everything that is there what it is in terms of the committed seeds: the
relay has the deck after so many shuffles, each record of a seat is the step that the seed gives, or that
seat has not got there; a card on its way has the locks of the last deck without those of the seats
that took theirs off, and the recipient is none of them; each assignment, and each answer to the seer, is
that of the last deck. An answer that is lost and asked for again finds the same step. The audit computes the
decks by recursion over the seats. The library's induction theorems cannot be applied here, but the least
element of a set of numbers can (`WFMin`): `UpTo` draws from it that a set which has 0 and with each number the
next has them all, `StepByStep` that a function defined by recursion exists, and `Climb` that its values are
where the steps lead; so `ReplayIs`, `ReplayMixIs` and `DecryptedIs` say what the audit computes for
any number of seats.

**`ServicesProofs`**, with the runtime service and the coach in **`RuntimeProofs`**, which it extends: `PairingSound`
(`PairingHolds`), `WorkerSound` (`WorkerInStep`), `PeersSound` (`PeersReconcile`), `AnswersSound` (types and
`AnsweredOnce`), `RequestsSound` (`RequestsAnswered`) and `TurnsSound` (`TurnsAreKept`). A behaviour runs
one of the services, and the invariant of each is kept by its own steps (`ServicesInv`). Of Host and Guest,
`Dialogue` says stage by stage where both are and which frames are on the way between them, a side
that is not there any more excepted; every message of the handshake leads from one stage to another or
to the end of both. From it follows who may read what, and with `Hooks` that the Guest has a bundle only after the
Host offered its own, and that both play by the same one; `ResultsFound` has a side report to the platform only
once it has a result. The status files and the commands that started the two processes touch none of that (`Aside`).
Of the hooks' worker, `WorkerPipe` says what is in the pipe: nothing, the question of the call that holds the lock,
or its answer, by the place where the call and the worker are; after a time-out the worker is one that nobody
reads any more. `WorkerClaims` has the session claimed from before the worker starts until it is gone,
which leaves a second proxy no room for a second worker.
Of the overlay, the outbox takes the queue in order and what is on its way is built of the message it
holds (`Outboxed`); b keeps one record of a message, in the context it was queued in (`KeptOnce`); a has a record
only of an envelope that b has (`SaidOfKept`), and goes on to the next message only then (`Received`).
Of the runtime service, a request that waits is in the queue or with one thread and has no answer, unless the
thread is about to go (`Waiting`, `InWork`); every open takes the next generation (`Sessions`); and what was
answered is in the table, while who works on a key is the only one to do so (`Repeats`). This last part has two hypotheses,
which are those of `RequestsSound`: the client waits for the answer before it repeats a request (or knows it
lost with the process), and the table has room for the keys. Without the first, two threads may both
find the key unknown and move the session twice; without the second, an answer is dropped from the table before
its repeat comes (`runtime/server.py:223`, 1024 entries). `AnswersSound` needs neither.
Of the coach, `Numbered` has every turn in the inbox once, with the next free number; `Placed` has a turn that is to be done
in one place at most, of which the inbox knows; `Ahead` says by how much a reset may be ahead of the inbox; and
`Kept` that while the daemon runs a pending turn is in one of the places, unless a reset has overtaken it.

Only model-checked, and why:

* All liveness (`CollabProgress`, `ClosedEnds` and the other temporal properties of section 3): the prover
  has no rule for fairness.
* `AuditsTellTheTruth`: the state of each side is a copy of the other's up to the message on its way, at each of
  some thirty places of the two drivers; there is no proof of it yet.
* `FramesHold`: `JsonDelta` is defined by recursive operators, and a module that reaches them loses the SMT
  backend; for the same reason nothing else of `MCTables` (`ChipsAndPots`, `TricksAreSound`,
  `TilesAndPoints`, `FollowingIsPossible`, `OneGame`) can be proved there.

`TypeOK` of the group and collaboration modules, and `NoGap` of the outbox (`GapNeverSeen`), are proved and not
repeated in a run. `FloorHeldOutside` of `GroupFailover` is stated there and in no run: TLC finds no
violation of it on the instance of `failover_safety`.

## 6. Where code and documentation disagree

With a run (`findings` in `PROJECT.json`):

* `collab_final`: the two statements of `transition` (`collab/store.py:234`) let a cancelled task be
  dispatched.
* `engines_disconnect`: when the sender of a free conversation meets the closed channel first, its
  exception is dropped and the conversation counts as completed (`proto/engine.py:905`, against
  `proto/engine.py:145`).

Stated as a formula that TLC refutes when it is added to the cfg of the module's run; no run is kept for
them:

* `GroupFailover!ZeroRollback`: the first claim that is not older than the *server's* floor wins. A record
  that another Member acknowledged, but no heartbeat has carried yet, is lost, against "zero-rollback
  successor state after every acknowledged action" (`docs/multiplayer.md:150-152`).
* `GroupFailover!CompletedIsFinal`: when the request that closes a completed room fails, it is only logged
  (`agent/group.py:653`). A Member that holds the completing record, and could not acknowledge it, claims
  and continues the room.
* `GroupActionOutbox!ReceiptsTellTheTruth`: the second copy of an action that was refused is offered to the
  hook again; it may count although the user was told that it was rejected, and its `client_seq` is then missing for
  the next action, which is answered as a duplicate and lost. That this is the only way to lose an
  action is `LostOnlyAfterReuse`, which is proved.
* `GroupLeaderHub!FreshChannelSurvives`: replacing a channel cancels its receiver, whose "disconnect" then
  detaches the *new* channel.
* `GroupFrames!HooksKnowTheMembers` (with `Refuses = TRUE`): `add_member` (`proto/group.py:447`) appends
  the newcomer before the hooks judge it; one they refuse stays in the group.
* `GroupPeer!EvidenceVerifies`: evidence is written with the authority record of that moment
  (`proto/group_peer.py:848`), which may have moved on since the message; `proto/replay.py:769` then refuses the
  Member's own bundle. `GroupPeer!ExpiredIsStale`: after a restart a Member has no context until the
  first record arrives, and gives up as expired a queued message whose context still holds.
* `CollabTask!CancelResolves`: a worker that succeeds after a cancel leaves its task in
  `cancel_requested` for ever (`collab/service.py:336`).
* `Transfer!UploadsAreComplete` (with `Pages <- EmptyFirst`): a page of which every file is empty gets no
  chunk and is never complete; the upload returns all the same.
* `Transfer!InputsAreVerified`: while one command completes a page, a second one has a batch for it that it
  read from a file edited to another length. The batch is refused at its odd chunk, after the chunks before it
  were written (`collab/service.py:591-596`); the row still says "complete", and so does the answer to
  the next offer (`:538`). When the last page is complete, the files are copied as they are, with the
  event "all input artifacts verified and unpacked" (`:664`), against "a file is only usable after the
  file-level SHA256 over the reassembled bytes verifies" (`collab/transfer.py:6-7`). `FilesArrive` states exactly
  this exception.
* `CollabSession!SomeInvitationIsOpen`: a guest that takes the invitation at the server and loses its
  connection before the host has bound the session leaves the host offering an invitation that is taken.
* `DuelEngine!DeadReaderWakesRecv`: the reader sends the pong outside the part whose error it records
  (`engine/p2p.py:450`), against the comment at `engine/p2p.py:428`; a receiver without a timeout waits on.
  It is the stated exception of `ClosedEnds`.
* `DecisionWindow!IntentYieldsToExplicit`: the decision made of an intent is appended without a look at the
  file and covers an explicit one submitted earlier for the round (`proto/hooks.py:667` against
  `proto/hooks.py:600`).
* `Realtime!NoHeadStart`: the host's commands for a target tick answer the state of its own source tick, the
  guest's that of an earlier one when its lead is above the delay (`proto/realtime.py:680` against `:677`).
* `RuntimeServer!DiskIsRecoverable`: two steps at once leave a file whose sequence is not the length of its history
  (`protocol_worker/runner.py:207`), which the recovery refuses (`:310`).
* `Coach!StaleStayAway`: a turn that ends while a reset runs writes its lines and its session after it
  (`agent/coach.py:793` against `proto/sdk.py:454`).
* `Pairing!FinalStatusStays`: the parent of a daemon writes `session.json` back as it read it
  (`agent/host.py:211`); an end that the process recorded in between is lost (`agent/_daemon.py:64`).
* `HoldEm!EveryPotHasAWinner`: a pot to which only folded players contributed raises "a side pot has no
  eligible winner" (`proto/poker.py:135`) and the action that ended the hand is refused.
* `BoardGames!BoardsAgreeAtTheEnd`: the guest paints its own winning stone white.

Met while modelling:

* `proto/group.py:1054` – a Member ahead of the successor refuses the successor's bootstrap as
  "moved backwards" and alternates between connecting and recovering until the successor has
  produced more records (`docs/multiplayer.md:77` says that losing candidates reconnect).
* `agent/group.py:1008` – the branch to "follower" compares epochs only above the replica's, so a
  Member follows a successor that is itself dead until the next lease runs out, and one admitted
  but not bootstrapped holds a certificate of the wrong epoch and can never claim.
* `proto/group_runtime.py:277` – a channel is registered before its bootstrap is sent: a receipt
  or a directory may come first (`docs/multiplayer.md:144-145`).
* `proto/group_runtime.py:655` – an acknowledgement of the replaced channel that is handled late
  exempts the new bootstrap from the acknowledgement timer. `StalledIsWatched` states exactly this
  exception.
* `proto/group.py:425` – a hook that raises while the views are built leaves state and counters of an input
  for which there is no record; the next bootstrap shows a view that no checkpoint certifies.
* `proto/json_delta.py` – `1` and `true` are equal to the comparison, so a change from one to the other is
  left out of a delta; the replica then misses the hash. States that mix the two at one place are not
  among the instances.
* `collab/service.py:141, 190` – `execution_unknown` is no edge from `dispatching` or
  `export_check`: the error is swallowed and the task stays there; a cancel of it answers an
  internal error.
* `collab/service.py:767` – an answered question queues a task whose input artifacts are missing;
  `collab/service.py:427` – a crash between the row and the manifest loses the manifest. Both are
  the stated exceptions of `ExecutedWithInputs`.
* `collab/service.py:168` – for an adapter that is not ready the code asks for `queued ->
  waiting_local_operator`, which is no edge; the task stays queued, which is harmless.
* `collab/service.py:262-271` – a resume hands five notes over and marks up to fifty as delivered.
* `collab/store.py:252` – `append_event` picks its id in one statement and inserts in another; of
  two processes one fails after its state change.
* `collab/guest_app.py` – a pull over a longer file of the same name ends in a mismatch every time, the
  other stated exception of `FilesArrive`; `collab/host_app.py:260` – `formal and not bound_session` is never true.
* Tables: in Hold'em a player who is all-in against folded hands gets the whole pot uncontested, and the
  showdown branch of `_new_hand` is never taken. A Tractor match that was completed is not restored as such. The
  restored tables raise with fewer than four seats, and none goes on while a Member whose turn it is
  stays away. Gomoku and Connect Four assume an even board: on an odd one the first answer of Gomoku may
  overwrite the centre stone, and Connect Four raises when its columns are full.

## 7. What is not modelled, and why

* Session commands and the daemon's listing, guest, browse, cancel and the client of the control plane,
  identity, trust, ratings, inbox and doctor: single requests, single appends and reads of local files.
* Protocol bundles (search, archives, schemas, user interfaces), the game kit and the export of
  records: sequential file work and generated code.
* Command line, console, web pages and skill files: presentation.
* Within modelled components: encodings, key derivation, signatures and zero-knowledge proofs (valid
  or not), sockets, sandboxing, the texts for users and models; the lobby, seats and rate limits of a group and the removal of
  a Member; the synchronous twins of the two-party engine; the hidden-role game's conversation and
  ring-signed votes; the ceremony's state files; the bundles other than the eight games. The note of each component in
  `PROJECT.json` says what it leaves out. In `Transfer` the host ends between the writes of a batch, or after
  them and before the row's update, and not between the other statements of a call (the row's update and the unpacking, or two files of it).

Worth doing next: a theorem for `AuditsTellTheTruth`; the refinement of an
abstract ordered feed by hub and replica; one instance in which `GroupFrames` and `GroupPeer` share
the authority's records.
