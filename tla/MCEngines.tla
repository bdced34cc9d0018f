----------------------------- MODULE MCEngines ------------------------------
(* The engines of a match, which share no state: a process runs one of them  *)
(* (part).  A duel, a conversation, the decisions of a round, a match in     *)
(* real time, hidden roles, and mental poker.                                *)
EXTENDS DuelEngine

CONSTANTS MaxLines, Quit, MaxHeard,
          WindowModes, Rounds, Submitters, MaxDecisions,
          Delay, Leads, MaxLead, Policies, MaxTicks,
          N, Registry, Shuffles, MaxQueries, FaultKinds

\* None is no value, no tick and no name of an ending.
ASSUME EnginesAssumption ==
    /\ MaxLines \in Nat /\ MaxHeard \in Nat
    /\ Rounds \in Nat /\ MaxDecisions \in Nat
    /\ Delay \in Nat /\ Leads \subseteq Nat /\ MaxLead \in Nat /\ MaxTicks \in Nat
    /\ None \notin Nat \union {"completed", "disconnected", "raised"}
\* A seat has a card and a shuffle loses none; None is no role, no card on its way
\* and no question.
ASSUME RolesAssumption ==
    /\ N \in Nat \ {0} /\ DOMAIN Registry = 1..N
    /\ Shuffles # {} /\ \A p \in Shuffles : p \in [1..N -> 1..N] /\ \A i, j \in 1..N : p[i] = p[j] => i = j
    /\ None \notin {"seer"} \union [id : 1..N, locks : [1..N -> [1..N -> 0..2]]]
    /\ None \notin [seat : 1..N, target : 1..N, status : {"pending", "verified"}, guardians : SUBSET (1..N)]

VARIABLES part,
    lines, torn, offset, phase, backlog, input, sent, chatOpen, heard, tasks, terminal, outcome,
    control, window, stage, policy, intents, taking, current, decisions, consumed, looked, used,
    finalized, submitting,
    onDisconnect, agreed, linked, toHost, toGuest, host, tick, frames, hostPending, pending,
    lastSeq, ack, accepted, lost, guest, seen, seq,
    seed, deck, shuffleRecord, transit, unlocked, shares, assigned, queries, results, hellos, team, batch, mixRecord,
    pi, fault, peerWire, peerOpen, broken, side

MCIntents == {[created |-> 1, target |-> "next", ttl |-> 1, kind |-> "value"],
              [created |-> 1, target |-> "current", ttl |-> 1, kind |-> "policy"]}

Chat == INSTANCE FreeChat WITH open <- chatOpen
Window == INSTANCE DecisionWindow WITH
    Modes <- WindowModes, Intents <- MCIntents, mode <- control, round <- window, phase <- stage
Match == INSTANCE Realtime WITH policy <- onDisconnect, open <- linked

MCCards == <<[rank |-> 1, suit |-> 1], [rank |-> 2, suit |-> 2], [rank |-> 8, suit |-> 2], [rank |-> 3, suit |-> 3],
             [rank |-> 2, suit |-> 1]>>
ThreeRoles == <<"seer", "wolf", "wolf">>
TwoShuffles == {<<1, 2, 3>>, <<2, 3, 1>>}
Roles == INSTANCE HiddenRole
Poker == INSTANCE MentalPoker WITH
    Face <- MCCards, Wild <- 8, Dealt <- <<"guest", "guest", "host", "host">>, wire <- peerWire, open <- peerOpen,
    Shuffles <- {<<1, 2, 3, 4, 5>>, <<1, 4, 2, 3, 5>>, <<3, 1, 4, 2, 5>>, <<2, 5, 1, 4, 3>>}

chat == <<lines, torn, offset, phase, backlog, input, sent, chatOpen, heard, tasks, terminal, outcome>>
deciding == <<control, window, stage, policy, intents, taking, current, decisions, consumed, looked, used,
              finalized, submitting>>
match == <<onDisconnect, agreed, linked, toHost, toGuest, host, tick, frames, hostPending, pending,
           lastSeq, ack, accepted, lost, guest, seen, seq>>
dealing == <<seed, deck, shuffleRecord, transit, unlocked, shares, assigned, queries, results, hellos, team,
             batch, mixRecord>>
poker == <<pi, fault, peerWire, peerOpen, broken, side>>

MCInit ==
    /\ part \in {"duel", "chat", "window", "match", "roles", "poker"}
    /\ part = "duel" \/ mode = "session_loop"
    /\ part = "window" \/ (control = "hybrid" /\ policy = FALSE)
    /\ part = "match" \/ (onDisconnect = "abort" /\ agreed = TRUE)
    /\ part = "roles" \/ seed = [i \in 1..N |-> CHOOSE p \in Shuffles : TRUE]
    /\ part = "poker" \/ (pi = <<1, 2, 3, 4, 5>> /\ fault = None)
    /\ Init /\ Chat!Init /\ Window!Init /\ Match!Init /\ Roles!Init /\ Poker!Init
MCNext ==
    /\ UNCHANGED part
    /\ \/ part = "duel" /\ Next /\ UNCHANGED <<chat, deciding, match, dealing, poker>>
       \/ part = "chat" /\ Chat!Next /\ UNCHANGED <<vars, deciding, match, dealing, poker>>
       \/ part = "window" /\ Window!Next /\ UNCHANGED <<vars, chat, match, dealing, poker>>
       \/ part = "match" /\ Match!Next /\ UNCHANGED <<vars, chat, deciding, dealing, poker>>
       \/ part = "roles" /\ Roles!Next /\ UNCHANGED <<vars, chat, deciding, match, poker>>
       \/ part = "poker" /\ Poker!Next /\ UNCHANGED <<vars, chat, deciding, match, dealing>>
MCSpec ==
    /\ MCInit /\ [][MCNext]_<<part, vars, chat, deciding, match, dealing, poker>>
    /\ WF_vars(part = "duel" /\ Channel) /\ WF_vars(part = "duel" /\ Engine)

(* A duel: types, secrecy of the values, one outcome.                        *)
DuelIsFair == part = "duel" => TypeOK /\ NoPeeking /\ OneOutcome
(* A conversation: types, every line once and the backlog first.             *)
ChatIsWhole == part = "chat" => Chat!TypeOK /\ Chat!EveryLineOnce /\ Chat!BacklogFirst
(* engine.py:145: a channel that closes gives completed False.  The code does *)
(* not keep to it.                                                           *)
DisconnectNeverCompletes == Chat!DisconnectNeverCompletes
(* The decisions of a round: types, none lost, the explicit one first.       *)
DecisionsCount == part = "window" => Window!TypeOK /\ Window!FutureDecisionsKept /\ Window!ExplicitBeatsPolicy
(* hooks.py:600: an intent does not cover an explicit decision.  Violated.    *)
IntentYieldsToExplicit == Window!IntentYieldsToExplicit
(* A match in real time: types, accepted commands, equal histories.          *)
MatchAgrees == part = "match" => Match!TypeOK /\ Match!AcceptedIsApplied /\ Match!FramesAgree
(* realtime.py:677: the host answers no newer state than the guest.  Violated. *)
NoHeadStart == Match!NoHeadStart
(* Hidden roles: types, locks, and the audit of the artifact.                *)
RolesStayHidden == part = "roles" => Roles!TypeOK /\ Roles!CardStaysLocked /\ Roles!TerminalVerifies
(* Mental poker: types, and what the two audits say.                         *)
AuditsTellTheTruth == part = "poker" => Poker!TypeOK /\ Poker!AuditSound /\ Poker!HonestMatchPasses
=============================================================================
