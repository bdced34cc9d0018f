------------------------------ MODULE MCServices ------------------------------
(* The services around a match, which share no state: the runtime service,   *)
(* the peer overlay of a group, the hooks in a sandboxed process, the coach, *)
(* and how Host and Guest are paired.  A behaviour runs one of them (part).  *)
EXTENDS RuntimeServer

CONSTANTS MaxSeq, MaxQueued, MaxRestarts, MaxAttempts,
          Callers, MaxCalls,
          Agents, MaxTurns, MaxResets, MaxEnds

(* Nothing is none of the outcomes of a match, of the owners of a session's  *)
(* worker and of the threads that call it; its first call starts it.  A      *)
(* message of a Member is sent once at least, and the table of the runtime   *)
(* service has an entry.  The bounds are numbers.                            *)
ASSUME ServicesAssumption ==
    /\ None \notin {"completed", "aborted", "error", "self", "other", "main"} \union Callers
    /\ MaxCalls \in Nat \ {0} /\ MaxAttempts \in Nat \ {0}
    /\ MaxSent \in Nat /\ CacheLimit \in Nat \ {0}
    /\ MaxTurns \in Nat /\ MaxResets \in Nat /\ MaxEnds \in Nat

VARIABLES part,
    authority, link, context, directory, saved, actions, outbox, flight, ticket, sentAt, evidence, fate, restarts,
    registry, life, client, sandbox, other, lock, call, requests, answers, nextId, record,
    agent, daemon, ends, generation, inbox, dialog, conversation, turns, sender, resetter, worker, overlapped,
    consent, post, renewing, matched, reports, open, wire, child, parent, event, meta

Overlay == INSTANCE GroupPeer WITH queue <- actions
Remote == INSTANCE RemoteHooks WITH process <- sandbox
Coaching == INSTANCE Coach WITH process <- daemon, session <- conversation, queue <- turns
Pairs == INSTANCE Pairing

overlay == <<authority, link, context, directory, saved, actions, outbox, flight, ticket, sentAt, evidence, fate, restarts>>
remote == <<registry, life, client, sandbox, other, lock, call, requests, answers, nextId, record>>
coaching == <<agent, daemon, ends, generation, inbox, dialog, conversation, turns, sender, resetter, worker, overlapped>>
pairs == <<consent, post, renewing, matched, reports, open, wire, child, parent, event, meta>>

MCInit ==
    /\ part \in {"runtime", "overlay", "remote", "coach", "pairing"}
    /\ part = "coach" \/ agent = "caller"
    /\ part = "pairing" \/ consent = [share |-> TRUE, accept |-> TRUE, local |-> TRUE]
    /\ Init /\ Overlay!Init /\ Remote!Init /\ Coaching!Init /\ Pairs!Init
MCNext ==
    /\ UNCHANGED part
    /\ \/ part = "runtime" /\ Next /\ UNCHANGED <<overlay, remote, coaching, pairs>>
       \/ part = "overlay" /\ Overlay!Next /\ UNCHANGED <<runtime, remote, coaching, pairs>>
       \/ part = "remote" /\ Remote!Next /\ UNCHANGED <<runtime, overlay, coaching, pairs>>
       \/ part = "coach" /\ Coaching!Next /\ UNCHANGED <<runtime, overlay, remote, pairs>>
       \/ part = "pairing" /\ Pairs!Next /\ UNCHANGED <<runtime, overlay, remote, coaching>>
MCSpec == MCInit /\ [][MCNext]_<<part, runtime, overlay, remote, coaching, pairs>>
ThreadSymmetry == Permutations(Threads)

(* The runtime server: types, one answer to each request, repeats.           *)
RequestsAnswered == part = "runtime" => TypeOK /\ AnsweredOnce /\ RepeatGetsFirstAnswer
(* The overlay: types, the bundles of two Members, the context of delivery.  *)
PeersReconcile == part = "overlay" => Overlay!TypeOK /\ Overlay!BundlesReconcile /\ Overlay!DeliveredInContext
(* Remote hooks: types, one worker for a session, answers to the questions.  *)
WorkerInStep == part = "remote" => Remote!TypeOK /\ Remote!OneWorker /\ Remote!InStep
(* The coach: types, its turns neither lost nor repeated.                    *)
TurnsAreKept == part = "coach" => Coaching!TypeOK /\ Coaching!NoTurnLost /\ Coaching!DoneIsDone
(* The pairing: types, what both sides believe, how the match is closed.     *)
PairingHolds == part = "pairing" => Pairs!TypeOK /\ Pairs!PairedAgree /\ Pairs!MatchIsClosed
=============================================================================
