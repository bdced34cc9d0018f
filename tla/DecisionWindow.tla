--------------------------- MODULE DecisionWindow ---------------------------
(***************************************************************************)
(* How one side's decision of a round is found (proto/hooks.py, the        *)
(* DecisionBus of proto/sdk.py, decide_gateway.py, intervention_intent.py).*)
(* Web, command line and agents append decisions to a file, each after a   *)
(* look at what is finalized; the game process opens a window per round,   *)
(* turns pending intents and the active policy into decisions, and takes   *)
(* the best record of the file, or plays on by itself.  In the human mode  *)
(* it holds the latest decision until the release, and never plays itself. *)
(***************************************************************************)
EXTENDS Naturals, Sequences, FiniteSets, FiniteSetsExt

CONSTANTS
    Modes,         \* "hybrid", "human"
    Rounds,        \* bound: 1..Rounds are played
    Submitters,    \* other processes that submit decisions
    Intents,       \* pending intents: [created, target, ttl, kind]
    MaxDecisions,  \* bound: records in the file
    None

VARIABLES
    mode,
    round,       \* the current window
    phase,       \* "idle", "intents", "submit", "policy", "produce", "poll", "close", "failed"
    policy,      \* the strategy's mode is policy or script
    intents,     \* per intent: None, "pending", "materialized" or "failed"
    taking,      \* the pending intents the window has read and not yet taken
    current,     \* the intent being materialized
    decisions,   \* decisions.jsonl: [round, origin]
    consumed,    \* of them, consumed or superseded
    looked,      \* length of the file at the last look
    used,        \* per round: the record taken, 0 when none was
    finalized,   \* finalized.json: per round the reason
    submitting   \* per submitter: the round it has found open, 0 when idle

window == <<mode, round, phase, policy, intents, taking, current, decisions, consumed, looked, used,
            finalized, submitting>>

Init ==
    /\ mode \in Modes /\ policy \in BOOLEAN
    /\ round = 0 /\ phase = "idle"
    /\ intents = [i \in Intents |-> None] /\ taking = {} /\ current = None
    /\ decisions = <<>> /\ consumed = {} /\ looked = 0
    /\ used = [r \in 1..Rounds |-> 0]
    /\ finalized = [r \in 1..Rounds |-> None]
    /\ submitting = [s \in Submitters |-> 0]
-----------------------------------------------------------------------------
(* submit_decision of another process: the check, and then the append *)
Check(s, r) ==
    /\ submitting[s] = 0
    /\ finalized[r] = None
    /\ submitting' = [submitting EXCEPT ![s] = r]
    /\ UNCHANGED <<mode, round, phase, policy, intents, taking, current, decisions, consumed, looked, used, finalized>>

Submitted(r, origin) ==
    /\ Len(decisions) < MaxDecisions
    /\ decisions' = Append(decisions, [round |-> r, origin |-> origin])

Submit(s) ==
    /\ submitting[s] # 0
    /\ Submitted(submitting[s], "explicit")
    /\ submitting' = [submitting EXCEPT ![s] = 0]
    /\ UNCHANGED <<mode, round, phase, policy, intents, taking, current, consumed, looked, used, finalized>>
-----------------------------------------------------------------------------
(* What a look at the file finds for a round: explicit records and those of *)
(* intents before those of a policy, the latest of the best                 *)
Candidates(r) == {i \in DOMAIN decisions : decisions[i].round = r /\ i \notin consumed}
MutantPriority(i) == 0
Priority(i) == IF decisions[i].origin = "policy" THEN 50 ELSE 100

Best(r) ==
    CHOOSE i \in Candidates(r) : \A j \in Candidates(r) :
        Priority(j) < Priority(i) \/ (Priority(j) = Priority(i) /\ j <= i)

ExplicitPresent(r) == Candidates(r) # {} /\ Priority(Best(r)) = 100

(* pending_for_window *)
Applies(i) ==
    /\ intents[i] = "pending"
    /\ IF i.target = "current" THEN i.created = round
       ELSE round - i.created \in 1..i.ttl

(* another process appends an intent, for the window it has seen published *)
AppendIntent(i) ==
    /\ intents[i] = None /\ round = i.created
    /\ intents' = [intents EXCEPT ![i] = "pending"]
    /\ UNCHANGED <<mode, round, phase, policy, taking, current, decisions, consumed, looked, used, finalized, submitting>>

Open ==
    /\ phase = "idle" /\ round < Rounds
    /\ round' = round + 1
    /\ phase' = IF mode = "human" THEN "hold" ELSE "open"
    /\ UNCHANGED <<mode, policy, intents, taking, current, decisions, consumed, looked, used, finalized, submitting>>

(* the pending intents are read once; what is appended later waits *)
ReadIntents ==
    /\ phase = "open"
    /\ taking' = {i \in Intents : Applies(i)} /\ phase' = "intents"
    /\ UNCHANGED <<mode, round, policy, intents, current, decisions, consumed, looked, used, finalized, submitting>>

(* _materialize_one_intent: a policy looks whether there is an explicit     *)
(* decision, a fixed value does not                                         *)
TakeIntent(i) ==
    /\ phase = "intents" /\ i \in taking
    /\ taking' = taking \ {i}
    /\ IF i.kind = "policy" /\ ExplicitPresent(round)
       THEN intents' = [intents EXCEPT ![i] = "materialized"] /\ UNCHANGED <<phase, current>>
       ELSE \/ phase' = "submit" /\ current' = i /\ UNCHANGED intents
            \/ /\ i.kind = "policy"              \* no context, or no result
               /\ intents' = [intents EXCEPT ![i] = "failed"] /\ UNCHANGED <<phase, current>>
    /\ UNCHANGED <<mode, round, policy, decisions, consumed, looked, used, finalized, submitting>>

SubmitIntent ==
    /\ phase = "submit"
    /\ Submitted(round, IF current.kind = "policy" THEN "policy" ELSE "intent")
    /\ intents' = [intents EXCEPT ![current] = "materialized"]
    /\ phase' = "intents" /\ current' = None
    /\ UNCHANGED <<mode, round, policy, taking, consumed, looked, used, finalized, submitting>>

IntentsDone ==
    /\ phase = "intents" /\ taking = {}
    /\ phase' = "policy"
    /\ UNCHANGED <<mode, round, policy, intents, taking, current, decisions, consumed, looked, used, finalized, submitting>>

(* _materialize_active_policy: skipped, failed, or on to a decision *)
LookForPolicy ==
    /\ phase = "policy"
    /\ \/ phase' = "poll"
       \/ policy /\ ~ExplicitPresent(round) /\ phase' = "produce"
    /\ UNCHANGED <<mode, round, policy, intents, taking, current, decisions, consumed, looked, used, finalized, submitting>>

SubmitPolicy ==
    /\ phase = "produce"
    /\ Submitted(round, "policy")
    /\ phase' = "poll"
    /\ UNCHANGED <<mode, round, policy, intents, taking, current, consumed, looked, used, finalized, submitting>>

(* consume_latest_for_match: the best record is consumed, the others of the *)
(* window are superseded; records of other windows stay                     *)
MutantMarked(r) == DOMAIN decisions
Marked(r) == Candidates(r)

Consume ==
    /\ phase = "poll"
    /\ looked' = Len(decisions)
    /\ consumed' = consumed \union Marked(round)
    /\ IF Candidates(round) # {}
       THEN used' = [used EXCEPT ![round] = Best(round)] /\ phase' = "close"
       ELSE UNCHANGED used /\ phase' \in {"poll", "close"}     \* within min_think, or done
    /\ UNCHANGED <<mode, round, policy, intents, taking, current, decisions, finalized, submitting>>

(* await_latest_decision: after the release the latest record for the round *)
(* is taken; without one until the deadline the decision has failed         *)
Latest(r) == {i \in DOMAIN decisions : decisions[i].round = r}

Release ==
    /\ phase = "hold"
    /\ looked' = Len(decisions)
    /\ IF Latest(round) # {} THEN used' = [used EXCEPT ![round] = Max(Latest(round))] /\ phase' = "close"
       ELSE UNCHANGED used /\ phase' \in {"hold", "timeout"}
    /\ UNCHANGED <<mode, round, policy, intents, taking, current, decisions, consumed, finalized, submitting>>

TimedOut ==
    /\ phase = "timeout"
    /\ finalized' = [finalized EXCEPT ![round] = "timeout"]
    /\ phase' = "failed"                       \* DecisionTimeoutError
    /\ UNCHANGED <<mode, round, policy, intents, taking, current, decisions, consumed, looked, used, submitting>>

Close ==
    /\ phase = "close"
    /\ finalized' = [finalized EXCEPT ![round] = 
        IF used[round] = 0 THEN "fallback" ELSE IF mode = "human" THEN "release" ELSE "consumed"]
    /\ phase' = "idle"
    /\ UNCHANGED <<mode, round, policy, intents, taking, current, decisions, consumed, looked, used, submitting>>

Next ==
    \/ \E s \in Submitters : Submit(s) \/ \E r \in 1..Rounds : Check(s, r)
    \/ (\E i \in Intents : AppendIntent(i) \/ TakeIntent(i))
    \/ Open \/ ReadIntents \/ SubmitIntent \/ IntentsDone
    \/ LookForPolicy \/ SubmitPolicy \/ Consume \/ Release \/ TimedOut \/ Close

Spec == Init /\ [][Next]_window
-----------------------------------------------------------------------------
(* Every variable keeps its type (the files of DecisionBus).                *)
TypeOK ==
    /\ round \in 0..Rounds
    /\ phase \in {"idle", "open", "intents", "submit", "policy", "produce", "poll", "hold", "timeout", "close", "failed"}
    /\ intents \in [Intents -> {None, "pending", "materialized", "failed"}]
    /\ consumed \subseteq DOMAIN decisions
    /\ \A r \in 1..Rounds : used[r] \in {0} \union DOMAIN decisions
    /\ finalized \in [1..Rounds -> {None, "consumed", "release", "fallback", "timeout"}]
    /\ submitting \in [Submitters -> 0..Rounds]

(* A decision submitted for a later round is not passed over by the windows *)
(* before it: when a round is played without one, the last look at the file *)
(* had found none for it (consume_latest_for_match instead of read_pending).*)
FutureDecisionsKept ==
    \A r \in 1..Rounds :
        phase \in {"close", "idle"} /\ r = round /\ used[r] = 0 =>
            \A i \in 1..looked : decisions[i].round # r

(* What a policy produced is never played over an explicit decision that    *)
(* was in the file when the choice was made, whoever wrote last.            *)
ExplicitBeatsPolicy ==
    \A r \in 1..Rounds : used[r] # 0 /\ decisions[used[r]].origin = "policy" /\ mode = "hybrid" =>
        \A i \in 1..(IF r = round THEN looked ELSE 0) :
            decisions[i].round = r => decisions[i].origin = "policy"

(* hooks.py:600: materializing an intent must not cover a decision with a   *)
(* higher priority, an explicit one.                                        *)
IntentYieldsToExplicit ==
    \A r \in 1..Rounds : used[r] # 0 /\ decisions[used[r]].origin = "intent" =>
        \A i \in 1..used[r] : decisions[i].round = r => decisions[i].origin # "explicit"
=============================================================================
