--------------------------- MODULE CeremonyBoard ---------------------------
(***************************************************************************)
(* The bulletin board of a secret decision: the witnesses' durable stores  *)
(* (ceremony/board.py, served by witness_server.py, a thread for every     *)
(* request), the receipts and the checkpoint that a relay combines from    *)
(* their signatures, the guardians' authorization ledgers (tally.py) and   *)
(* the verifiers of the finished bundle (decision_proof.py, vsdp.py).      *)
(*                                                                         *)
(* A ballot is [id, nullifier, choice]; the signature of witness w under a *)
(* statement is the pair of both; a Merkle root is the set it is built of. *)
(***************************************************************************)
EXTENDS Naturals, FiniteSets

CONSTANTS
    Ballots,         \* the ballots that are cast: [id, nullifier, choice]
    Proven,          \* those whose eligibility proof is valid
    Manifests,       \* the final manifests that are put forward
    Guardians,       \* the guardians
    WitnessCount, WitnessQuorum, MinimumSet, \* of the profile (manifest.py)
    GuardianThreshold,                \* of the profile
    Options,         \* the choices of the decision
    MaxRequests,     \* bound: requests a witness serves at once
    MaxFaults,       \* bound: crashes and lost answers
    None             \* nothing signed, locked, sealed or authorized

ASSUME BoardAssumption ==
    /\ WitnessCount \in Nat /\ WitnessQuorum \in Nat /\ MinimumSet \in Nat
    /\ 2 * WitnessQuorum > WitnessCount
    /\ IsFiniteSet(Guardians) /\ GuardianThreshold \in Nat
    /\ 2 * GuardianThreshold > Cardinality(Guardians)
    /\ MaxRequests \in Nat /\ MaxFaults \in Nat
    /\ Proven \subseteq Ballots
    /\ \A R \in SUBSET Ballots : R # None
    /\ IsFiniteSet(Ballots) /\ IsFiniteSet(Options)
    /\ \A m \in Manifests : IsFiniteSet(m.witnesses) /\ m.minimum \in Nat

VARIABLES
    final,      \* the frozen final manifest
    clock,      \* "before", "open" or "closed": the voting window
    handlers,   \* per witness: requests being served, <<ballot, purpose>>
    records,    \* per witness: table records (and acceptances)
    locks,      \* per witness: table nullifier_locks, pairs <<nullifier, ballot>>
    receipts,   \* per witness: table receipts (their ballots)
    lockedRoot, \* per witness: table checkpoint_locks at height 1
    held,       \* acceptances that reached the relay: <<witness, ballot>>
    signed,     \* checkpoint signatures that reached the relay: <<witness, root>>
    sealed,     \* the quorum checkpoint that was combined
    ledger,     \* per guardian: table authorization_locks
    opened,     \* the tally of the decision bundle that verified
    faults

board == <<final, clock, handlers, records, locks, receipts, lockedRoot, held,
           signed, sealed, ledger, opened, faults>>

Witnesses == final.witnesses
Purposes == {"ballot", "gossip", "store"}
Roots == SUBSET Ballots

-----------------------------------------------------------------------------
(* The manifests *)

(* validate_setup_manifest: what a setup fixes for good *)
ValidSetup(m) ==
    /\ Cardinality(m.witnesses) = WitnessCount
    /\ m.quorum = WitnessQuorum
    /\ m.threshold = GuardianThreshold
    /\ m.minimum >= MinimumSet

(* validate_final_manifest: the final manifest repeats the setup's choices, *)
(* enough members enrolled, and the schedule is in order                    *)
ValidFinal(m) ==
    /\ ValidSetup(m)
    /\ m.enrolled >= m.minimum
    /\ m.opens < m.closes /\ m.closes < m.disputes

(* build_final_manifest gives out what it has validated *)
Frozen == {m \in Manifests : ValidFinal(m)}

-----------------------------------------------------------------------------
(* Receipts and checkpoints, as documents *)

MutantIsReceipt(b, signers) ==
    /\ signers \subseteq {w \in Witnesses : <<w, b>> \in held}
    /\ signers # {}

(* combine_acceptances and verify_receipt: signatures of distinct witnesses *)
(* of the manifest under one statement, a quorum of them                    *)
IsReceipt(b, signers) ==
    /\ signers \subseteq {w \in Witnesses : <<w, b>> \in held}
    /\ Cardinality(signers) >= final.quorum

Receipted(b) == IsReceipt(b, {w \in Witnesses : <<w, b>> \in held})

(* combine_checkpoints and verify_quorum_checkpoint *)
IsCheckpoint(root, signers) ==
    /\ signers \subseteq {w \in Witnesses : <<w, root>> \in signed}
    /\ Cardinality(signers) >= final.quorum

Sealable(root) == IsCheckpoint(root, {w \in Witnesses : <<w, root>> \in signed})

-----------------------------------------------------------------------------
Init ==
    /\ final \in Frozen
    /\ clock = "before"
    /\ handlers = [w \in Witnesses |-> {}]
    /\ records = [w \in Witnesses |-> {}]
    /\ locks = [w \in Witnesses |-> {}]
    /\ receipts = [w \in Witnesses |-> {}]
    /\ lockedRoot = [w \in Witnesses |-> None]
    /\ held = {} /\ signed = {} /\ sealed = None
    /\ ledger = [g \in Guardians |-> None]
    /\ opened = None
    /\ faults = 0

ClockMoves ==
    /\ clock # "closed"
    /\ clock' = IF clock = "before" THEN "open" ELSE "closed"
    /\ UNCHANGED <<final, handlers, records, locks, receipts, lockedRoot, held,
                   signed, sealed, ledger, opened, faults>>

-----------------------------------------------------------------------------
(* A witness *)

(* assert_voting_open *)
VotingOpen == clock = "open"

Idle(w) == Cardinality(handlers[w]) < MaxRequests
Serve(w, h) == handlers' = [handlers EXCEPT ![w] = @ \union {h}]
Served(w, h, more) == handlers' = [handlers EXCEPT ![w] = (@ \ {h}) \union more]

(* POST /v1/ballots: the window is checked, then the proof is verified by a *)
(* process of its own, and only then the store is locked                    *)
SubmitBallot(w, b) ==
    /\ VotingOpen /\ Idle(w)
    /\ Serve(w, <<b, "ballot">>)
    /\ UNCHANGED <<final, clock, records, locks, receipts, lockedRoot, held,
                   signed, sealed, ledger, opened, faults>>

(* POST /v1/receipts: a receipt for a record that is stored, or one that    *)
(* brings its record along, which is submitted first                        *)
GossipReceipt(w, b) ==
    /\ Receipted(b)
    /\ Idle(w)
    /\ IF b \in records[w]
       THEN Serve(w, <<b, "store">>)
       ELSE VotingOpen /\ Serve(w, <<b, "gossip">>)
    /\ UNCHANGED <<final, clock, records, locks, receipts, lockedRoot, held,
                   signed, sealed, ledger, opened, faults>>

(* the verifier finds the proof invalid, fails, or runs out of time *)
RejectProof(w, h) ==
    /\ h \in handlers[w] /\ h[2] # "store"
    /\ Served(w, h, {})
    /\ UNCHANGED <<final, clock, records, locks, receipts, lockedRoot, held,
                   signed, sealed, ledger, opened, faults>>

Conflicts(w, b) ==
    \E c \in Ballots : c # b /\ <<b.nullifier, c>> \in locks[w]

(* the transaction of submit finds the nullifier locked to another record *)
RefuseConflict(w, h) ==
    /\ h \in handlers[w] /\ h[2] # "store" /\ h[1] \in Proven
    /\ Conflicts(w, h[1])
    /\ Served(w, h, {})
    /\ UNCHANGED <<final, clock, records, locks, receipts, lockedRoot, held,
                   signed, sealed, ledger, opened, faults>>

(* the transaction of submit stores record, lock and acceptance, or finds   *)
(* them stored; the answer is the acceptance, and may be lost               *)
AcceptBallot(w, h) ==
    /\ h \in handlers[w] /\ h[2] # "store" /\ h[1] \in Proven
    /\ ~Conflicts(w, h[1])
    /\ records' = [records EXCEPT ![w] = @ \union {h[1]}]
    /\ locks' = [locks EXCEPT ![w] = @ \union {<<h[1].nullifier, h[1]>>}]
    /\ IF h[2] = "gossip"
       THEN Served(w, h, {<<h[1], "store">>}) /\ UNCHANGED <<held, faults>>
       ELSE /\ Served(w, h, {})
            /\ \/ held' = held \union {<<w, h[1]>>} /\ UNCHANGED faults
               \/ faults < MaxFaults /\ faults' = faults + 1 /\ UNCHANGED held
    /\ UNCHANGED <<final, clock, receipts, lockedRoot, signed, sealed, ledger, opened>>

StoreReceipt(w, h) ==
    /\ h \in handlers[w] /\ h[2] = "store"
    /\ receipts' = [receipts EXCEPT ![w] = @ \union {h[1]}]
    /\ Served(w, h, {})
    /\ UNCHANGED <<final, clock, records, locks, lockedRoot, held, signed, sealed,
                   ledger, opened, faults>>

MutantSignCheckpoint(w) ==
    /\ clock = "closed"
    /\ lockedRoot' = [lockedRoot EXCEPT ![w] = receipts[w]]
    /\ signed' = signed \union {<<w, receipts[w]>>}
    /\ UNCHANGED <<final, clock, handlers, records, locks, receipts, held, sealed,
                   ledger, opened, faults>>

(* POST /v1/checkpoints/sign: one root for ever; asked again, the same      *)
(* root is answered, any other is a fork and nothing is answered            *)
SignCheckpoint(w) ==
    /\ clock = "closed"
    /\ lockedRoot[w] \in {None, receipts[w]}
    /\ lockedRoot' = [lockedRoot EXCEPT ![w] = receipts[w]]
    /\ \/ signed' = signed \union {<<w, receipts[w]>>} /\ UNCHANGED faults
       \/ faults < MaxFaults /\ faults' = faults + 1 /\ UNCHANGED signed
    /\ UNCHANGED <<final, clock, handlers, records, locks, receipts, held, sealed,
                   ledger, opened>>

(* the server is killed and started again: the tables stay *)
Restart(w) ==
    /\ handlers[w] # {} /\ faults < MaxFaults
    /\ faults' = faults + 1
    /\ handlers' = [handlers EXCEPT ![w] = {}]
    /\ UNCHANGED <<final, clock, records, locks, receipts, lockedRoot, held,
                   signed, sealed, ledger, opened>>

-----------------------------------------------------------------------------
(* The bundle and its verifiers *)

(* the relay combines a quorum of checkpoint signatures *)
CombineCheckpoints(root) ==
    /\ Sealable(root)
    /\ sealed' = root
    /\ UNCHANGED <<final, clock, handlers, records, locks, receipts, lockedRoot,
                   held, signed, ledger, opened, faults>>

(* verify_board_bundle: records without conflicting nullifiers, receipts    *)
(* for exactly the records of the root                                      *)
BundleVerifies(accepted, root) ==
    /\ accepted \subseteq Proven
    /\ \A b, c \in accepted : b.nullifier = c.nullifier => b = c
    /\ \A b \in accepted : Receipted(b)
    /\ accepted = root

MutantAuthorizes(root) == BundleVerifies(root, root)

(* build_aggregate_authorization and verify_aggregate_authorization: the    *)
(* root of a verified bundle that is large enough                           *)
Authorizes(root) ==
    /\ BundleVerifies(root, root)
    /\ Cardinality(root) >= final.minimum

(* GuardianAuthorizationLedger.acquire: the first authorization is kept     *)
AcquireAuthorization(g) ==
    /\ sealed # None /\ Authorizes(sealed)
    /\ ledger[g] = None
    /\ ledger' = [ledger EXCEPT ![g] = sealed]
    /\ UNCHANGED <<final, clock, handlers, records, locks, receipts, lockedRoot,
                   held, signed, sealed, opened, faults>>

(* _tally_entries: one count for each option, in all as many as accepted    *)
Tally(root) == [o \in Options |-> Cardinality({b \in root : b.choice = o})]

(* _outcome: the plurality, or none *)
Outcome(tally) ==
    LET winners == {o \in Options : \A p \in Options : tally[p] <= tally[o]}
    IN  IF Cardinality(winners) = 1 THEN winners ELSE {}

(* build_provisional_decision_proof: anyone can build it anew and compare   *)
DecisionProof(root) == [tally |-> Tally(root), outcome |-> Outcome(Tally(root))]

(* verify_decision_bundle_value: board, authorization, tally and proof *)
OpenDecision(root) ==
    /\ root # None /\ Authorizes(root)
    /\ Cardinality({g \in Guardians : ledger[g] = root}) >= final.threshold
    /\ opened' = DecisionProof(root)
    /\ UNCHANGED <<final, clock, handlers, records, locks, receipts, lockedRoot,
                   held, signed, sealed, ledger, faults>>

Next ==
    \/ ClockMoves
    \/ \E w \in Witnesses :
        \/ \E b \in Ballots : SubmitBallot(w, b) \/ GossipReceipt(w, b)
        \/ \E h \in handlers[w] :
            RejectProof(w, h) \/ RefuseConflict(w, h) \/ AcceptBallot(w, h) \/ StoreReceipt(w, h)
        \/ SignCheckpoint(w)
        \/ Restart(w)
    \/ \E s \in signed : CombineCheckpoints(s[2])
    \/ \E g \in Guardians : AcquireAuthorization(g)
    \/ OpenDecision(sealed)

Spec == Init /\ [][Next]_board

-----------------------------------------------------------------------------
(* Every variable keeps its type, and table nullifier_locks its primary key *)
(* (WitnessStore._initialize).                                              *)
TypeOK ==
    /\ final \in Manifests /\ ValidFinal(final)
    /\ clock \in {"before", "open", "closed"}
    /\ handlers \in [Witnesses -> SUBSET (Ballots \X Purposes)]
    /\ records \in [Witnesses -> SUBSET Ballots]
    /\ locks \in [Witnesses -> SUBSET ({b.nullifier : b \in Ballots} \X Ballots)]
    /\ \A w \in Witnesses : \A k, l \in locks[w] : k[1] = l[1] => k = l
    /\ receipts \in [Witnesses -> SUBSET Ballots]
    /\ lockedRoot \in [Witnesses -> {None} \union Roots]
    /\ held \subseteq Witnesses \X Ballots
    /\ signed \subseteq Witnesses \X Roots
    /\ sealed \in {None} \union Roots
    /\ ledger \in [Guardians -> {None} \union Roots]
    /\ opened \in {None} \union [tally : [Options -> Nat], outcome : SUBSET Options]
    /\ faults \in 0..MaxFaults

(* A member who casts two ballots gets a receipt for one of them at most,   *)
(* whichever witnesses each reached and in whatever order (submit's         *)
(* nullifier lock, combine_acceptances' quorum).                            *)
NoDoubleVote ==
    \A b, c \in Ballots :
        Receipted(b) /\ Receipted(c) /\ b.nullifier = c.nullifier => b = c

(* All quorum checkpoints that can be combined have one root, so every      *)
(* verifier counts the same ballots (checkpoint's lock at height 1).        *)
OneRoot ==
    \A s1, s2 \in signed : Sealable(s1[2]) /\ Sealable(s2[2]) => s1[2] = s2[2]

(* Witnesses, relay, guardians and verifiers together are one ballot box:   *)
(* a receipt uses the nullifier up, the box is sealed once, over ballots    *)
(* with a receipt, and its own tally is opened.                             *)
Box == INSTANCE BallotBox WITH
    receipted <- {b \in Ballots : Receipted(b)},
    minimum <- final.minimum,
    NoBox <- None
IsOneBallotBox == Box!Init /\ [][Box!Next]_(Box!box)
=============================================================================
