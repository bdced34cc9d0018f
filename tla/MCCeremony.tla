----------------------------- MODULE MCCeremony -----------------------------
(* The two halves of a ceremony, which share no state: the bulletin board    *)
(* and the transport of the roles' contributions.                            *)
EXTENDS CeremonyBoard, Sequences, TLC

CONSTANTS w1, w2, w3, g1, g2, g3,
          Roles, Allowed, Payloads, Collectors, QuorumMinimum, DropEvery, DuplicateEvery,
          MaxDeliveries

\* The kinds that the quorum rule admits are kinds of authorized roles.
ASSUME BusAssumption == Allowed \subseteq Roles /\ MaxDeliveries \in Nat

VARIABLES part, roles, deliveries, delayed, contributions, public, direct, abort,
          collectors, read

b1 == [id |-> 1, nullifier |-> "n1", choice |-> "yes"]
b2 == [id |-> 2, nullifier |-> "n1", choice |-> "no"]
b3 == [id |-> 3, nullifier |-> "n2", choice |-> "yes"]
MCBallots == {b1, b2, b3}
MCProven == {b1, b2}
MCManifests ==
    [witnesses : {{w1, w2, w3}, {w1, w2}}, quorum : {1, 2}, threshold : {2}, minimum : {1},
     enrolled : {0, 3}, opens : {1}, closes : {2}, disputes : {3}]

Artifacts == {[id |-> 1, scope |-> "ceremony", kindScope |-> "ceremony", clean |-> TRUE],
              [id |-> 2, scope |-> "decision", kindScope |-> "ceremony", clean |-> TRUE],
              [id |-> 3, scope |-> "decision", kindScope |-> "decision", clean |-> TRUE]}
Bus == INSTANCE CeremonyBus

bus == <<roles, deliveries, delayed, contributions, public, direct, abort, collectors, read>>
vars == <<part, board, bus>>

MCInit == part \in {"board", "bus"} /\ Init /\ Bus!Init
MCNext ==
    /\ UNCHANGED part
    /\ \/ part = "board" /\ Next /\ UNCHANGED bus
       \/ part = "bus" /\ Bus!Next /\ UNCHANGED board
MCSpec == MCInit /\ [][MCNext]_vars

(* The bus: types, collections that agree, an abort that nothing follows.    *)
ContributionsSettle == [](Bus!TypeOK /\ Bus!CollectorsAgree) /\ Bus!NothingAfterAbort
Sym == Permutations({w1, w2, w3})
=============================================================================
