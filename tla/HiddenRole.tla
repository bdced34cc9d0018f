----------------------------- MODULE HiddenRole -----------------------------
(***************************************************************************)
(* Dealing hidden roles without a dealer (proto/hidden_role.py).  Every    *)
(* seat locks every card with a commuting cipher, shuffles, and takes its  *)
(* lock off for the one who receives the card; the role itself is under a  *)
(* key that all seats share, so each gives its part, sealed to the         *)
(* receiver.  A lock is a count per seat: exponents commute and their      *)
(* inverses cancel.  A relay calls the peers and may lose an answer, and   *)
(* then calls again.                                                       *)
(***************************************************************************)
EXTENDS Naturals, Integers, Sequences, FiniteSets, Functions

CONSTANTS
    N,           \* seats (seven in the code)
    Registry,    \* the role of each card, a sequence
    Shuffles,    \* what the seeds of the seats can give: permutations of 1..N
    MaxQueries,  \* bound: the questions of the seer
    None

Seats == 1..N
Roles == Range(Registry)

VARIABLES
    seed,           \* per seat: the permutation its committed seed gives
    deck,           \* [stage, cards]: the deck the relay has
    shuffleRecord,  \* per seat: [input, output] of its shuffle
    transit,        \* per recipient: its card, as far as it is unlocked
    unlocked,       \* per recipient: the seats that have taken their locks off
    shares,         \* per recipient: the guardians whose share has been sealed to it
    assigned,       \* per seat: [card, role]
    queries,        \* per question: [seat, target, status, guardians]
    results,        \* the seer's verified results [query, target, role]
    hellos,         \* seats whose team message the relay has
    team,           \* per seat: role_team
    batch,          \* [stage, envelopes]: the anonymous messages, onion-sealed
    mixRecord       \* per seat: [input, output] of its mix

dealing == <<seed, deck, shuffleRecord, transit, unlocked, shares, assigned, queries, results, hellos, team,
             batch, mixRecord>>

(* build_initial_deck: a contributor's secret is under its own lock *)
Own == [c \in Seats |-> [s \in Seats |-> IF s = c THEN 1 ELSE 0]]
InitialDeck == [i \in Seats |-> [id |-> i, locks |-> Own]]

Init ==
    /\ seed \in [Seats -> Shuffles]
    /\ deck = [stage |-> 0, cards |-> InitialDeck]
    /\ shuffleRecord = [s \in Seats |-> None]
    /\ transit = [s \in Seats |-> None] /\ unlocked = [s \in Seats |-> {}]
    /\ shares = [s \in Seats |-> {}]
    /\ assigned = [s \in Seats |-> None]
    /\ queries = [q \in 1..MaxQueries |-> None] /\ results = {}
    /\ hellos = {} /\ team = [s \in Seats |-> {}]
    /\ batch = [stage |-> 0, envelopes |-> [i \in Seats |-> [from |-> i, layers |-> Seats]]]
    /\ mixRecord = [s \in Seats |-> None]
-----------------------------------------------------------------------------
(* shuffle: every component gets the seat's lock once, the cards move       *)
Locked(card, s) ==
    [card EXCEPT !.locks = [c \in Seats |-> [t \in Seats |-> @[c][t] + (IF t = s THEN 1 ELSE 0)]]]
Permuted(values, p) == [i \in DOMAIN values |-> values[p[i]]]
Shuffled(cards, s, p) == Permuted([i \in Seats |-> Locked(cards[i], s)], p)

(* the permutation comes from the seed and the input, so a repetition gives *)
(* the deck again                                                           *)
MutantPermutation(s) == Shuffles
Permutation(s) == {seed[s]}

Shuffle(s) ==
    /\ deck.stage = s - 1
    /\ \E p \in Permutation(s) :
        LET output == Shuffled(deck.cards, s, p) IN
        /\ shuffleRecord' = [shuffleRecord EXCEPT ![s] = [input |-> deck.cards, output |-> output]]
        /\ \/ deck' = [stage |-> s, cards |-> output]
           \/ UNCHANGED deck                              \* the answer is lost
    /\ UNCHANGED <<seed, transit, unlocked, shares, assigned, queries, results, hellos, team, batch, mixRecord>>

(* a seat's card leaves the deck for the tour that unlocks it; the relay    *)
(* serves one seat after the other                                          *)
Deal(r) ==
    /\ deck.stage = N /\ transit[r] = None
    /\ \A t \in 1..(r - 1) : assigned[t] # None
    /\ transit' = [transit EXCEPT ![r] = deck.cards[r]]
    /\ UNCHANGED <<seed, deck, shuffleRecord, unlocked, shares, assigned, queries, results, hellos, team, batch,
                   mixRecord>>

(* unlock_for_recipient: one lock of the shuffle, and the contributor's own *)
MutantOpened(card, s) ==
    [card EXCEPT !.locks =
        [c \in Seats |-> [t \in Seats |-> @[c][t] - (IF t = s THEN 1 ELSE 0) - (IF t = c THEN 1 ELSE 0)]]]
Opened(card, s) ==
    [card EXCEPT !.locks =
        [c \in Seats |-> [t \in Seats |-> @[c][t] - (IF t # s THEN 0 ELSE IF c = s THEN 2 ELSE 1)]]]

Unlock(s, r) ==
    /\ s # r /\ transit[r] # None /\ s \notin unlocked[r]
    /\ transit' = [transit EXCEPT ![r] = Opened(@, s)]
    /\ unlocked' = [unlocked EXCEPT ![r] = @ \union {s}]
    /\ UNCHANGED <<seed, deck, shuffleRecord, shares, assigned, queries, results, hellos, team, batch, mixRecord>>

(* sealed_role_share: for the card at the recipient's place *)
ShareRole(s, r) ==
    /\ transit[r] # None /\ s \notin shares[r]
    /\ shares' = [shares EXCEPT ![r] = @ \union {s}]
    /\ UNCHANGED <<seed, deck, shuffleRecord, transit, unlocked, assigned, queries, results, hellos, team, batch,
                   mixRecord>>

Clear(card) == \A c, s \in Seats : card.locks[c][s] = 0

(* accept_role: the card must open, the credential name one card of the     *)
(* registry, and the shares of all seats give that card's role              *)
AcceptRole(r) ==
    /\ assigned[r] = None
    /\ unlocked[r] = Seats \ {r} /\ shares[r] = Seats
    /\ Clear(Opened(transit[r], r))
    /\ assigned' = [assigned EXCEPT ![r] = [card |-> transit[r].id, role |-> Registry[deck.cards[r].id]]]
    /\ UNCHANGED <<seed, deck, shuffleRecord, transit, unlocked, shares, queries, results, hellos, team, batch,
                   mixRecord>>
-----------------------------------------------------------------------------
RoleOf(s) == IF assigned[s] = None THEN None ELSE assigned[s].role

(* create_role_query, sealed_query_share, accept_query_shares *)
CreateQuery(s, q, target) ==
    /\ RoleOf(s) = "seer" /\ target # s
    /\ queries[q] = None /\ \A k \in 1..(q - 1) : queries[k] # None
    /\ queries' = [queries EXCEPT ![q] = [seat |-> s, target |-> target, status |-> "pending", guardians |-> {}]]
    /\ UNCHANGED <<seed, deck, shuffleRecord, transit, unlocked, shares, assigned, results, hellos, team, batch,
                   mixRecord>>

ShareQuery(s, q) ==
    /\ queries[q] # None /\ s \notin queries[q].guardians
    /\ queries' = [queries EXCEPT ![q].guardians = @ \union {s}]
    /\ UNCHANGED <<seed, deck, shuffleRecord, transit, unlocked, shares, assigned, results, hellos, team, batch,
                   mixRecord>>

AcceptQuery(q) ==
    /\ queries[q] # None /\ queries[q].status = "pending" /\ queries[q].guardians = Seats
    /\ queries' = [queries EXCEPT ![q].status = "verified"]
    /\ results' = results \union {[query |-> q, target |-> queries[q].target,
                                   role |-> Registry[deck.cards[queries[q].target].id]]}
    /\ UNCHANGED <<seed, deck, shuffleRecord, transit, unlocked, shares, assigned, hellos, team, batch, mixRecord>>

(* wolf_hello: a sealed statement of a wolf, or a blob of the same size *)
Hello(s) ==
    /\ assigned[s] # None /\ s \notin hellos
    /\ hellos' = hellos \union {s}
    /\ UNCHANGED <<seed, deck, shuffleRecord, transit, unlocked, shares, assigned, queries, results, team, batch,
                   mixRecord>>

(* accept_wolf_hellos: with one of the two missing it is refused *)
AcceptHellos(s) ==
    /\ RoleOf(s) = "wolf" /\ team[s] = {}
    /\ LET wolves == {h \in hellos : RoleOf(h) = "wolf"} IN
        /\ Cardinality(wolves) = 2
        /\ team' = [team EXCEPT ![s] = wolves]
    /\ UNCHANGED <<seed, deck, shuffleRecord, transit, unlocked, shares, assigned, queries, results, hellos, batch,
                   mixRecord>>

(* mix_batch: a layer is taken off every envelope, the order changes; the   *)
(* batch is taken again only with the same input                            *)
Mixed(envelopes, s) ==
    Permuted([i \in Seats |-> [envelopes[i] EXCEPT !.layers = @ \ {s}]], seed[s])

Mix(s) ==
    /\ batch.stage = s - 1 /\ \A i \in Seats : assigned[i] # None /\ s \in batch.envelopes[i].layers
    /\ LET record == [input |-> batch.envelopes, output |-> Mixed(batch.envelopes, s)] IN
        /\ mixRecord[s] \in {None, record}
        /\ mixRecord' = [mixRecord EXCEPT ![s] = record]
        /\ \/ batch' = [stage |-> s, envelopes |-> record.output]
           \/ UNCHANGED batch                             \* the answer is lost
    /\ UNCHANGED <<seed, deck, shuffleRecord, transit, unlocked, shares, assigned, queries, results, hellos, team>>

Next ==
    \/ \E s \in Seats : Shuffle(s) \/ Deal(s) \/ AcceptRole(s) \/ Hello(s) \/ AcceptHellos(s) \/ Mix(s)
    \/ \E s, r \in Seats : Unlock(s, r) \/ ShareRole(s, r)
    \/ \E q \in 1..MaxQueries, s, r \in Seats : CreateQuery(s, q, r)
    \/ \E q \in 1..MaxQueries : (\E s \in Seats : ShareQuery(s, q)) \/ AcceptQuery(q)

Spec == Init /\ [][Next]_dealing
-----------------------------------------------------------------------------
(* The offline audit of what all seats reveal at the end                    *)

(* _replay_shuffle, from the committed seeds; each record must be the same  *)
ReplayShuffle(s, cards) == Shuffled(cards, s, seed[s])
Replay[s \in 0..N] == IF s = 0 THEN InitialDeck ELSE ReplayShuffle(s, Replay[s - 1])
ShufflesReplay ==
    \A s \in Seats : shuffleRecord[s] = [input |-> Replay[s - 1], output |-> Replay[s]]

(* _decrypt_final_assignment: the last deck, with the locks of the first s  *)
(* seats off; and the assignment each seat claims                           *)
Decrypted[s \in 0..N] ==
    IF s = 0 THEN Replay[N] ELSE [i \in Seats |-> Opened(Decrypted[s - 1][i], s)]
AssignmentsMatch ==
    /\ \A s \in Seats :
        /\ Clear(Decrypted[N][s])
        /\ assigned[s] = [card |-> Replay[N][s].id, role |-> Registry[Replay[N][s].id]]
    /\ \A role \in Roles :
        Cardinality({s \in Seats : assigned[s].role = role}) = Cardinality({i \in Seats : Registry[i] = role})

(* _verify_seer_delivery *)
DeliveriesMatch ==
    \A q \in 1..MaxQueries : queries[q] # None /\ queries[q].status = "verified" =>
        /\ RoleOf(queries[q].seat) = "seer"
        /\ {d \in results : d.query = q}
             = {[query |-> q, target |-> queries[q].target, role |-> RoleOf(queries[q].target)]}

(* _verify_mix_batch *)
ReplayMix[s \in 0..N] ==
    IF s = 0 THEN [i \in Seats |-> [from |-> i, layers |-> Seats]] ELSE Mixed(ReplayMix[s - 1], s)
MixReplays ==
    batch.stage = N =>
        /\ \A s \in Seats : mixRecord[s] = [input |-> ReplayMix[s - 1], output |-> ReplayMix[s]]
        /\ \A i \in Seats : ReplayMix[N][i].layers = {}

ArtifactVerifies == ShufflesReplay /\ AssignmentsMatch /\ DeliveriesMatch /\ MixReplays
-----------------------------------------------------------------------------
(* Every variable keeps its type (the private state of HiddenRolePeer).     *)
TypeOK ==
    /\ deck.stage \in 0..N /\ DOMAIN deck.cards = Seats
    /\ unlocked \in [Seats -> SUBSET Seats] /\ shares \in [Seats -> SUBSET Seats]
    /\ \A s \in Seats : assigned[s] = None \/ (assigned[s].card \in Seats /\ assigned[s].role \in Roles)
    /\ hellos \subseteq Seats /\ team \in [Seats -> SUBSET Seats]
    /\ batch.stage \in 0..N

(* A card on its way is under a lock of its recipient until the recipient   *)
(* itself opens it, whoever has unlocked it before and in whatever order:   *)
(* nobody else can read the credential.                                     *)
CardStaysLocked ==
    \A r, c \in Seats : transit[r] # None => transit[r].locks[c][r] > 0

(* Whatever answers were lost and asked for again, a ceremony in which      *)
(* every seat has its role passes the audit.                                *)
TerminalVerifies == (\A s \in Seats : assigned[s] # None) => ArtifactVerifies
=============================================================================
