------------------------------ MODULE Landlord ------------------------------
(***************************************************************************)
(* The four-seat Landlord of the library (its hooks.py): an auction, the   *)
(* bottom cards for the highest bidder, and tricks of card combinations    *)
(* until a hand is empty.  The authority hands the hooks a copy of the     *)
(* state, so an action that they refuse leaves the table as it is.         *)
(***************************************************************************)
EXTENDS Integers, SharedDeck, FiniteSetsExt

CONSTANTS
    Face,         \* the cards: a sequence of [value, joker]
    Deals,        \* the orders that a shuffle of them may have
    HandSize,
    BidValues,    \* the bids tried, of 0..3
    MaxRounds,    \* bound: deals
    NoPlay

Seats == <<1, 2, 3, 4>>
Seat == 1..4

VARIABLE landlord   \* the state of the hooks

table == landlord

NextPlayer(s) == (s % 4) + 1

(* _new_round *)
NewRound(deal, scores, round) ==
    [phase |-> "bidding", round |-> round, deck |-> Dealt(deal, Seats, HandSize), current |-> 1,
     bids |-> {}, bid |-> 0, bidder |-> 0, landlord |-> 0, last |-> NoPlay, passes |-> 0,
     bombs |-> 0, scores |-> scores]

Init == \E deal \in Deals : landlord = NewRound(deal, [s \in Seat |-> 0], 1)
-----------------------------------------------------------------------------
(* _classify: the kind of a set of cards, with what decides between two of  *)
(* a kind                                                                    *)
Values(cards) == {Face[c].value : c \in cards}
Times(cards, v) == Cardinality({c \in cards : Face[c].value = v})
Of(cards, n) == {v \in Values(cards) : Times(cards, v) = n}
Consecutive(values) == values # {} /\ values = Min(values)..Max(values)
Run(values) == Consecutive(values) /\ Max(values) <= 14

Play(kind, primary, cards, tier) ==
    {[kind |-> kind, primary |-> primary, length |-> Cardinality(cards), tier |-> tier]}
Bombs(cards) ==
    IF Cardinality(cards) >= 2 /\ \A c \in cards : Face[c].joker
    THEN Play("joker_bomb", Max(Values(cards)), cards, 2)
    ELSE IF Cardinality(cards) >= 4 /\ Cardinality(Values(cards)) = 1
    THEN Play("bomb", Max(Values(cards)), cards, 1) ELSE {}
Alike(cards) ==
    LET size == Cardinality(cards) IN
    IF Cardinality(Values(cards)) = 1 /\ size <= 3
    THEN Play(<<"single", "pair", "triple">>[size], Max(Values(cards)), cards, 0) ELSE {}
Straight(cards) ==
    IF ~Run(Values(cards)) THEN {}
    ELSE IF Of(cards, 1) = Values(cards) /\ Cardinality(cards) >= 5 THEN Play("straight", Max(Values(cards)), cards, 0)
    ELSE IF Of(cards, 2) = Values(cards) /\ Cardinality(cards) >= 6 THEN Play("pair_straight", Max(Values(cards)), cards, 0)
    ELSE {}
WithTriples(cards) ==   \* triple_single, triple_pair and the airplanes
    LET body == IF Cardinality(Of(cards, 3)) = 1 THEN Of(cards, 3) ELSE {v \in Of(cards, 3) : v <= 14}
        n == Cardinality(body)
        wings == Values(cards) \ body IN
    IF ~Consecutive(body) \/ Cardinality(wings) \notin {0, n} \/ (n = 1 /\ wings = {}) THEN {}
    ELSE IF wings = {} THEN Play("airplane", Max(body), cards, 0)
    ELSE IF wings \subseteq Of(cards, 1) THEN Play("triples_single", Max(body), cards, 0)
    ELSE IF wings \subseteq Of(cards, 2) THEN Play("triples_pair", Max(body), cards, 0)
    ELSE {}
WithFours(cards) ==
    LET rest == Values(cards) \ Of(cards, 4)
        others == Cardinality(cards) - 4 IN
    IF Cardinality(Of(cards, 4)) # 1 THEN {}
    ELSE IF others = 2 THEN Play("four_two_single", Max(Of(cards, 4)), cards, 0)
    ELSE IF others = 4 /\ Cardinality(rest) = 2 /\ rest = Of(cards, 2)
    THEN Play("four_two_pair", Max(Of(cards, 4)), cards, 0) ELSE {}
Classify(cards) ==
    IF Bombs(cards) # {} THEN Bombs(cards)
    ELSE IF Alike(cards) # {} THEN Alike(cards)
    ELSE IF Straight(cards) # {} THEN Straight(cards)
    ELSE IF WithTriples(cards) # {} THEN WithTriples(cards) ELSE WithFours(cards)

(* _beats *)
Beats(a, b) ==
    IF a.tier # b.tier THEN a.tier > b.tier
    ELSE IF a.tier > 0 /\ a.length # b.length THEN a.length > b.length
    ELSE (a.tier > 0 \/ (a.kind = b.kind /\ a.length = b.length)) /\ a.primary > b.primary
-----------------------------------------------------------------------------
(* _next_unbid: the next who has not bid                                    *)
NextUnbid(bids, s) ==
    LET ahead == {n \in 1..4 : ((s + n - 1) % 4) + 1 \notin bids} IN
    ((s + Min(ahead) - 1) % 4) + 1

(* _handle_bid: three, or the last to bid, ends the auction; when all pass  *)
(* the authority deals again                                                 *)
Bid(value) ==
    /\ table.phase = "bidding"
    /\ LET s == table.current
           bids == table.bids \union {s}   \* who has bid; what, only the highest matters
           told == [table EXCEPT !.bids = bids, !.bid = IF value > @ THEN value ELSE @,
                                 !.bidder = IF value > table.bid THEN s ELSE @]
           done == value = 3 \/ bids = Seat IN
       IF ~done THEN landlord' = [told EXCEPT !.current = NextUnbid(bids, s)]
       ELSE IF told.bidder = 0
       THEN /\ table.round < MaxRounds
            /\ \E deal \in Deals : landlord' = NewRound(deal, table.scores, table.round + 1)
       ELSE landlord' = [told EXCEPT !.phase = "playing", !.landlord = told.bidder, !.current = told.bidder,
                                     !.deck = Draw(@, told.bidder, Len(@.pile))]

(* _handle_play of a pass: when all the others passed the trick is over     *)
Pass ==
    /\ table.phase = "playing" /\ table.last # NoPlay
    /\ landlord' = IF table.passes + 1 >= 3
                   THEN [table EXCEPT !.last = NoPlay, !.passes = 0, !.current = table.last.by]
                   ELSE [table EXCEPT !.passes = @ + 1, !.current = NextPlayer(@)]

(* _score_round *)
MutantDelta(t, winner) ==
    LET base == Max({1, t.bid}) * 2 ^ t.bombs IN
    [s \in Seat |-> IF (s = t.landlord) = (winner = t.landlord)
                    THEN (IF s = t.landlord THEN 3 * base ELSE base) ELSE -base]
Delta(t, winner) ==
    LET base == Max({1, t.bid}) * 2 ^ t.bombs
        sign == IF winner = t.landlord THEN 1 ELSE -1 IN
    [s \in Seat |-> IF s = t.landlord THEN 3 * sign * base ELSE -sign * base]

(* _handle_play of cards *)
Lead(cards) ==
    /\ table.phase = "playing"
    /\ LET s == table.current IN
       /\ cards \subseteq table.deck.hands[s] /\ Cardinality(cards) \in 1..20
       /\ \E play \in Classify(cards) :
            /\ table.last # NoPlay => Beats(play, table.last.play)
            /\ LET played == [table EXCEPT !.deck = Discard(@, s, cards), !.passes = 0,
                                           !.bombs = IF play.tier > 0 THEN @ + 1 ELSE @,
                                           !.last = [by |-> s, play |-> play]]
                   delta == Delta(played, s) IN
               landlord' = IF played.deck.hands[s] = {}
                           THEN [played EXCEPT !.phase = "completed", !.scores = [t \in Seat |-> @[t] + delta[t]]]
                           ELSE [played EXCEPT !.current = NextPlayer(s)]

(* proto_group_recovery_snapshot, and proto_group_restore under a new leader *)
Restore ==
    /\ table.round < MaxRounds
    /\ \E deal \in Deals : landlord' = NewRound(deal, table.scores, table.round + 1)

Next ==
    \/ \E value \in BidValues : Bid(value)
    \/ Pass \/ Restore
    \/ \E cards \in SUBSET table.deck.hands[table.current] : Lead(cards)
Spec == Init /\ [][Next]_landlord
-----------------------------------------------------------------------------
(* The state keeps its shape. *)
TypeOK ==
    /\ table.phase \in {"bidding", "playing", "completed"} /\ table.current \in Seat
    /\ table.scores \in [Seat -> Int] /\ table.round \in 1..MaxRounds /\ table.bids \subseteq Seat

(* Whatever is bid, passed, played and dealt again, no card is lost or     *)
(* doubled, the scores add up to nothing, the turn goes round the table    *)
(* from the last to play, who never answers itself, and nobody is asked    *)
(* to bid twice or to play from an empty hand.                             *)
TableIsSound ==
    /\ Conserved(table.deck, DOMAIN Face)
    /\ MapThenSumSet(LAMBDA s : table.scores[s], Seat) = 0
    /\ table.phase = "bidding" => table.current \notin table.bids
    /\ table.phase = "playing" => \A s \in Seat : table.deck.hands[s] # {}
    /\ table.phase = "playing" /\ table.last # NoPlay =>
         table.current = ((table.last.by + table.passes) % 4) + 1 /\ table.current # table.last.by
=============================================================================
