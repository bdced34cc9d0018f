------------------------------ MODULE Tractor -------------------------------
(***************************************************************************)
(* The Upgrade (tractor) table of the library (its hooks.py, with the      *)
(* rules of proto/tractor.py): everyone declares or passes in any order,   *)
(* the declarer takes the bottom and buries a kitty, tricks of singles,    *)
(* pairs, tractors and throws are followed in suit, and the points of the  *)
(* defenders move the levels.  Suits are 1..4, a joker has suit 0 and rank *)
(* 16 or 17, and trump suit 0 is none.                                     *)
(***************************************************************************)
EXTENDS Integers, SharedDeck, FiniteSetsExt

CONSTANTS
    Face,         \* the cards: a sequence of [suit, rank]
    Deals,        \* the orders that a shuffle of them may have
    HandSize,     \* twenty-five
    Kitty,        \* eight
    Start, Target, MaxHands,
    MaxDeals      \* bound: hands and restarts together

Seats == <<1, 2, 3, 4>>
Seat == 1..4
Nobody == 0
Trump == 5

VARIABLE upgrade   \* the state of the hooks

table == upgrade
NextKey(s) == (s % 4) + 1
Team(s) == (s + 1) % 2
Other(team) == 1 - team

(* _new_hand *)
NewHand(deal, levels, team, starter, number, points, restarts) ==
    [phase |-> "declaration", number |-> number, restarts |-> restarts, starter |-> starter, current |-> Nobody,
     declarer |-> Nobody, team |-> team, levels |-> levels, level |-> levels[team], trump |-> 0,
     declared |-> {}, by |-> Nobody, strength |-> 0, shown |-> {}, kitty |-> {}, trick |-> <<>>, leader |-> Nobody,
     captured |-> [t \in {0, 1} |-> 0], match |-> points, deck |-> Dealt(deal, Seats, HandSize)]

Init == \E deal \in Deals :
            upgrade = NewHand(deal, [t \in {0, 1} |-> Start], 0, 1, 1, [t \in {0, 1} |-> 0], 0)
-----------------------------------------------------------------------------
(* effective_suit, tractor_card_strength and _pair_position                 *)
EffectiveSuit(f) == IF f.suit \in {0, table.trump} \/ f.rank = table.level THEN Trump ELSE f.suit
Strength(f) ==
    IF EffectiveSuit(f) # Trump THEN f.rank
    ELSE IF f.suit = 0 THEN 400 + f.rank
    ELSE IF f.rank # table.level THEN 100 + f.rank
    ELSE IF f.suit = table.trump THEN 300 ELSE 200
Position(f) ==
    LET regular == IF table.trump = 0 THEN 0 ELSE 12
        own == IF table.trump = 0 THEN 0 ELSE 1 IN
    IF f.suit = 0 THEN regular + own + f.rank - 15
    ELSE IF f.rank = table.level THEN regular + (IF f.suit = table.trump THEN 1 ELSE 0)
    ELSE f.rank - 2 - (IF f.rank > table.level THEN 1 ELSE 0)

Faces(cards) == {Face[c] : c \in cards}
Twice(cards) == {f \in Faces(cards) : Cardinality({c \in cards : Face[c] = f}) = 2}
Of(cards, suit) == {c \in cards : EffectiveSuit(Face[c]) = suit}
Consecutive(values) == values # {} /\ values = Min(values)..Max(values)
Positions(faces) == {Position(f) : f \in faces}

(* classify_tractor_play, and _safe_shape for cards of several suits        *)
Kind(cards) ==
    IF Cardinality(cards) = 1 THEN "single"
    ELSE IF Cardinality(cards) = 2 /\ Cardinality(Faces(cards)) = 1 THEN "pair"
    ELSE IF /\ Cardinality(cards) >= 4 /\ Twice(cards) = Faces(cards) /\ Consecutive(Positions(Faces(cards)))
            /\ Cardinality(Positions(Faces(cards))) = Cardinality(Faces(cards))
    THEN "tractor" ELSE "throw"
Suits(cards) == {EffectiveSuit(f) : f \in Faces(cards)}
Shape(cards) ==
    IF Cardinality(Suits(cards)) > 1 THEN [kind |-> "mixed", suit |-> 0]
    ELSE [kind |-> Kind(cards), suit |-> CHOOSE s \in Suits(cards) : TRUE]

(* _has_tractor, and validate_tractor_follow: the same number of cards, the *)
(* led suit as far as it goes, then its pairs and tractors                   *)
HasTractor(cards, length) ==   \* a second pair at a place within the run breaks it
    LET pairs(p) == {f \in Twice(cards) : Position(f) = p} IN
    \E low \in Positions(Twice(cards)) :
        /\ low..(low + length - 1) \subseteq Positions(Twice(cards))
        /\ \A p \in (low + 1)..(low + length - 2) : Cardinality(pairs(p)) = 1
MutantFollows(hand, cards, lead) ==   \* a hand short of the suit is not let off
    LET suit == Shape(lead).suit
        led == Of(hand, suit) IN
    /\ Cardinality(cards) = Cardinality(lead)
    /\ Of(cards, suit) = cards \/ led = {}
Follows(hand, cards, lead) ==
    LET suit == Shape(lead).suit
        led == Of(hand, suit) IN
    /\ Cardinality(cards) = Cardinality(lead)
    /\ Cardinality(Of(cards, suit)) = Min({Cardinality(lead), Cardinality(led)})
    /\ Cardinality(led) >= Cardinality(lead) =>
         /\ Cardinality(Twice(cards)) >= Min({Cardinality(Twice(lead)), Cardinality(Twice(led))})
         /\ Kind(lead) = "pair" /\ Twice(led) # {} => Kind(cards) = "pair"
         /\ Kind(lead) = "tractor" /\ HasTractor(led, Cardinality(Faces(lead))) => Kind(cards) = "tractor"

(* winning_tractor_play_index for two plays, and _throw_strength            *)
Height(cards) ==
    IF Kind(cards) = "single" THEN Max({Strength(f) : f \in Faces(cards)}) ELSE Max(Positions(Faces(cards)))
Sorted(cards) == SortSeq(SetToSeq(cards), LAMBDA a, b : Strength(Face[a]) > Strength(Face[b]))
Higher(a, b) ==
    LET x == [i \in DOMAIN Sorted(a) |-> Strength(Face[Sorted(a)[i]])]
        y == [i \in DOMAIN Sorted(b) |-> Strength(Face[Sorted(b)[i]])] IN
    \E i \in DOMAIN x : x[i] > y[i] /\ \A j \in 1..(i - 1) : x[j] = y[j]
Takes(lead, best, cards) ==
    LET suit == Shape(cards).suit
        same == suit = Shape(best).suit IN
    IF Kind(lead) = "throw"
    THEN /\ suit \in {Shape(lead).suit, Trump}
         /\ (suit = Trump /\ ~same) \/ (same /\ Higher(cards, best))
    ELSE /\ Shape(cards).kind = Shape(best).kind /\ suit \in {Shape(best).suit, Trump}
         /\ (suit = Trump /\ ~same) \/ (same /\ Height(cards) > Height(best))

(* _trick_winner *)
Winner(trick) ==
    FoldLeft(LAMBDA best, i : IF Takes(trick[1], trick[best], trick[i]) THEN i ELSE best, 1, <<2, 3, 4>>)

Worth(c) == CASE Face[c].rank = 5 -> 5 [] Face[c].rank \in {10, 13} -> 10 [] OTHER -> 0
Points(cards) == MapThenSumSet(Worth, cards)
-----------------------------------------------------------------------------
(* _declaration_from_cards: what is shown, and how strong it is             *)
Declared(cards) ==
    LET faces == Faces(cards)
        f == CHOOSE f \in faces : TRUE IN
    IF Cardinality(faces) # 1 THEN 0
    ELSE IF f.suit # 0 /\ f.rank = table.level THEN Cardinality(cards)
    ELSE IF f.suit = 0 /\ Cardinality(cards) = 2 THEN f.rank - 13 ELSE 0

(* _handle_declaration and _finish_declaration                              *)
Declares(t) ==
    LET declarer == IF t.by = Nobody THEN t.starter ELSE t.by IN
    upgrade' = IF t.declared # Seat THEN t
               ELSE [t EXCEPT !.phase = "bury", !.declarer = declarer, !.team = Team(declarer),
                              !.current = declarer, !.deck = Draw(@, declarer, Len(@.pile))]
PassDeclare(s) ==
    /\ table.phase = "declaration" /\ s \notin table.declared
    /\ Declares([table EXCEPT !.declared = @ \union {s}])
DeclareTrump(s, cards) ==
    /\ table.phase = "declaration" /\ s \notin table.declared
    /\ cards \subseteq table.deck.hands[s] /\ Cardinality(cards) \in 1..2
    /\ Declared(cards) > table.strength
    /\ Declares([table EXCEPT !.declared = @ \union {s}, !.by = s, !.strength = Declared(cards), !.shown = cards,
                              !.trump = (CHOOSE f \in Faces(cards) : TRUE).suit])

(* _handle_bury: the cards of the declaration stay in the hand              *)
Bury(cards) ==
    /\ table.phase = "bury" /\ cards \subseteq table.deck.hands[table.current]
    /\ Cardinality(cards) = Kitty /\ cards \cap table.shown = {}
    /\ upgrade' = [table EXCEPT !.deck = Lay(@, table.current, cards), !.kitty = cards, !.phase = "playing",
                                !.leader = table.current]

(* _finish_hand: the kitty counts for the defenders that win the last trick *)
Steps(points) ==
    IF points >= 80 THEN 1 + (points - 80) \div 40
    ELSE IF points = 0 THEN 3 ELSE IF points < 40 THEN 2 ELSE 1
FinishHand(t, winner, count) ==
    LET award == IF Team(winner) = t.team THEN 0 ELSE Points(t.kitty) * 2 * count
        captured == [t.captured EXCEPT ![Team(winner)] = @ + award]
        points == captured[Other(t.team)]
        control == IF points >= 80 THEN Other(t.team) ELSE t.team
        levels == [t.levels EXCEPT ![control] = Min({Target, @ + Steps(points)})]
        match == [x \in {0, 1} |-> t.match[x] + captured[x]]
        starter == IF Team(winner) = control THEN winner ELSE Min({s \in Seat : Team(s) = control}) IN
    IF levels[control] >= Target \/ t.number >= MaxHands
    THEN upgrade' = [t EXCEPT !.phase = "completed", !.levels = levels, !.captured = captured, !.match = match]
    ELSE \E deal \in Deals :
            upgrade' = NewHand(deal, levels, control, starter, t.number + 1, match, t.restarts)

(* _handle_play *)
Play(cards) ==
    /\ table.phase = "playing" /\ cards # {} /\ cards \subseteq table.deck.hands[table.current]
    /\ IF table.trick = <<>> THEN Cardinality(Suits(cards)) = 1
       ELSE Follows(table.deck.hands[table.current], cards, table.trick[1])
    /\ LET trick == Append(table.trick, cards)
           t == [table EXCEPT !.deck = Discard(@, table.current, cards), !.trick = trick]
           winner == ((table.leader + Winner(trick) - 2) % 4) + 1
           won == [t EXCEPT !.trick = <<>>, !.leader = winner, !.current = winner,
                            !.captured[Team(winner)] = @ + Points(UNION ToSet(trick))] IN
       IF Len(trick) < 4 THEN upgrade' = [t EXCEPT !.current = NextKey(@)]
       ELSE IF \A s \in Seat : t.deck.hands[s] = {} THEN FinishHand(won, winner, Cardinality(trick[1]))
       ELSE upgrade' = won

(* proto_group_restore: the hand is dealt again under a new leader; the     *)
(* checkpoint has the side of the declarer, which may have changed.  Bound: *)
(* a match that is over is not restored here                                *)
Restore ==
    /\ table.phase # "completed"
    /\ \E deal \in Deals :
         upgrade' = NewHand(deal, table.levels, table.team, table.starter, table.number, table.match,
                            table.restarts + 1)

(* The inputs: the two cards of a face are alike, so the first goes first   *)
Chosen(s) ==
    {cards \in SUBSET table.deck.hands[s] :
        \A c \in cards, d \in table.deck.hands[s] \ cards : Face[c] = Face[d] => c < d}
Next ==
    /\ table.number + table.restarts <= MaxDeals
    /\ \/ Restore
       \/ \E s \in Seat : PassDeclare(s) \/ \E cards \in Chosen(s) : DeclareTrump(s, cards)
       \/ table.current # Nobody /\ \E cards \in Chosen(table.current) : Bury(cards) \/ Play(cards)
Spec == Init /\ [][Next]_upgrade
-----------------------------------------------------------------------------
(* The state keeps its shape. *)
TypeOK ==
    /\ table.phase \in {"declaration", "bury", "playing", "completed"} /\ table.trump \in 0..4
    /\ table.levels \in [{0, 1} -> Start..Target] /\ table.match \in [{0, 1} -> Nat]

(* Whoever has to follow can: the rules for suit, pairs and tractors never  *)
(* leave a hand without a legal play.                                       *)
SomePlayIsLegal ==
    table.phase = "playing" /\ table.trick # <<>> =>
        \E cards \in SUBSET table.deck.hands[table.current] :
            Follows(table.deck.hands[table.current], cards, table.trick[1])

(* No card is lost, the hands are played down together, and the points of   *)
(* the cards are all in the tricks taken, the hands, the trick and the      *)
(* kitty until the hand is over.                                            *)
CardsAndPoints ==
    /\ Conserved(table.deck, DOMAIN Face)
    /\ table.phase = "playing" =>
         /\ MapThenSumSet(Worth, DOMAIN Face) =
              table.captured[0] + table.captured[1] + Points(table.kitty) + Points(UNION ToSet(table.trick))
              + MapThenSumSet(LAMBDA s : Points(table.deck.hands[s]), Seat)
         /\ table.shown \cap table.kitty = {}
         /\ table.trick = <<>> => \A s \in Seat :
              Cardinality(table.deck.hands[s]) = Cardinality(table.deck.hands[table.current])
=============================================================================
