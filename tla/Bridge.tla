------------------------------- MODULE Bridge -------------------------------
(***************************************************************************)
(* The Contract Bridge board of the library (its hooks.py, with the trick  *)
(* rules of proto/card_games.py): the auction, the play in which the       *)
(* declarer also plays the dummy's hand, the duplicate score, and the      *)
(* board dealt again when the leader changes.  An action that the hooks    *)
(* refuse leaves the table as it is: the authority hands them a copy.      *)
(***************************************************************************)
EXTENDS Integers, SharedDeck, FiniteSetsExt

CONSTANTS
    Face,         \* the cards: a sequence of [suit, rank], suits 1..4
    Deals,        \* the orders that a shuffle of them may have
    HandSize,     \* thirteen
    Book,         \* six: the tricks that do not count for a contract
    Bids,         \* the bids tried: [level, denomination], 5 is no trump
    Boards,       \* the board number that a table may start with
    MaxRestarts   \* bound: changes of the leader

Seats == <<1, 2, 3, 4>>
Seat == 1..4
None == 0
NoBid == [level |-> 0, denomination |-> 0]

VARIABLE board   \* the state of the hooks

Team(s) == IF s % 2 = 1 THEN "ns" ELSE "ew"
Other(team) == IF team = "ns" THEN "ew" ELSE "ns"
NextKey(s) == (s % 4) + 1

(* _new_board *)
Vulnerability ==
    <<{}, {"ns"}, {"ew"}, {"ns", "ew"}, {"ns"}, {"ew"}, {"ns", "ew"}, {},
      {"ew"}, {"ns", "ew"}, {}, {"ns"}, {"ns", "ew"}, {}, {"ns"}, {"ew"}>>
NewBoard(deal, number, scores, restarts) ==
    LET dealer == ((number - 1) % 4) + 1 IN
    [phase |-> "auction", number |-> number, restarts |-> restarts, deck |-> Dealt(deal, Seats, HandSize),
     current |-> dealer, owner |-> None, bid |-> NoBid, by |-> None, named |-> {}, doubled |-> 0,
     last |-> "none", passes |-> 0, declarer |-> None, dummy |-> None, trick |-> <<>>, leader |-> None,
     tricks |-> [t \in {"ns", "ew"} |-> 0], scores |-> scores, score |-> 0]

Init == \E deal \in Deals, number \in Boards :
            board = NewBoard(deal, number, [t \in {"ns", "ew"} |-> 0], 0)
-----------------------------------------------------------------------------
(* _bid_value; the auction keeps who first named a denomination for a side  *)
Value(b) == (b.level - 1) * 5 + b.denomination
Named(b) ==
    IF \E n \in board.named : n.team = Team(board.current) /\ n.denomination = b.denomination
    THEN board.named
    ELSE board.named \union {[team |-> Team(board.current), denomination |-> b.denomination, by |-> board.current]}

(* _start_play: the declarer is the first of the side to have named the     *)
(* denomination                                                              *)
MutantStartPlay(b) ==
    LET declarer == b.by
        leader == NextKey(declarer) IN
    [b EXCEPT !.phase = "playing", !.declarer = declarer, !.dummy = NextKey(leader), !.owner = leader,
              !.current = leader, !.leader = leader]
StartPlay(b) ==
    LET first == CHOOSE n \in b.named : n.team = Team(b.by) /\ n.denomination = b.bid.denomination
        leader == NextKey(first.by) IN
    [b EXCEPT !.phase = "playing", !.declarer = first.by, !.dummy = NextKey(leader), !.owner = leader,
              !.current = leader, !.leader = leader]

(* _handle_call: the auction ends with three passes after a bid, or four    *)
Calls(b) ==
    board' = IF b.bid = NoBid /\ b.passes = 4 THEN [b EXCEPT !.phase = "completed"]
             ELSE IF b.bid # NoBid /\ b.passes >= 3 THEN StartPlay(b)
             ELSE [b EXCEPT !.current = NextKey(@)]
CallPass == board.phase = "auction" /\ Calls([board EXCEPT !.passes = @ + 1])
CallBid(b) ==
    /\ board.phase = "auction" /\ Value(b) > Value(board.bid)
    /\ Calls([board EXCEPT !.bid = b, !.by = board.current, !.named = Named(b), !.doubled = 0,
                           !.last = "bid", !.passes = 0])
CallDouble ==
    /\ board.phase = "auction" /\ board.bid # NoBid /\ board.doubled = 0 /\ board.last = "bid"
    /\ Team(board.current) # Team(board.by)
    /\ Calls([board EXCEPT !.doubled = 1, !.last = "double", !.passes = 0])
CallRedouble ==
    /\ board.phase = "auction" /\ board.bid # NoBid /\ board.doubled = 1 /\ board.last = "double"
    /\ Team(board.current) = Team(board.by)
    /\ Calls([board EXCEPT !.doubled = 2, !.last = "redouble", !.passes = 0])
-----------------------------------------------------------------------------
(* _duplicate_score of a contract, for the declaring side                   *)
Score(level, denomination, doubled, delta, vulnerable) ==
    LET under == -delta
        penalty == IF vulnerable THEN 200 + (under - 1) * 300
                   ELSE 100 + Min({under - 1, 2}) * 200 + (IF under >= 4 THEN (under - 3) * 300 ELSE 0)
        each == IF denomination <= 2 THEN 20 ELSE 30
        points == (level * each + (IF denomination = 5 THEN 10 ELSE 0)) * <<1, 2, 4>>[doubled + 1]
        game == IF points < 100 THEN 50 ELSE IF vulnerable THEN 500 ELSE 300
        slam == IF level = 6 THEN (IF vulnerable THEN 750 ELSE 500)
                ELSE IF level = 7 THEN (IF vulnerable THEN 1500 ELSE 1000) ELSE 0
        over == IF doubled = 0 THEN delta * each
                ELSE delta * (IF vulnerable THEN 200 ELSE 100) * doubled IN
    IF delta >= 0 THEN points + game + slam + 50 * doubled + over
    ELSE IF doubled = 0 THEN -under * (IF vulnerable THEN 100 ELSE 50)
    ELSE -penalty * doubled

(* validate_follow_suit and winning_trick_index                              *)
Follows(card) ==
    board.trick # <<>> => LET led == Face[board.trick[1]].suit IN
        Face[card].suit = led \/ \A c \in board.deck.hands[board.owner] : Face[c].suit # led
Strength(trick, card) ==
    (IF Face[card].suit = board.bid.denomination THEN 200 ELSE IF Face[card].suit = Face[trick[1]].suit THEN 100 ELSE 0)
    + Face[card].rank
WinningIndex(trick) ==
    CHOOSE i \in DOMAIN trick : \A j \in DOMAIN trick : Strength(trick, trick[i]) >= Strength(trick, trick[j])

(* _complete_board *)
Completed(b) ==
    LET team == Team(b.declarer)
        score == Score(b.bid.level, b.bid.denomination, b.doubled, b.tricks[team] - b.bid.level - Book,
                       team \in Vulnerability[((b.number - 1) % 16) + 1])
        side == IF score >= 0 THEN team ELSE Other(team) IN
    [b EXCEPT !.phase = "completed", !.score = score, !.scores[side] = @ + (IF score >= 0 THEN score ELSE -score)]

(* _handle_play: the declarer acts for the dummy's hand                      *)
Actor(owner) == IF owner = board.dummy THEN board.declarer ELSE owner
PlayCard(actor, card) ==
    /\ board.phase = "playing" /\ actor = Actor(board.owner)
    /\ card \in board.deck.hands[board.owner] /\ Follows(card)
    /\ LET trick == Append(board.trick, card)
           b == [board EXCEPT !.deck = Discard(@, board.owner, {card}), !.trick = trick]
           winner == ((board.leader + WinningIndex(trick) - 2) % 4) + 1
           won == [b EXCEPT !.trick = <<>>, !.tricks[Team(winner)] = @ + 1, !.leader = winner] IN
       board' = IF Len(trick) < 4
                THEN [b EXCEPT !.owner = NextKey(@), !.current = Actor(NextKey(board.owner))]
                ELSE IF won.tricks["ns"] + won.tricks["ew"] = HandSize THEN Completed(won)
                ELSE [won EXCEPT !.owner = winner, !.current = Actor(winner)]

(* proto_group_restore: the same board is dealt again, the scores are kept   *)
Restore ==
    /\ board.restarts < MaxRestarts
    /\ \E deal \in Deals : board' = NewBoard(deal, board.number, board.scores, board.restarts + 1)

Next ==
    \/ CallPass \/ CallDouble \/ CallRedouble \/ Restore
    \/ \E b \in Bids : CallBid(b)
    \/ \E s \in Seat, card \in DOMAIN Face : PlayCard(s, card)
Spec == Init /\ [][Next]_board
-----------------------------------------------------------------------------
(* The state keeps its shape. *)
TypeOK ==
    /\ board.phase \in {"auction", "playing", "completed"} /\ board.doubled \in 0..2
    /\ board.current \in Seat /\ board.scores \in [{"ns", "ew"} -> Nat] /\ board.passes \in 0..4

(* The contract goes to the side that bid it: the declarer is of that side  *)
(* and was the first of it to name the denomination, the dummy sits across  *)
(* and never acts; the hands are played down evenly, the turn follows the   *)
(* trick, and no card is lost.                                              *)
BoardIsSound ==
    /\ Conserved(board.deck, DOMAIN Face)
    /\ board.phase = "playing" =>
         /\ Team(board.declarer) = Team(board.by) /\ Team(board.dummy) = Team(board.declarer)
         /\ board.current # board.dummy
         /\ \A n \in board.named :
              n.team = Team(board.by) /\ n.denomination = board.bid.denomination => n.by = board.declarer
         /\ board.owner = ((board.leader + Len(board.trick) - 1) % 4) + 1
         /\ \A s \in Seat : Cardinality(board.deck.hands[s]) + board.tricks["ns"] + board.tricks["ew"]
                + (IF \E i \in DOMAIN board.trick : s = ((board.leader + i - 2) % 4) + 1 THEN 1 ELSE 0) = HandSize

(* More tricks never score less, and a contract that is made never scores   *)
(* less than one that is not, doubled or not.                               *)
ScoreFollowsTricks ==
    \A level \in 1..7, denomination \in 1..5, doubled \in 0..2, vulnerable \in BOOLEAN :
        \A delta \in (1 - level - 6)..(7 - level) :
            /\ Score(level, denomination, doubled, delta - 1, vulnerable)
                 < Score(level, denomination, doubled, delta, vulnerable)
            /\ (delta >= 0) = (Score(level, denomination, doubled, delta, vulnerable) > 0)
            /\ doubled > 0 /\ delta < 0 => Score(level, denomination, doubled, delta, vulnerable)
                 < Score(level, denomination, doubled - 1, delta, vulnerable)
=============================================================================
