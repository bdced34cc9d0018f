----------------------------- MODULE SharedDeck -----------------------------
(***************************************************************************)
(* The deck that the group games share (proto/shared_deck.py): a draw pile *)
(* drawn from its end, a private hand for every seat, the discard pile and *)
(* the cards laid before an owner.  A card is the index of its face.  Each *)
(* operation of the code validates the result; here Conserved says so.     *)
(***************************************************************************)
EXTENDS Naturals, Sequences, FiniteSets, SequencesExt

(* create_shared_deck: the shuffled cards are dealt one at a time, from the *)
(* end of the pile                                                          *)
Dealt(shuffled, seats, size) ==
    LET last == Len(shuffled)
        served == Len(seats) * size IN
    [pile |-> SubSeq(shuffled, 1, last - served),
     hands |-> [s \in ToSet(seats) |->
                  {shuffled[last - i] : i \in {j \in 0..(served - 1) : seats[(j % Len(seats)) + 1] = s}}],
     discard |-> {}, laid |-> [s \in ToSet(seats) |-> {}]]

(* draw_cards, take_from_hand followed by discard_cards                     *)
Draw(deck, s, n) ==
    [deck EXCEPT !.pile = SubSeq(@, 1, Len(@) - n),
                 !.hands[s] = @ \union ToSet(SubSeq(deck.pile, Len(deck.pile) - n + 1, Len(deck.pile)))]
Discard(deck, s, cards) ==
    [deck EXCEPT !.hands[s] = @ \ cards, !.discard = @ \union cards]

(* move_hand_to_zone, move_discard_to_zone                                  *)
Lay(deck, s, cards) ==
    [deck EXCEPT !.hands[s] = @ \ cards, !.laid[s] = @ \union cards]
Claim(deck, s, card) ==
    [deck EXCEPT !.discard = @ \ {card}, !.laid[s] = @ \union {card}]

(* validate_conservation: every card is in one place, and none is missing   *)
Conserved(deck, cards) ==
    /\ IsInjective(deck.pile)
    /\ \A c \in cards :
         Cardinality({s \in DOMAIN deck.hands : c \in deck.hands[s]})
         + Cardinality({s \in DOMAIN deck.laid : c \in deck.laid[s]})
         + Cardinality({c} \cap deck.discard) + Cardinality({c} \cap ToSet(deck.pile)) = 1
=============================================================================
