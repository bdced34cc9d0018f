------------------------------ MODULE Mahjong -------------------------------
(***************************************************************************)
(* The Mahjong table of the library (its hooks.py, with the shapes and the *)
(* patterns of proto/mahjong.py): a discard opens a window in which each   *)
(* of the other three answers in any order, then the best claim is served; *)
(* melds, kongs with their replacement tile, wins, and an empty wall.  An  *)
(* action that the hooks refuse leaves the table as it is.                 *)
(***************************************************************************)
EXTENDS Integers, SharedDeck, FiniteSetsExt, Functions

CONSTANTS
    Face,         \* the tiles: a sequence of [suit, rank], honors have a suit of their own
    Walls,        \* the orders that a shuffle of them may have
    Melds,        \* four: the melds of a standard hand
    Orphans,      \* the terminal and honor faces
    Points,       \* everyone starts with
    MaxHands,
    MaxRestarts   \* bound: changes of the leader

Seats == <<1, 2, 3, 4>>
Seat == 1..4
Nobody == 0
HandSize == 3 * Melds + 1

VARIABLE mahjong   \* the state of the hooks

table == mahjong
NextKey(s) == (s % 4) + 1
After(s) == <<NextKey(s), NextKey(NextKey(s)), NextKey(NextKey(NextKey(s)))>>

(* _new_hand: the dealer has one tile more *)
NewHand(wall, scores, number, dealer, restarts) ==
    [phase |-> "discard", number |-> number, dealer |-> dealer, restarts |-> restarts, current |-> dealer,
     mustDiscard |-> FALSE, river |-> [s \in Seat |-> {}], melds |-> [s \in Seat |-> <<>>],
     tile |-> 0, by |-> Nobody, claims |-> <<>>, scores |-> scores,
     deck |-> Draw(Dealt(wall, Seats, HandSize), dealer, 1)]

Init == \E wall \in Walls : mahjong = NewHand(wall, [s \in Seat |-> Points], 1, 1, 0)
-----------------------------------------------------------------------------
Codes(tiles) == {Face[t] : t \in tiles}
Count(tiles, code) == Cardinality({t \in tiles : Face[t] = code})
Chow(code) == {[suit |-> code.suit, rank |-> code.rank + i] : i \in 0..2}

(* mahjong_win_kind: a pair and the missing melds, or a special hand        *)
Groups(codes) ==
    {[c \in codes |-> IF c = code THEN 3 ELSE 0] : code \in codes}
    \union {[c \in codes |-> IF c \in Chow(code) THEN 1 ELSE 0] :
              code \in {k \in codes : k.suit # "honor" /\ k.rank <= 7 /\ Chow(k) \subseteq codes}}
Standard(tiles, needed) ==
    LET codes == Codes(tiles) IN
    \E pair \in codes : \E groups \in [1..needed -> Groups(codes)] :
        \A c \in codes : Count(tiles, c) =
            (IF c = pair THEN 2 ELSE 0) + FoldFunction(LAMBDA g, n : n + g[c], 0, groups)
WinKind(tiles, melds) ==
    IF Cardinality(tiles) # 3 * (Melds - melds) + 2 THEN "none"
    ELSE IF melds = 0 /\ Codes(tiles) = Orphans THEN "thirteen_orphans"
    ELSE IF melds = 0 /\ \A c \in Codes(tiles) : Count(tiles, c) % 2 = 0 THEN "seven_pairs"
    ELSE IF Standard(tiles, Melds - melds) THEN "standard" ELSE "none"

(* classical_core_patterns: the points of a win *)
Value(t, s, tiles, kind, selfDraw) ==
    LET all == Codes(tiles \union t.deck.laid[s])
        kinds == ToSet(t.melds[s])
        suits == {c.suit : c \in all} \ {"honor"} IN
    1 + (IF selfDraw THEN 1 ELSE 0) + (IF kinds \subseteq {"concealed_kong"} THEN 1 ELSE 0)
      + (IF kind = "seven_pairs" THEN 4 ELSE IF kind = "thirteen_orphans" THEN 13 ELSE 0)
      + (IF kind = "standard" /\ Len(t.melds[s]) = Melds /\ "chow" \notin kinds THEN 3 ELSE 0)
      + (IF Cardinality(suits) # 1 THEN 0 ELSE IF suits = {c.suit : c \in all} THEN 6 ELSE 3)
      + (IF all \cap Orphans = {} THEN 1 ELSE 0)

(* _finish_hand: the match is over, or the next hand is dealt                *)
Finish(t) ==
    IF t.number >= MaxHands THEN mahjong' = [t EXCEPT !.phase = "completed"]
    ELSE \E wall \in Walls : mahjong' = NewHand(wall, t.scores, t.number + 1, NextKey(t.dealer), t.restarts)

(* _win: the others pay, or the discarder pays for all                       *)
MutantWin(t, winner, tiles, payers) ==
    LET points == Value(t, winner, tiles, WinKind(tiles, Len(t.melds[winner])), t.tile = 0) IN
    Finish([t EXCEPT !.scores = [s \in Seat |-> IF s = winner THEN @[s] + 3 * points
                                               ELSE IF s \in payers THEN @[s] - points ELSE @[s]]])
Win(t, winner, tiles, payers) ==
    LET points == Value(t, winner, tiles, WinKind(tiles, Len(t.melds[winner])), t.tile = 0)
        share == points * (3 \div Cardinality(payers)) IN
    Finish([t EXCEPT !.scores = [s \in Seat |-> IF s = winner THEN @[s] + 3 * points
                                               ELSE IF s \in payers THEN @[s] - share ELSE @[s]]])

(* The replacement tile of a kong; an empty wall ends the hand               *)
Replace(t, s) ==
    IF t.deck.pile = <<>> THEN Finish(t)
    ELSE mahjong' = [t EXCEPT !.deck = Draw(@, s, 1), !.mustDiscard = FALSE]
-----------------------------------------------------------------------------
(* _handle_turn *)
DiscardTile(tile) ==
    /\ table.phase = "discard" /\ tile \in table.deck.hands[table.current]
    /\ mahjong' = [table EXCEPT !.deck = Discard(@, table.current, {tile}), !.mustDiscard = FALSE,
                                !.river[table.current] = @ \union {tile}, !.tile = tile, !.by = table.current,
                                !.phase = "claim", !.current = Nobody, !.claims = <<>>]
SelfDraw ==
    /\ table.phase = "discard" /\ ~table.mustDiscard
    /\ LET s == table.current IN
       /\ WinKind(table.deck.hands[s], Len(table.melds[s])) # "none"
       /\ Win(table, s, table.deck.hands[s], Seat \ {s})
ConcealedKong(tiles) ==
    /\ table.phase = "discard" /\ tiles \subseteq table.deck.hands[table.current]
    /\ Cardinality(tiles) = 4 /\ Cardinality(Codes(tiles)) = 1
    /\ LET s == table.current IN
       Replace([table EXCEPT !.deck = Lay(@, s, tiles), !.melds[s] = Append(@, "concealed_kong")], s)

(* _handle_claim: what a claim needs *)
LegalClaim(s, claim) ==
    LET hand == table.deck.hands[s]
        tile == table.tile IN
    CASE claim.kind = "pass_claim" -> claim.tiles = {}
      [] claim.kind = "win" -> claim.tiles = {} /\ WinKind(hand \union {tile}, Len(table.melds[s])) # "none"
      [] claim.kind \in {"pung", "kong"} ->
           /\ claim.tiles \subseteq hand /\ Codes(claim.tiles) = {Face[tile]}
           /\ Cardinality(claim.tiles) = IF claim.kind = "pung" THEN 2 ELSE 3
      [] claim.kind = "chow" ->
           /\ s = NextKey(table.by) /\ claim.tiles \subseteq hand /\ Cardinality(claim.tiles) = 2
           /\ Face[tile].suit # "honor" /\ \E code \in Codes(claim.tiles \union {tile}) :
                Codes(claim.tiles \union {tile}) = Chow(code)
Candidates(s) == {cs \in SUBSET table.deck.hands[s] : Cardinality(cs) \in {0, 2, 3}}

(* _apply_claimed_meld *)
Meld(t, s, claim) ==
    LET laid == [t EXCEPT !.deck = Claim(Lay(@, s, claim.tiles), s, t.tile), !.river[t.by] = @ \ {t.tile},
                          !.melds[s] = Append(@, claim.kind), !.phase = "discard", !.current = s,
                          !.mustDiscard = claim.kind \in {"pung", "chow"}, !.tile = 0, !.by = Nobody,
                          !.claims = <<>>] IN
    IF claim.kind = "kong" THEN Replace(laid, s) ELSE mahjong' = laid

(* _advance_after_unclaimed *)
Unclaimed(t) ==
    LET s == NextKey(t.by)
        next == [t EXCEPT !.tile = 0, !.by = Nobody, !.claims = <<>>] IN
    IF t.deck.pile = <<>> THEN Finish(next)
    ELSE mahjong' = [next EXCEPT !.deck = Draw(@, s, 1), !.phase = "discard", !.current = s, !.mustDiscard = FALSE]

(* _resolve_claims: a win before a pung or kong, that before a chow, and    *)
(* among the same the next after the discarder                              *)
Claimants(t, kinds) == SelectSeq(After(t.by), LAMBDA s : t.claims[s].kind \in kinds)
MutantResolve(t) ==
    LET winners == Claimants(t, {"win"})
        melders == Claimants(t, {"pung", "kong", "chow"}) IN
    IF winners # <<>> THEN Win(t, Head(winners), t.deck.hands[Head(winners)] \union {t.tile}, {t.by})
    ELSE IF melders # <<>> THEN Meld(t, Head(melders), t.claims[Head(melders)])
    ELSE Unclaimed(t)
Resolve(t) ==
    LET winners == Claimants(t, {"win"})
        melders == Claimants(t, {"pung", "kong"}) \o Claimants(t, {"chow"}) IN
    IF winners # <<>> THEN Win(t, Head(winners), t.deck.hands[Head(winners)] \union {t.tile}, {t.by})
    ELSE IF melders # <<>> THEN Meld(t, Head(melders), t.claims[Head(melders)])
    ELSE Unclaimed(t)
Answer(s, claim) ==
    /\ table.phase = "claim" /\ s # table.by /\ s \notin DOMAIN table.claims /\ LegalClaim(s, claim)
    /\ LET t == [table EXCEPT !.claims = [c \in DOMAIN @ \union {s} |-> IF c = s THEN claim ELSE @[c]]] IN
       IF Cardinality(DOMAIN t.claims) < 3 THEN mahjong' = t ELSE Resolve(t)

(* proto_group_restore: the hand is dealt again under a new leader           *)
Restore ==
    /\ table.restarts < MaxRestarts
    /\ \E wall \in Walls :
         mahjong' = NewHand(wall, table.scores, table.number, table.dealer, table.restarts + 1)

ClaimKinds == {"pass_claim", "win", "pung", "kong", "chow"}
Next ==
    \/ SelfDraw \/ Restore
    \/ \E tile \in DOMAIN Face : DiscardTile(tile)
    \/ table.phase = "discard" /\ \E code \in Codes(table.deck.hands[table.current]) :
         ConcealedKong({t \in table.deck.hands[table.current] : Face[t] = code})
    \/ \E s \in Seat : \E kind \in ClaimKinds, tiles \in Candidates(s) : Answer(s, [kind |-> kind, tiles |-> tiles])
Spec == Init /\ [][Next]_mahjong
-----------------------------------------------------------------------------
(* The state keeps its shape. *)
TypeOK ==
    /\ table.phase \in {"discard", "claim", "completed"} /\ table.scores \in [Seat -> Int]
    /\ table.current \in Seat \union {Nobody} /\ table.number \in 1..MaxHands

(* Over discards, claims in any order, kongs, wins and deals: no tile is    *)
(* lost, who has melds holds three tiles less for each and the one to       *)
(* discard one more, the rivers are the discard pile, and the scores keep   *)
(* their sum.                                                               *)
TilesAndPoints ==
    /\ Conserved(table.deck, DOMAIN Face)
    /\ UNION {table.river[s] : s \in Seat} = table.deck.discard
    /\ MapThenSumSet(LAMBDA s : table.scores[s], Seat) = 4 * Points
    /\ table.phase # "completed" => \A s \in Seat :
         Cardinality(table.deck.hands[s]) =
            3 * (Melds - Len(table.melds[s])) + 1 + (IF s = table.current THEN 1 ELSE 0)
    /\ table.phase = "claim" => table.tile \in table.river[table.by] /\ table.by \notin DOMAIN table.claims

Rank(kind) == CASE kind = "pass_claim" -> 0 [] kind = "chow" -> 1 [] kind \in {"pung", "kong"} -> 2 [] kind = "win" -> 3
Served ==
    table.phase = "claim" /\ table'.phase = "discard" /\ table'.number = table.number /\ table'.restarts = table.restarts =>
        /\ Cardinality(DOMAIN table.claims) = 2
        /\ \A s \in DOMAIN table.claims \ {table'.current} :
             Rank(table.claims[s].kind)
               <= IF Len(table'.melds[table'.current]) = Len(table.melds[table'.current]) THEN 0
                  ELSE Rank(Last(table'.melds[table'.current]))

(* Whoever answers first, a claim is served only after all three have       *)
(* answered, and no claim of a higher rank is passed over for a meld.       *)
BestClaimIsServed == [][Served]_mahjong
=============================================================================
