------------------------------- MODULE MCTables -------------------------------
(* The games whose hooks hold a table or a board, which share no state, and  *)
(* the frames in which a group's Leader sends what its hooks return: a       *)
(* behaviour runs one of them (part).  The decks are cut down to the cards   *)
(* that bring up the cases the rules tell apart.                             *)
EXTENDS HoldEm

CONSTANTS NoPlay, Nothing

VARIABLES part, landlord, contract, mahjong, upgrade, game, board, message, verdict,
    leading, envelopes, replica, breaks

StartsDef == {<<2, 2, 2, 2>>, <<1, 4, 2, 1>>}

Value(n) == [value |-> n, joker |-> n > 15]
LandlordFace == <<Value(3), Value(3), Value(3), Value(3), Value(4), Value(4), Value(5), Value(14), Value(16), Value(17)>>
House == INSTANCE Landlord WITH Face <- LandlordFace, Deals <- {<<1, 2, 8, 10, 6, 4, 7, 9, 5, 3>>},
    HandSize <- 2, BidValues <- {0, 3}, MaxRounds <- 2

Card(s, r) == [suit |-> s, rank |-> r]
BridgeFace == <<Card(1, 2), Card(1, 3), Card(2, 2), Card(2, 3), Card(3, 2), Card(3, 3), Card(4, 2), Card(4, 3)>>
Contract == INSTANCE Bridge WITH Face <- BridgeFace, Deals <- {<<1, 3, 5, 6, 8, 4, 2, 7>>}, HandSize <- 2,
    Book <- 0, Bids <- {[level |-> 1, denomination |-> 4], [level |-> 2, denomination |-> 4]}, Boards <- {4},
    board <- contract

(* More tricks never score less, at any vulnerability and doubled or not.    *)
ASSUME BridgeScores == Contract!ScoreFollowsTricks

M(r) == [suit |-> "m", rank |-> r]
H(r) == [suit |-> "honor", rank |-> r]
MahjongFace ==
    <<M(2), M(2), M(2), M(3), M(3), M(3), M(4), M(4), M(4), M(5), M(5), M(5), H(1), H(1), H(1), H(1), H(2), H(2)>>
Wall == <<16, 17, 4, 13, 9, 1, 7, 14, 5, 2, 10, 15, 6, 8, 12, 3, 18, 11>>
Tiles == INSTANCE Mahjong WITH Face <- MahjongFace, Walls <- {Wall}, Melds <- 1,
    Orphans <- {M(1), M(9), H(1), H(2)}, MaxHands <- 1, Points <- 10

TractorFace ==
    <<Card(1, 3), Card(1, 3), Card(1, 4), Card(1, 4), Card(1, 5), Card(1, 5), Card(1, 6), Card(1, 6), Card(2, 9),
      Card(2, 9), Card(1, 2), Card(4, 7), Card(0, 16), Card(0, 16), Card(3, 13), Card(3, 13), Card(3, 12)>>
Upgrading == INSTANCE Tractor WITH Face <- TractorFace,
    Deals <- {<<17, 11, 9, 5, 1, 12, 13, 6, 2, 15, 10, 7, 3, 16, 14, 8, 4>>}, HandSize <- 4, Kitty <- 1,
    Start <- 2, Target <- 4, MaxHands <- 2, MaxDeals <- 2

Height == [gomoku |-> 3, connect4 |-> 3, reversi |-> 4]
Width == [gomoku |-> 3, connect4 |-> 4, reversi |-> 3]
Stones == INSTANCE BoardGames WITH Games <- DOMAIN Height, Rows <- Height, Cols <- Width, Line <- 3

Json == INSTANCE JsonDelta WITH MaxOps <- 2, MaxDepth <- 3
Grown   == Json!Obj([log |-> Json!List(<<Json!Num(1), Json!Num(2)>>), turn |-> Json!Num(0)])
Shifted == Json!Obj([log |-> Json!List(<<Json!Num(2), Json!Num(3)>>), turn |-> Json!Num(1)])
Final   == Json!Obj([log |-> Json!List(<<Json!Num(2), Json!Num(1), Json!Num(2)>>), over |-> Json!Bool(1)])
Frames == INSTANCE GroupFrames WITH
    Members <- {"h", "m"}, Founders <- {"h"}, First <- "h", Refuses <- FALSE, Nobody <- Nothing,
    States <- {Grown, Shifted, Final}, Ending <- {Final}, CheckpointEvery <- 3, MaxHistory <- 2, MaxOps <- 2,
    MaxDepth <- 3, MaxSeq <- 4, MaxEpoch <- 2, MaxFaults <- 2, MaxBehind <- 1,
    authority <- leading, channel <- envelopes, faults <- breaks

stones == <<game, board, message, verdict>>
frames == <<leading, envelopes, replica, breaks>>

MCInit ==
    /\ part \in {"holdem", "landlord", "bridge", "mahjong", "tractor", "stones", "frames"}
    /\ part = "stones" \/ game = "gomoku"
    /\ Init /\ House!Init /\ Contract!Init /\ Tiles!Init /\ Upgrading!Init /\ Stones!Init /\ Frames!Init
    /\ part = "frames" \/ leading.state = Grown
    /\ part = "holdem" \/ table.start = <<2, 2, 2, 2>>
MCNext ==
    /\ UNCHANGED part
    /\ \/ part = "holdem" /\ Next /\ UNCHANGED <<landlord, contract, mahjong, upgrade, stones, frames>>
       \/ part = "landlord" /\ House!Next /\ UNCHANGED <<holdem, contract, mahjong, upgrade, stones, frames>>
       \/ part = "bridge" /\ Contract!Next /\ UNCHANGED <<holdem, landlord, mahjong, upgrade, stones, frames>>
       \/ part = "mahjong" /\ Tiles!Next /\ UNCHANGED <<holdem, landlord, contract, upgrade, stones, frames>>
       \/ part = "tractor" /\ Upgrading!Next /\ UNCHANGED <<holdem, landlord, contract, mahjong, stones, frames>>
       \/ part = "stones" /\ Stones!Next /\ UNCHANGED <<holdem, landlord, contract, mahjong, upgrade, frames>>
       \/ part = "frames" /\ Frames!Next /\ UNCHANGED <<holdem, landlord, contract, mahjong, upgrade, stones>>
MCSpec == MCInit /\ [][MCNext]_<<part, holdem, landlord, contract, mahjong, upgrade, stones, frames>>

(* The table of Hold'em: types, chips, streets and pots.                     *)
ChipsAndPots == part = "holdem" => TypeOK /\ ChipsConserved /\ StreetsMatched /\ TableStakes
(* The trick-taking and shedding tables: types, cards, turns, scores.        *)
TricksAreSound ==
    /\ part = "landlord" => House!TypeOK /\ House!TableIsSound
    /\ part = "bridge" => Contract!TypeOK /\ Contract!BoardIsSound
(* The table of Mahjong: types, tiles and points.                            *)
TilesAndPoints == part = "mahjong" => Tiles!TypeOK /\ Tiles!TilesAndPoints
(* Of the claims for a discard the best is served, once all have answered.   *)
BestClaimIsServed == Tiles!BestClaimIsServed
(* The table of Tractor: types, cards and points, a legal play for everyone. *)
FollowingIsPossible ==
    part = "tractor" => Upgrading!TypeOK /\ Upgrading!CardsAndPoints /\ Upgrading!SomePlayIsLegal
(* The boards of Gomoku, Connect Four and Reversi.                           *)
OneGame == part = "stones" => Stones!TypeOK /\ Stones!OneGame
(* The frames: types, what is turned down, what counts as replicated.        *)
FramesHold == part = "frames" => Frames!TypeOK /\ Frames!OnlyGapsAreRefused /\ Frames!ReplicatedIsHeld
=============================================================================
