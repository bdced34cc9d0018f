------------------------------ MODULE HoldEm -------------------------------
(***************************************************************************)
(* The four-seat no-limit Texas Hold'em of the library (its hooks.py, with *)
(* the side pots of proto/poker.py).  The cards only matter in the end: a  *)
(* showdown gives every hand a strength.  A refused action leaves the      *)
(* table as it is, because the authority hands the hooks a copy.           *)
(***************************************************************************)
EXTENDS Naturals, Sequences, FiniteSets, FiniteSetsExt, Functions

CONSTANTS
    Starts,       \* the stacks a match is started or restored with
    SmallBlind, BigBlind,
    MaxHands,
    MaxRestarts,  \* bound: changes of the leader
    Strengths     \* of a hand: numbers

Places == 1..4

VARIABLES
    table,    \* the state of the hooks
    settled   \* how the hand that this step ended was paid

holdem == <<table, settled>>

Smaller(a, b) == IF a < b THEN a ELSE b
After(p) == (p % 4) + 1
From(p) == [i \in Places |-> ((p + i - 2) % 4) + 1]

(* _ordered_eligible: who still has chips and cards, from a place on        *)
MayAct(t, p) == ~t.folded[p] /\ t.stack[p] > 0
Eligible(t, p) == SelectSeq(From(p), LAMBDA q : MayAct(t, q))
InHand(t) == {p \in Places : ~t.folded[p]}

Commit(t, p, amount) ==
    LET chips == Smaller(amount, t.stack[p]) IN
    [t EXCEPT !.stack[p] = @ - chips, !.street[p] = @ + chips, !.put[p] = @ + chips]

(* _new_hand: the button goes to the next who has chips, blinds are posted  *)
Live(stacks, p) == Head(SelectSeq(From(p), LAMBDA q : stacks[q] > 0))
NewHand(stacks, number, seat, restarts) ==
    LET button == Live(stacks, seat)
        small == Live(stacks, After(button))
        big == Live(stacks, After(small))
        dealt == [phase |-> "betting", hand |-> number, restarts |-> restarts, button |-> button,
                  start |-> stacks, stack |-> stacks, folded |-> [p \in Places |-> stacks[p] = 0],
                  street |-> [p \in Places |-> 0], put |-> [p \in Places |-> 0], round |-> 1,
                  bet |-> 0, raise |-> BigBlind, acted |-> {}, pending |-> <<>>]
        posted == Commit(Commit(dealt, small, SmallBlind), big, BigBlind) IN
    [posted EXCEPT !.bet = Max({posted.street[small], posted.street[big]}),
                   !.pending = Eligible(posted, After(big))]

Init == settled = [by |-> "nobody"] /\ \E stacks \in Starts : table = NewHand(stacks, 1, 1, 0)
-----------------------------------------------------------------------------
(* normalize_uncalled_contributions: what nobody else has matched goes back *)
Refund(put) ==
    [p \in Places |-> LET others == Max({put[q] : q \in Places \ {p}}) IN
                      IF put[p] > others THEN put[p] - others ELSE 0]

(* build_side_pots: one pot for every level of what was put in              *)
Levels(put) == {put[p] : p \in Places} \ {0}
Below(put, level) == Max({l \in Levels(put) \union {0} : l < level})
Contributors(put, level) == {p \in Places : put[p] >= level}
Contenders(t, put, level) == Contributors(put, level) \ {p \in Places : t.folded[p]}
PotsHaveWinners(t, put) == \A level \in Levels(put) : Contenders(t, put, level) # {}

(* _showdown: the best of a pot share it, odd chips go round from the       *)
(* button                                                                   *)
Share(t, put, strength, level, p) ==
    LET amount == (level - Below(put, level)) * Cardinality(Contributors(put, level))
        best == Max({strength[q] : q \in Contenders(t, put, level)})
        winners == {q \in Contenders(t, put, level) : strength[q] = best}
        order == SelectSeq(From(After(t.button)), LAMBDA q : q \in winners)
        odd == {order[i] : i \in 1..(amount % Cardinality(winners))} IN
    IF p \notin winners THEN 0
    ELSE amount \div Cardinality(winners) + (IF p \in odd THEN 1 ELSE 0)
MutantPaid(t, strength) ==
    [p \in Places |-> MapThenSumSet(LAMBDA level : Share(t, t.put, strength, level, p), Levels(t.put))]
Paid(t, strength) ==
    LET refund == Refund(t.put)
        put == [p \in Places |-> t.put[p] - refund[p]] IN
    [p \in Places |-> refund[p] + MapThenSumSet(LAMBDA level : Share(t, put, strength, level, p), Levels(put))]

(* _finish_hand: the match is over, or the next hand is dealt               *)
Finish(t, paid) ==
    LET stacks == [p \in Places |-> t.stack[p] + paid[p]] IN
    table' = IF t.hand >= MaxHands \/ Cardinality({p \in Places : stacks[p] > 0}) <= 1
             THEN [t EXCEPT !.phase = "completed", !.stack = stacks, !.pending = <<>>]
             ELSE NewHand(stacks, t.hand + 1, After(t.button), t.restarts)

(* _advance_street; when at most one can still bet the board is run out     *)
NextStreet(t) ==
    LET next == [t EXCEPT !.round = @ + 1, !.bet = 0, !.raise = BigBlind, !.acted = {},
                          !.street = [p \in Places |-> 0]] IN
    [next EXCEPT !.pending = Eligible(next, After(t.button))]
Goes(t) ==
    IF Cardinality(InHand(t)) = 1
    THEN LET w == CHOOSE p \in InHand(t) : TRUE
             paid == [p \in Places |-> IF p = w THEN MapThenSumSet(LAMBDA q : t.put[q], Places) ELSE 0] IN
         Finish(t, paid) /\ settled' = [by |-> "fold"]
    ELSE IF t.pending # <<>> THEN table' = t /\ settled' = [by |-> "nobody"]
    ELSE IF t.round < 4 /\ Cardinality({p \in Places : MayAct(t, p)}) > 1
    THEN table' = NextStreet(t) /\ settled' = [by |-> "nobody"]
    ELSE IF ~PotsHaveWinners(t, [p \in Places |-> t.put[p] - Refund(t.put)[p]])
    THEN settled' = [by |-> "refused"] /\ UNCHANGED table
    ELSE \E strength \in [InHand(t) -> Strengths] :
            /\ Finish(t, Paid(t, strength))
            /\ settled' = [by |-> "showdown", strength |-> strength, put |-> t.put, paid |-> Paid(t, strength)]
-----------------------------------------------------------------------------
(* The turn, and the tail of _handle_bet after each kind of action           *)
Turn(p) == table.phase = "betting" /\ p = Head(table.pending)
ToCall(p) == table.bet - table.street[p]
Waits(t, p) ==
    [t EXCEPT !.acted = @ \union {p}, !.pending = SelectSeq(@, LAMBDA q : q # p /\ MayAct(t, q))]

Fold(p) == Turn(p) /\ Goes(Waits([table EXCEPT !.folded[p] = TRUE], p))
Check(p) == Turn(p) /\ ToCall(p) = 0 /\ Goes(Waits(table, p))
Call(p) == Turn(p) /\ ToCall(p) > 0 /\ Goes(Waits(Commit(table, p, ToCall(p)), p))

(* _raise_to: at least the last full raise, or all the chips; a short one   *)
(* does not let those raise again who have acted                            *)
Minimum == IF table.bet = 0 THEN BigBlind ELSE table.raise
Raised(p, target) ==
    LET size == target - table.bet
        t == [Commit(table, p, target - table.street[p]) EXCEPT !.bet = target] IN
    IF size >= Minimum
    THEN [t EXCEPT !.raise = size, !.acted = {p},
                   !.pending = SelectSeq(Eligible(t, After(p)), LAMBDA q : q # p)]
    ELSE [t EXCEPT !.acted = @ \union {p},
                   !.pending = SelectSeq(Eligible(t, After(p)), LAMBDA q : t.street[q] < target)]
Raise(p) ==
    /\ Turn(p) /\ p \notin table.acted
    /\ \E target \in (table.bet + 1)..(table.street[p] + table.stack[p]) :
        /\ target - table.bet >= Minimum \/ target = table.street[p] + table.stack[p]
        /\ Goes(Raised(p, target))
AllIn(p) ==
    /\ Turn(p) /\ table.street[p] + table.stack[p] <= table.bet
    /\ Goes(Waits(Commit(table, p, table.stack[p]), p))

(* proto_group_restore: the leader changes, the hand is dealt again          *)
Restored(t) == NewHand(t.start, t.hand, t.button, t.restarts + 1)
Restore ==
    /\ table.phase = "betting" /\ table.restarts < MaxRestarts
    /\ table' = Restored(table) /\ settled' = [by |-> "nobody"]

Next == Restore \/ \E p \in Places : Fold(p) \/ Check(p) \/ Call(p) \/ Raise(p) \/ AllIn(p)
Spec == Init /\ [][Next]_holdem
-----------------------------------------------------------------------------
(* Every variable keeps its type, and the one whose turn it is can act.      *)
TypeOK ==
    /\ table.stack \in [Places -> Nat] /\ table.put \in [Places -> Nat]
    /\ settled.by \in {"nobody", "fold", "showdown", "refused"}
    /\ table.phase = "betting" => MayAct(table, Head(table.pending))

(* No chip appears or is lost: over the bets, the payment of the pots, the  *)
(* next hand and a hand that is dealt again.                                *)
Chips(f) == MapThenSumSet(LAMBDA p : f[p], Places)
ChipsConserved ==
    /\ Chips(table.start) \in {Chips(s) : s \in Starts}
    /\ Chips(table.stack) + (IF table.phase = "betting" THEN Chips(table.put) ELSE 0) = Chips(table.start)

(* A street ends only when all who can still bet have put in the same.      *)
StreetsMatched ==
    table.phase = "betting" => \A p, q \in Places : MayAct(table, p) /\ MayAct(table, q) =>
        table.put[p] - table.street[p] = table.put[q] - table.street[q]

(* At a showdown a player gets from each other at most what it has put in   *)
(* itself, and the only best hand gets just that.                           *)
TableStakes ==
    settled.by = "showdown" =>
        \A p \in Places :
            LET stake == MapThenSumSet(LAMBDA q : Smaller(settled.put[p], settled.put[q]), Places) IN
            /\ settled.paid[p] <= stake
            /\ p \in DOMAIN settled.strength
               /\ (\A q \in DOMAIN settled.strength \ {p} : settled.strength[q] < settled.strength[p])
               => settled.paid[p] = stake

(* build_side_pots finds a winner for every pot ("a side pot has no         *)
(* eligible winner" is its error): no bet is refused for want of one.       *)
EveryPotHasAWinner == settled.by # "refused"
=============================================================================
