----------------------------- MODULE BallotBox -----------------------------
(***************************************************************************)
(* What the witnesses, the guardians and the verifiers of a ceremony       *)
(* promise together: one ballot box.  A ballot that gets a receipt uses    *)
(* its nullifier up, the box is sealed once over ballots that have a       *)
(* receipt, and what is opened is the tally of the sealed box.             *)
(***************************************************************************)
EXTENDS Naturals, FiniteSets

CONSTANTS Ballots,   \* [id, nullifier, choice]
          Options,   \* what a ballot can choose
          NoBox      \* stands for a box that is not sealed, or not opened

VARIABLES minimum,   \* the anonymity set below which the box stays shut
          receipted, \* the ballots that have a receipt
          sealed,    \* the ballots of the sealed box
          opened     \* the tally that was opened, and the outcome

box == <<minimum, receipted, sealed, opened>>

Votes(S, o) == Cardinality({b \in S : b.choice = o})

(* what the box says: the votes of each option, and the options that have   *)
(* more votes than every other (one, or none when there is a tie)           *)
Result(S) ==
    [tally |-> [o \in Options |-> Votes(S, o)],
     outcome |-> {o \in Options : \A p \in Options \ {o} : Votes(S, p) < Votes(S, o)}]

Init == minimum \in Nat /\ receipted = {} /\ sealed = NoBox /\ opened = NoBox

Receipt(b) ==
    /\ \A c \in receipted : c.nullifier # b.nullifier
    /\ receipted' = receipted \union {b}
    /\ UNCHANGED <<minimum, sealed, opened>>

Seal(S) ==
    /\ sealed = NoBox
    /\ S \subseteq receipted
    /\ sealed' = S
    /\ UNCHANGED <<minimum, receipted, opened>>

Open ==
    /\ sealed # NoBox /\ opened = NoBox
    /\ Cardinality(sealed) >= minimum
    /\ opened' = Result(sealed)
    /\ UNCHANGED <<minimum, receipted, sealed>>

Next ==
    \/ \E b \in Ballots : Receipt(b)
    \/ \E S \in SUBSET Ballots : Seal(S)
    \/ Open

Spec == Init /\ [][Next]_box
=============================================================================
