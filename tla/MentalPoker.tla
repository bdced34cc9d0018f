---------------------------- MODULE MentalPoker ----------------------------
(***************************************************************************)
(* A card game between two who deal to each other (proto/mp_engine.py with *)
(* proto/mental_poker.py and engine/ot.py), played with the rules of Crazy *)
(* Eights.  Host's keys lie under the labels id-A, guest's under id-B; a   *)
(* receiver takes one key of the other by oblivious transfer, so each      *)
(* keeps its own ledger of who has which id-B, and a transcript.  After    *)
(* the game keys and choices are opened, each audits, and each signs the   *)
(* hash of its transcript.                                                 *)
(***************************************************************************)
EXTENDS Naturals, Sequences, FiniteSets, Functions, FiniteSetsExt

CONSTANTS
    Face,        \* the universe: id-A -> [rank, suit]
    Wild,        \* the rank that always plays and calls a suit
    Shuffles,    \* the guest's shuffles: id-B -> id-A
    Dealt,       \* the deal plan: who takes the cards 1, 2, ...
    FaultKinds,  \* the faults the tests inject (_fault)
    None

Sides == {"host", "guest"}
Other(s) == IF s = "host" THEN "guest" ELSE "host"
Cards == DOMAIN Face
Suits == {Face[a].suit : a \in Cards}
Faults == [side : Sides, kind : FaultKinds, label : {1, 2}] \union {None}

VARIABLES
    pi,       \* the guest's shuffle
    fault,    \* the injected fault
    wire,     \* per side: messages on their way to it
    open,     \* per side: its end of the channel
    broken,   \* the channel was lost
    side      \* per side: its _MpSession and the locals of its driver

poker == <<pi, fault, wire, open, broken, side>>

Has(s, kind) == fault # None /\ fault.side = s /\ fault.kind = kind
(* the labels of a side's sealed table that do not open                     *)
Poisoned(s) == IF Has(s, "corrupt_sealed_payload") THEN {fault.label} ELSE {}
Forged(s) == IF Has(s, "forge_token") THEN {fault.label} ELSE {}

Session ==
    [pc |-> "hello", dealt |-> 0, taking |-> None,
     deck |-> [host |-> {}, guest |-> {}, stock |-> {}, played |-> {}],
     top |-> None, turn |-> 0, passes |-> 0, winner |-> None,
     ots |-> 0, witnesses |-> {}, snapshot |-> {}, log |-> <<>>, opening |-> None, passed |-> FALSE]

Init ==
    /\ pi \in Shuffles /\ fault \in Faults
    /\ wire = [s \in Sides |-> <<>>] /\ open = [s \in Sides |-> TRUE] /\ broken = FALSE
    /\ side = [s \in Sides |-> Session]
-----------------------------------------------------------------------------
(* DeckState                                                                *)
DealTo(deck, who, b) == [deck EXCEPT !.stock = @ \ {b}, ![who] = @ \union {b}]
Laid(deck, who, b) == [deck EXCEPT ![who] = @ \ {b}, !.played = @ \union {b}]
NextStock(deck) == Min(deck.stock)

(* the hooks: what may be laid, and who has won                             *)
CanPlay(card, top) ==
    \/ top = None \/ card.rank = Wild
    \/ card.rank = top.rank \/ card.suit = top.suit
TopAfter(card, call) == IF card.rank = Wild THEN [rank |-> Wild, suit |-> call] ELSE card
CheckWinner(deck, stalled) ==
    LET h == Cardinality(deck.host)  g == Cardinality(deck.guest) IN
    IF h = 0 THEN "host" ELSE IF g = 0 THEN "guest"
    ELSE IF ~stalled \/ h = g THEN None ELSE IF h < g THEN "host" ELSE "guest"

Goes(s, m, record) ==
    /\ wire' = [wire EXCEPT ![Other(s)] = IF open[Other(s)] /\ ~broken THEN Append(@, m) ELSE @]
    /\ side' = [side EXCEPT ![s] = record]
    /\ UNCHANGED <<pi, fault, open, broken>>
Keeps(s, record) ==
    /\ side' = [side EXCEPT ![s] = record]
    /\ UNCHANGED <<pi, fault, wire, open, broken>>

(* what a side gets: the first message, which it takes off the wire          *)
Gets(s, pc, kind) == side[s].pc = pc /\ wire[s] # <<>> /\ Head(wire[s]).kind = kind
Answers(s, messages, record) ==
    /\ wire' = [wire EXCEPT ![s] = Tail(@),
                            ![Other(s)] = IF open[Other(s)] /\ ~broken THEN @ \o messages ELSE @]
    /\ side' = [side EXCEPT ![s] = record]
    /\ UNCHANGED <<pi, fault, open, broken>>
(* an exception leaves the driver, which also ends with its verdict         *)
Ends(s, pc, passed, messages) ==
    /\ wire' = [wire EXCEPT ![s] = <<>>,
                            ![Other(s)] = IF open[Other(s)] /\ ~broken THEN @ \o messages ELSE @]
    /\ open' = [open EXCEPT ![s] = FALSE]
    /\ side' = [side EXCEPT ![s].pc = pc, ![s].passed = passed]
    /\ UNCHANGED <<pi, fault, broken>>

(* the play loop after an action: stalled, won, nothing left, or go on       *)
TurnOver(record) ==
    LET w == CheckWinner(record.deck, record.passes >= 2) IN
    IF w # None \/ record.passes >= 2 \/ (record.deck.host = {} /\ record.deck.guest = {})
    THEN [record EXCEPT !.winner = w, !.pc = "opening"]
    ELSE [record EXCEPT !.turn = @ + 1, !.pc = "play"]
Actor(s) == IF side[s].turn % 2 = 0 THEN "host" ELSE "guest"
-----------------------------------------------------------------------------
(* Handshake and setup: join, ready, the inner layer, the outer layer       *)
Planned(record) == [record EXCEPT !.pc = IF Len(Dealt) = 0 THEN "play" ELSE "deal", !.deck.stock = Cards]
Join ==
    /\ side["guest"].pc = "hello"
    /\ Goes("guest", [kind |-> "join"], [side["guest"] EXCEPT !.pc = "joined"])
SetupHost ==
    /\ Gets("host", "hello", "join")
    /\ Answers("host", <<[kind |-> "mp_setup_a", poisoned |-> Poisoned("host")]>>,
               [side["host"] EXCEPT !.pc = "setup", !.log = Append(@, <<"mp_setup_a", Poisoned("host")>>)])
SetupGuest ==
    /\ Gets("guest", "joined", "mp_setup_a")
    /\ LET m == Head(wire["guest"]) IN
       Answers("guest", <<[kind |-> "mp_setup_b", poisoned |-> Poisoned("guest")]>>,
               Planned([side["guest"] EXCEPT
                   !.log = @ \o <<<<"mp_setup_a", m.poisoned>>, <<"mp_setup_b", Poisoned("guest")>>>>]))
ApplySetupB ==
    /\ Gets("host", "setup", "mp_setup_b")
    /\ Answers("host", <<>>,
               Planned([side["host"] EXCEPT !.log = Append(@, <<"mp_setup_b", Head(wire["host"]).poisoned>>)]))

(* Oblivious transfer.  z hides the label from the one who answers           *)
LabelFor(s, b) == IF s = "guest" THEN pi[b] ELSE b
Request(s, b) ==
    LET id == <<s, side[s].ots>> IN
    Goes(s, [kind |-> "mp_ot_request", id |-> id, z |-> LabelFor(s, b)],
         [side[s] EXCEPT !.pc = "taking", !.ots = @ + 1, !.snapshot = @ \union {<<id, b>>},
                         !.taking = [card |-> b, id |-> id, phase |-> side[s].pc]])
RequestDealt(s) ==
    LET n == side[s].dealt + 1 IN
    /\ side[s].pc = "deal" /\ Dealt[n] = s
    /\ Request(s, n)

(* both ledgers move the card and both transcripts get the transfer          *)
Transferred(record, who, b, id, z, phase) ==
    LET moved == [record EXCEPT
            !.deck = DealTo(@, who, b),
            !.log = @ \o (<<<<"mp_ot", id, z>>>> \o IF phase = "play" THEN <<<<"mp_draw", who, id>>>> ELSE <<>>)] IN
    IF phase = "play" THEN TurnOver([moved EXCEPT !.passes = 0])
    ELSE [moved EXCEPT !.dealt = @ + 1, !.pc = IF record.dealt + 1 = Len(Dealt) THEN "play" ELSE "deal"]

Respond(s) ==
    \E phase \in {"deal", "play"} :
        /\ Gets(s, phase, "mp_ot_request")
        /\ IF phase = "deal" THEN Dealt[side[s].dealt + 1] # s ELSE Actor(s) # s
        /\ LET m == Head(wire[s])
               b == IF phase = "deal" THEN side[s].dealt + 1 ELSE NextStock(side[s].deck)
               dropped == Has(s, "drop_ot_response") /\ m.id = <<Other(s), fault.label - 1>> IN
           Answers(s, IF dropped THEN <<>> ELSE <<[kind |-> "mp_ot_response", id |-> m.id, y |-> m.z]>>,
                   Transferred([side[s] EXCEPT !.snapshot = @ \union {<<m.id, b>>}],
                               Other(s), b, m.id, m.z, phase))

(* recover: the token opens the sealed key, unless the entry is poisoned     *)
Recover(s) ==
    /\ Gets(s, "taking", "mp_ot_response")
    /\ LET m == Head(wire[s])  t == side[s].taking IN
       IF m.y \in Poisoned(Other(s)) THEN Ends(s, "failed", FALSE, <<>>)
       ELSE Answers(s, <<>>,
                Transferred([side[s] EXCEPT !.taking = None,
                                            !.witnesses = @ \union {[id |-> t.id, label |-> m.y]}],
                            s, t.card, t.id, m.y, t.phase))
-----------------------------------------------------------------------------
(* The play loop: host acts on even turns                                   *)
Playable(s) == {b \in side[s].deck[s] : CanPlay(Face[pi[b]], side[s].top)}
Calls(b) == IF Face[pi[b]].rank = Wild THEN Suits ELSE {None}
MayAct(s) == side[s].pc = "play" /\ Actor(s) = s

Lays(record, who, b, call) ==
    TurnOver([record EXCEPT !.deck = Laid(@, who, b), !.top = TopAfter(Face[pi[b]], call), !.passes = 0,
                            !.log = Append(@, <<"mp_play", who, b, call>>)])
Play(s) ==
    /\ MayAct(s)
    /\ \E b \in Playable(s) : \E call \in Calls(b) :
        Goes(s, [kind |-> "mp_play", card |-> b, call |-> call], Lays(side[s], s, b, call))
Draw(s) ==
    /\ MayAct(s) /\ Playable(s) = {} /\ side[s].deck.stock # {}
    /\ Request(s, NextStock(side[s].deck))
Passes(record, who) ==
    TurnOver([record EXCEPT !.passes = @ + 1, !.log = Append(@, <<"mp_pass", who>>)])
Pass(s) ==
    /\ MayAct(s) /\ Playable(s) = {} /\ side[s].deck.stock = {}
    /\ Goes(s, [kind |-> "mp_pass"], Passes(side[s], s))

(* the peer's card is in its hand by our ledger, and the rules allow it      *)
Verifies(s, m) ==
    /\ m.card \in side[s].deck[Other(s)] /\ m.card \notin side[s].deck.played
    /\ CanPlay(Face[pi[m.card]], side[s].top)
    /\ (m.call # None) <=> (Face[pi[m.card]].rank = Wild)
(* as verify_peer_play, and the count of passes is not reset                 *)
MutantPeerLays(record, who, b, call) ==
    TurnOver([record EXCEPT !.deck = Laid(@, who, b), !.top = TopAfter(Face[pi[b]], call),
                            !.log = Append(@, <<"mp_play", who, b, call>>)])
PeerLays(record, who, b, call) == Lays(record, who, b, call)
ReceivePlay(s) ==
    /\ Gets(s, "play", "mp_play") /\ Actor(s) # s
    /\ LET m == Head(wire[s]) IN
       IF Verifies(s, m) THEN Answers(s, <<>>, PeerLays(side[s], Other(s), m.card, m.call))
       ELSE Ends(s, "failed", FALSE, <<[kind |-> "error"]>>)
ReceivePass(s) ==
    /\ Gets(s, "play", "mp_pass") /\ Actor(s) # s
    /\ Answers(s, <<>>, Passes(side[s], Other(s)))
-----------------------------------------------------------------------------
(* _mp_finalize: openings, witnesses, audit, receipts                       *)
SendOpening(s) ==
    /\ side[s].pc = "opening"
    /\ LET record == [side[s] EXCEPT !.pc = "opened"] IN
       IF Has(s, "skip_opening") THEN Keeps(s, record)
       ELSE Goes(s, [kind |-> "mp_opening", forged |-> Forged(s)], record)

Disclosed(s) ==
    IF Has(s, "skip_witness") THEN {}
    ELSE side[s].witnesses \union
         IF Has(s, "bogus_witness") THEN {[id |-> <<s, 999>>, label |-> 1]} ELSE {}

(* without an opening of its own there is nothing to record: it raises       *)
ReceiveOpening(s) ==
    /\ Gets(s, "opened", "mp_opening")
    /\ IF Has(s, "skip_opening") THEN Ends(s, "failed", FALSE, <<>>)
       ELSE LET forged == [t \in Sides |-> IF t = s THEN Forged(s) ELSE Head(wire[s]).forged] IN
            Answers(s, <<[kind |-> "mp_witness", witnesses |-> Disclosed(s)]>>,
                    [side[s] EXCEPT !.pc = "disclosed", !.opening = forged,
                                    !.log = @ \o <<<<"mp_opening", "host", forged["host"]>>,
                                                   <<"mp_opening", "guest", forged["guest"]>>>>])

(* an exact match of witnesses and transfers, each for the card of its       *)
(* transfer                                                                  *)
Transfers(s) == {<<e[2], e[3]>> : e \in {x \in Range(side[s].log) : x[1] = "mp_ot"}}
WitnessesMatch(s, all) ==
    /\ {w.id : w \in all} = {t[1] : t \in Transfers(s)}
    /\ \A w \in all : \E t \in side[s].snapshot :
        t[1] = w.id /\ <<w.id, w.label>> \in Transfers(s) /\ w.label = LabelFor(w.id[1], t[2])

(* the sealed tables open with true tokens; every card is there once         *)
MutantTablesOpen(s) == \A t \in Sides : side[s].opening[t] = {}   \* the payloads are not opened
TablesOpen(s) == \A t \in Sides : side[s].opening[t] = {} /\ Poisoned(t) = {}
DeckIsFull == {Face[pi[b]] : b \in Cards} = {Face[a] : a \in Cards} /\ IsInjective(pi)
Audit(s, all) == DeckIsFull /\ TablesOpen(s) /\ WitnessesMatch(s, all)

ReceiveWitness(s) ==
    /\ Gets(s, "disclosed", "mp_witness")
    /\ LET all == side[s].witnesses \union Head(wire[s]).witnesses
           of(who) == {w \in all : w.id[1] = who}
           log == side[s].log \o <<<<"mp_witness", of("host")>>, <<"mp_witness", of("guest")>>>> IN
       IF Audit(s, all)
       THEN Answers(s, <<[kind |-> "mp_terminal_receipt", hash |-> log]>>,
                    [side[s] EXCEPT !.pc = "signed", !.log = log])
       ELSE Ends(s, "done", FALSE, <<>>)
ReceiveReceipt(s) ==
    /\ Gets(s, "signed", "mp_terminal_receipt")
    /\ Ends(s, "done", Head(wire[s]).hash = side[s].log, <<>>)

(* a message of another kind is refused, or raises; a closed channel raises  *)
Awaited(pc) ==
    CASE pc = "hello" -> {"join"} [] pc = "joined" -> {"mp_setup_a"} [] pc = "setup" -> {"mp_setup_b"}
      [] pc = "deal" -> {"mp_ot_request"} [] pc = "taking" -> {"mp_ot_response"}
      [] pc = "play" -> {"mp_play", "mp_ot_request", "mp_pass"} [] pc = "opened" -> {"mp_opening"}
      [] pc = "disclosed" -> {"mp_witness"} [] pc = "signed" -> {"mp_terminal_receipt"} [] OTHER -> {}
Waiting(s) ==
    /\ open[s] /\ Awaited(side[s].pc) # {}
    /\ side[s].pc = "hello" => s = "host"
    /\ side[s].pc = "deal" => Dealt[side[s].dealt + 1] # s
    /\ side[s].pc = "play" => Actor(s) # s
Refuse(s) ==
    /\ Waiting(s) /\ wire[s] # <<>> /\ Head(wire[s]).kind \notin Awaited(side[s].pc)
    /\ IF side[s].pc \in {"opened", "disclosed", "signed"}
       THEN Ends(s, "done", FALSE, <<>>) ELSE Ends(s, "failed", FALSE, <<>>)
Closed(s) ==
    /\ Waiting(s) /\ wire[s] = <<>> /\ (~open[Other(s)] \/ broken)
    /\ Ends(s, "failed", FALSE, <<>>)

(* the network takes the channel and what is on it                           *)
Break ==
    /\ ~broken /\ broken' = TRUE /\ wire' = [s \in Sides |-> <<>>]
    /\ UNCHANGED <<pi, fault, open, side>>

Next ==
    \/ Join \/ SetupHost \/ SetupGuest \/ ApplySetupB \/ Break
    \/ \E s \in Sides :
        \/ RequestDealt(s) \/ Respond(s) \/ Recover(s)
        \/ Play(s) \/ Draw(s) \/ Pass(s) \/ ReceivePlay(s) \/ ReceivePass(s)
        \/ SendOpening(s) \/ ReceiveOpening(s) \/ ReceiveWitness(s) \/ ReceiveReceipt(s)
        \/ Refuse(s) \/ Closed(s)

Spec == Init /\ [][Next]_poker
-----------------------------------------------------------------------------
(* The decks split the cards, and a verdict comes at the end.                *)
TypeOK ==
    /\ fault \in Faults /\ pi \in [Cards -> Cards] /\ open \in [Sides -> BOOLEAN] /\ broken \in BOOLEAN
    /\ \A s \in Sides :
        LET d == side[s].deck IN
        /\ d.host \union d.guest \union d.stock \union d.played \in {{}, Cards}
        /\ Cardinality(d.host) + Cardinality(d.guest) + Cardinality(d.stock) + Cardinality(d.played)
              <= Cardinality(Cards)
        /\ side[s].passed => side[s].pc = "done"

(* audit_passed is true only after an honest match of which both hold the    *)
(* same transcript, hands, top card and winner: no injected fault survives   *)
(* the audit of both sides and the comparison of the receipts.               *)
AuditSound ==
    \A s \in Sides : side[s].passed =>
        /\ fault = None \/ fault.kind = "drop_ot_response"   \* that transfer was never asked for
        /\ side[s].log = side[Other(s)].log /\ side[s].winner = side[Other(s)].winner
        /\ side[s].deck = side[Other(s)].deck /\ side[s].top = side[Other(s)].top

(* Without a fault on a channel that holds, the two ledgers are the same     *)
(* whenever the two transcripts are as long, and nobody raises, refuses or   *)
(* fails the audit.                                                          *)
HonestMatchPasses ==
    fault = None /\ ~broken =>
        /\ Len(side["host"].log) = Len(side["guest"].log) =>
              side["host"].deck = side["guest"].deck /\ side["host"].top = side["guest"].top
        /\ \A s \in Sides : side[s].pc # "failed" /\ (side[s].pc = "done" => side[s].passed)
=============================================================================
