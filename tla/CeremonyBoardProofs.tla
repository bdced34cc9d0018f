------------------------- MODULE CeremonyBoardProofs -------------------------
(***************************************************************************)
(* Theorems about the bulletin board of a ceremony, for every number of    *)
(* witnesses with intersecting quorums, every set of ballots and any       *)
(* number of faults, and about the transport of its contributions.  The    *)
(* argument for the board is quorum intersection: two quorums share a      *)
(* witness, and what a witness has signed it has locked.                   *)
(***************************************************************************)
EXTENDS MCCeremony, FiniteSetTheorems, SequenceTheorems, TLAPS

(* What the relay holds of a witness, the witness has locked.               *)
AcceptedIsLocked ==
    \A w \in Witnesses, b \in Ballots : <<w, b>> \in held => <<b.nullifier, b>> \in locks[w]
SignedIsLocked ==
    \A w \in Witnesses, r \in Roots : <<w, r>> \in signed => lockedRoot[w] = r

(* What a witness counts has a receipt.                                     *)
CountedHasReceipt ==
    \A w \in Witnesses :
        /\ \A b \in receipts[w] : Receipted(b)
        /\ \A h \in handlers[w] : h[2] # "ballot" => Receipted(h[1])
        /\ lockedRoot[w] # None => \A b \in lockedRoot[w] : Receipted(b)

(* What the relay combined is backed by a quorum, and what was opened is    *)
(* the tally of it.                                                         *)
SealedIsSealable == sealed # None => Sealable(sealed)
OpenedIsTally ==
    opened # None => /\ sealed # None
                     /\ opened = DecisionProof(sealed)

IInv == TypeOK /\ AcceptedIsLocked /\ SignedIsLocked /\ CountedHasReceipt /\ SealedIsSealable /\ OpenedIsTally

-----------------------------------------------------------------------------
(* Quorums *)

\* The witnesses of the frozen manifest are finitely many, and its quorum is
\* more than half of them (validate_setup_manifest).
LEMMA QuorumIsMajority ==
    ASSUME TypeOK
    PROVE  /\ IsFiniteSet(Witnesses) /\ Cardinality(Witnesses) \in Nat
           /\ final.quorum \in Nat /\ 2 * final.quorum > Cardinality(Witnesses)
           /\ final.minimum \in Nat
BY BoardAssumption, FS_CardinalityType DEF TypeOK, ValidFinal, ValidSetup, Witnesses

\* Two sets of witnesses that each make a quorum have a witness in common.
LEMMA QuorumsMeet ==
    ASSUME TypeOK, NEW A \in SUBSET Witnesses, NEW B \in SUBSET Witnesses,
           Cardinality(A) >= final.quorum, Cardinality(B) >= final.quorum
    PROVE  \E w \in Witnesses : w \in A /\ w \in B
<1>1. IsFiniteSet(A) /\ IsFiniteSet(B) /\ IsFiniteSet(Witnesses)
  BY QuorumIsMajority, FS_Subset
<1>2. Cardinality(A) \in Nat /\ Cardinality(B) \in Nat  BY <1>1, FS_CardinalityType
<1>3. Cardinality(A) + Cardinality(B) > Cardinality(Witnesses)  BY <1>2, QuorumIsMajority
<1>4. A \cap B # {}  BY <1>1, <1>3, FS_MajoritiesIntersect
<1>5. QED  BY <1>4

\* A receipt or a checkpoint stays one when more signatures arrive.
LEMMA ReceiptStays ==
    ASSUME TypeOK, TypeOK', final' = final, held \subseteq held', NEW b, Receipted(b)
    PROVE  Receipted(b)'
<1> DEFINE A == {w \in Witnesses : <<w, b>> \in held}
           B == {w \in Witnesses : <<w, b>> \in held'}
<1>1. IsFiniteSet(B)  BY QuorumIsMajority, FS_Subset
<1>2. A \subseteq B  OBVIOUS
<1>3. Cardinality(A) <= Cardinality(B)  BY <1>1, <1>2, FS_Subset
<1>4. Cardinality(A) \in Nat /\ Cardinality(B) \in Nat
  BY <1>1, <1>2, FS_Subset, FS_CardinalityType
<1>5. Cardinality(A) >= final.quorum  BY DEF Receipted, IsReceipt
<1>6. Cardinality(B) >= final.quorum  BY <1>3, <1>4, <1>5, QuorumIsMajority
<1>7. QED  BY <1>6 DEF Receipted, IsReceipt, Witnesses

LEMMA CheckpointStays ==
    ASSUME TypeOK, TypeOK', final' = final, signed \subseteq signed', NEW r, Sealable(r)
    PROVE  Sealable(r)'
<1> DEFINE A == {w \in Witnesses : <<w, r>> \in signed}
           B == {w \in Witnesses : <<w, r>> \in signed'}
<1>1. IsFiniteSet(B)  BY QuorumIsMajority, FS_Subset
<1>2. A \subseteq B  OBVIOUS
<1>3. Cardinality(A) <= Cardinality(B)  BY <1>1, <1>2, FS_Subset
<1>4. Cardinality(A) \in Nat /\ Cardinality(B) \in Nat
  BY <1>1, <1>2, FS_Subset, FS_CardinalityType
<1>5. Cardinality(A) >= final.quorum  BY DEF Sealable, IsCheckpoint
<1>6. Cardinality(B) >= final.quorum  BY <1>3, <1>4, <1>5, QuorumIsMajority
<1>7. QED  BY <1>6 DEF Sealable, IsCheckpoint, Witnesses

\* Two ballots of one nullifier that both have a receipt are one ballot.
LEMMA OneBallotPerNullifier == IInv => NoDoubleVote
<1> SUFFICES ASSUME IInv, NEW b \in Ballots, NEW c \in Ballots, Receipted(b), Receipted(c),
                    b.nullifier = c.nullifier
             PROVE  b = c
  BY DEF NoDoubleVote
<1>1. PICK w \in Witnesses : <<w, b>> \in held /\ <<w, c>> \in held
  BY QuorumsMeet DEF IInv, Receipted, IsReceipt
<1>2. <<b.nullifier, b>> \in locks[w] /\ <<c.nullifier, c>> \in locks[w]
  BY <1>1 DEF IInv, AcceptedIsLocked
<1>3. <<b.nullifier, b>> = <<c.nullifier, c>>  BY <1>2 DEF IInv, TypeOK
<1>4. QED  BY <1>3

\* Two roots that both have a quorum of signatures are one root.
LEMMA OneSealableRoot ==
    ASSUME IInv, NEW r \in Roots, NEW s \in Roots, Sealable(r), Sealable(s)
    PROVE  r = s
<1>1. PICK w \in Witnesses : <<w, r>> \in signed /\ <<w, s>> \in signed
  BY QuorumsMeet DEF IInv, Sealable, IsCheckpoint
<1>2. QED  BY <1>1 DEF IInv, SignedIsLocked

-----------------------------------------------------------------------------
(* The initial states and the steps *)

LEMMA InitIInv == Init => IInv
<1> SUFFICES ASSUME Init PROVE IInv
  OBVIOUS
<1>1. TypeOK  BY BoardAssumption DEF Init, Frozen, TypeOK, Witnesses, Roots
<1>2. QED
  BY <1>1 DEF Init, IInv, AcceptedIsLocked, SignedIsLocked, CountedHasReceipt, SealedIsSealable, OpenedIsTally, Witnesses

\* The counts of a tally are numbers.
LEMMA TallyType == ASSUME NEW r \in Roots PROVE Tally(r) \in [Options -> Nat]
<1> SUFFICES ASSUME NEW o \in Options PROVE Cardinality({b \in r : b.choice = o}) \in Nat
  BY DEF Tally
<1>1. IsFiniteSet(r)  BY BoardAssumption, FS_Subset DEF Roots
<1>2. IsFiniteSet({b \in r : b.choice = o})  BY <1>1, FS_Subset
<1>3. QED  BY <1>2, FS_CardinalityType

LEMMA NextTypeOK == TypeOK /\ [Next]_board => TypeOK'
<1> SUFFICES ASSUME TypeOK, [Next]_board PROVE TypeOK'
  OBVIOUS
<1>1. CASE UNCHANGED board  BY <1>1 DEF board, TypeOK, Witnesses
<1>2. CASE ClockMoves  BY <1>2 DEF ClockMoves, TypeOK, Witnesses
<1>3. ASSUME NEW w \in Witnesses, NEW b \in Ballots, SubmitBallot(w, b) \/ GossipReceipt(w, b)
      PROVE  TypeOK'
  <2>1. handlers' \in [Witnesses -> SUBSET (Ballots \X Purposes)]
    BY <1>3 DEF SubmitBallot, GossipReceipt, Serve, TypeOK, Purposes
  <2>2. UNCHANGED <<final, clock, records, locks, receipts, lockedRoot, held, signed, sealed, ledger, opened, faults>>
    BY <1>3 DEF SubmitBallot, GossipReceipt
  <2>3. QED  BY <2>1, <2>2 DEF TypeOK, Witnesses
<1>4. ASSUME NEW w \in Witnesses, NEW h \in handlers[w], RejectProof(w, h) \/ RefuseConflict(w, h)
      PROVE  TypeOK'
  <2>1. handlers' \in [Witnesses -> SUBSET (Ballots \X Purposes)]
    BY <1>4 DEF RejectProof, RefuseConflict, Served, TypeOK
  <2>2. UNCHANGED <<final, clock, records, locks, receipts, lockedRoot, held, signed, sealed, ledger, opened, faults>>
    BY <1>4 DEF RejectProof, RefuseConflict
  <2>3. QED  BY <2>1, <2>2 DEF TypeOK, Witnesses
<1>5. ASSUME NEW w \in Witnesses, NEW h \in handlers[w], AcceptBallot(w, h)
      PROVE  TypeOK'
  <2>1. h \in Ballots \X Purposes /\ h[1] \in Ballots  BY <1>5 DEF TypeOK
  <2>2. handlers' \in [Witnesses -> SUBSET (Ballots \X Purposes)]
    BY <1>5, <2>1 DEF AcceptBallot, Served, TypeOK, Purposes
  <2>3. records' \in [Witnesses -> SUBSET Ballots]  BY <1>5, <2>1 DEF AcceptBallot, TypeOK
  <2>4. locks' \in [Witnesses -> SUBSET ({b.nullifier : b \in Ballots} \X Ballots)]
    BY <1>5, <2>1 DEF AcceptBallot, TypeOK
  <2>5. ASSUME NEW v \in Witnesses, NEW k \in locks'[v], NEW l \in locks'[v], k[1] = l[1]
        PROVE  k = l
    <3>1. CASE k \in locks[v] /\ l \in locks[v]  BY <3>1, <2>5 DEF TypeOK
    <3>2. CASE k \notin locks[v] \/ l \notin locks[v]
      <4>1. v = w /\ \A m \in locks'[w] : m \in locks[w] \/ m = <<h[1].nullifier, h[1]>>
        BY <1>5, <2>5, <3>2 DEF AcceptBallot, TypeOK
      <4>2. \A m \in locks[w] : m = <<m[1], m[2]>> /\ m[2] \in Ballots  BY DEF TypeOK
      <4>3. \A c \in Ballots : <<h[1].nullifier, c>> \in locks[w] => c = h[1]
        BY <1>5 DEF AcceptBallot, Conflicts
      <4>4. \A m \in locks[w] : m[1] = h[1].nullifier => m[2] = h[1]  BY <4>2, <4>3
      <4>5. \A m \in locks[w] : m[1] = h[1].nullifier => m = <<h[1].nullifier, h[1]>>
        BY <4>2, <4>4
      <4>6. QED  BY <2>5, <3>2, <4>1, <4>5
    <3>3. QED  BY <3>1, <3>2
  <2>6. held' \subseteq Witnesses \X Ballots  BY <1>5, <2>1 DEF AcceptBallot, TypeOK
  <2>7. faults' \in 0..MaxFaults  BY <1>5, BoardAssumption DEF AcceptBallot, TypeOK
  <2>8. UNCHANGED <<final, clock, receipts, lockedRoot, signed, sealed, ledger, opened>>
    BY <1>5 DEF AcceptBallot
  <2>9. QED  BY <2>2, <2>3, <2>4, <2>5, <2>6, <2>7, <2>8 DEF TypeOK, Witnesses
<1>6. ASSUME NEW w \in Witnesses, NEW h \in handlers[w], StoreReceipt(w, h)
      PROVE  TypeOK'
  <2>1. h[1] \in Ballots  BY <1>6 DEF TypeOK
  <2>2. handlers' \in [Witnesses -> SUBSET (Ballots \X Purposes)]
    BY <1>6 DEF StoreReceipt, Served, TypeOK
  <2>3. receipts' \in [Witnesses -> SUBSET Ballots]  BY <1>6, <2>1 DEF StoreReceipt, TypeOK
  <2>4. QED  BY <1>6, <2>2, <2>3 DEF StoreReceipt, TypeOK, Witnesses
<1>7. ASSUME NEW w \in Witnesses, SignCheckpoint(w) PROVE TypeOK'
  <2>1. receipts[w] \in Roots  BY DEF TypeOK, Roots
  <2>2. lockedRoot' \in [Witnesses -> {None} \union Roots]  BY <1>7, <2>1 DEF SignCheckpoint, TypeOK
  <2>3. signed' \subseteq Witnesses \X Roots  BY <1>7, <2>1 DEF SignCheckpoint, TypeOK
  <2>4. faults' \in 0..MaxFaults  BY <1>7, BoardAssumption DEF SignCheckpoint, TypeOK
  <2>5. QED  BY <1>7, <2>2, <2>3, <2>4 DEF SignCheckpoint, TypeOK, Witnesses
<1>8. ASSUME NEW w \in Witnesses, Restart(w) PROVE TypeOK'
  <2>1. handlers' \in [Witnesses -> SUBSET (Ballots \X Purposes)]  BY <1>8 DEF Restart, TypeOK
  <2>2. faults' \in 0..MaxFaults  BY <1>8, BoardAssumption DEF Restart, TypeOK
  <2>3. QED  BY <1>8, <2>1, <2>2 DEF Restart, TypeOK, Witnesses
<1>9. ASSUME NEW s \in signed, CombineCheckpoints(s[2]) PROVE TypeOK'
  <2>1. s[2] \in Roots  BY DEF TypeOK
  <2>2. QED  BY <1>9, <2>1 DEF CombineCheckpoints, TypeOK, Witnesses
<1>10. ASSUME NEW g \in Guardians, AcquireAuthorization(g) PROVE TypeOK'
  <2>1. ledger' \in [Guardians -> {None} \union Roots]  BY <1>10 DEF AcquireAuthorization, TypeOK
  <2>2. QED  BY <1>10, <2>1 DEF AcquireAuthorization, TypeOK, Witnesses
<1>11. CASE OpenDecision(sealed)
  <2>1. sealed \in Roots  BY <1>11 DEF OpenDecision, TypeOK
  <2>2. Outcome(Tally(sealed)) \in SUBSET Options  BY DEF Outcome
  <2>3. opened' \in [tally : [Options -> Nat], outcome : SUBSET Options]
    BY <1>11, <2>1, <2>2, TallyType DEF OpenDecision, DecisionProof
  <2>4. QED  BY <1>11, <2>3 DEF OpenDecision, TypeOK, Witnesses
<1>12. QED
  BY <1>1, <1>2, <1>3, <1>4, <1>5, <1>6, <1>7, <1>8, <1>9, <1>10, <1>11 DEF Next

\* What the relay holds only grows, and the manifest is frozen.
LEMMA NothingIsTakenBack ==
    ASSUME [Next]_board
    PROVE  final' = final /\ held \subseteq held' /\ signed \subseteq signed'
BY ZenonT(60) DEF Next, board, ClockMoves, SubmitBallot, GossipReceipt, RejectProof, RefuseConflict, AcceptBallot,
       StoreReceipt, SignCheckpoint, Restart, CombineCheckpoints, AcquireAuthorization, OpenDecision

LEMMA NextAcceptedIsLocked == IInv /\ [Next]_board => AcceptedIsLocked'
<1> SUFFICES ASSUME IInv, [Next]_board PROVE AcceptedIsLocked'
  OBVIOUS
<1>0. TypeOK /\ TypeOK' /\ AcceptedIsLocked  BY NextTypeOK DEF IInv
<1>1. ASSUME NEW w \in Witnesses, NEW h \in handlers[w], AcceptBallot(w, h)
      PROVE  AcceptedIsLocked'
  <2>1. \A v \in Witnesses : locks[v] \subseteq locks'[v]  BY <1>0, <1>1 DEF AcceptBallot, TypeOK
  <2>2. <<h[1].nullifier, h[1]>> \in locks'[w]  BY <1>0, <1>1 DEF AcceptBallot, TypeOK
  <2>3. \A m \in held' : m \in held \/ m = <<w, h[1]>>  BY <1>1 DEF AcceptBallot
  <2>4. UNCHANGED final  BY <1>1 DEF AcceptBallot
  <2>5. QED  BY <1>0, <2>1, <2>2, <2>3, <2>4 DEF AcceptedIsLocked, Witnesses
<1>2. CASE UNCHANGED <<final, held, locks>>  BY <1>0, <1>2 DEF AcceptedIsLocked, Witnesses
<1>3. QED
  BY <1>1, <1>2 DEF Next, board, ClockMoves, SubmitBallot, GossipReceipt, RejectProof, RefuseConflict,
     StoreReceipt, SignCheckpoint, Restart, CombineCheckpoints, AcquireAuthorization, OpenDecision

LEMMA NextSignedIsLocked == IInv /\ [Next]_board => SignedIsLocked'
<1> SUFFICES ASSUME IInv, [Next]_board PROVE SignedIsLocked'
  OBVIOUS
<1>0. TypeOK /\ TypeOK' /\ SignedIsLocked  BY NextTypeOK DEF IInv
<1>1. ASSUME NEW w \in Witnesses, SignCheckpoint(w) PROVE SignedIsLocked'
  <2>1. lockedRoot'[w] = receipts[w] /\ \A v \in Witnesses \ {w} : lockedRoot'[v] = lockedRoot[v]
    BY <1>0, <1>1 DEF SignCheckpoint, TypeOK
  <2>2. \A m \in signed' : m \in signed \/ m = <<w, receipts[w]>>  BY <1>1 DEF SignCheckpoint
  <2>3. \A r \in Roots : <<w, r>> \in signed => r = receipts[w]
    <3>1. SUFFICES ASSUME NEW r \in Roots, <<w, r>> \in signed PROVE r = receipts[w]
      OBVIOUS
    <3>2. lockedRoot[w] = r  BY <1>0, <3>1 DEF SignedIsLocked
    <3>3. r # None  BY BoardAssumption DEF Roots
    <3>4. QED  BY <1>1, <3>2, <3>3 DEF SignCheckpoint
  <2>4. UNCHANGED final  BY <1>1 DEF SignCheckpoint
  <2>5. SUFFICES ASSUME NEW v \in Witnesses, NEW r \in Roots, <<v, r>> \in signed' PROVE lockedRoot'[v] = r
    BY <2>4 DEF SignedIsLocked, Witnesses, Roots
  <2>6. CASE v = w  BY <2>1, <2>2, <2>3, <2>5, <2>6
  <2>7. CASE v # w  BY <1>0, <2>1, <2>2, <2>5, <2>7 DEF SignedIsLocked
  <2>8. QED  BY <2>6, <2>7
<1>2. CASE UNCHANGED <<final, signed, lockedRoot>>  BY <1>0, <1>2 DEF SignedIsLocked, Witnesses, Roots
<1>3. QED
  BY <1>1, <1>2, ZenonT(60)
  DEF Next, board, ClockMoves, SubmitBallot, GossipReceipt, RejectProof, RefuseConflict,
     AcceptBallot, StoreReceipt, Restart, CombineCheckpoints, AcquireAuthorization, OpenDecision

LEMMA NextCountedHasReceipt == IInv /\ [Next]_board => CountedHasReceipt'
<1> SUFFICES ASSUME IInv, [Next]_board PROVE CountedHasReceipt'
  OBVIOUS
<1>0. TypeOK /\ TypeOK' /\ CountedHasReceipt  BY NextTypeOK DEF IInv
<1>a. final' = final /\ Witnesses' = Witnesses  BY NothingIsTakenBack DEF Witnesses
<1>b. \A b : Receipted(b) => Receipted(b)'  BY <1>0, NothingIsTakenBack, ReceiptStays
<1>1. SUFFICES ASSUME NEW v \in Witnesses
               PROVE  /\ \A b \in receipts'[v] : Receipted(b)
                      /\ \A h \in handlers'[v] : h[2] # "ballot" => Receipted(h[1])
                      /\ lockedRoot'[v] # None => \A b \in lockedRoot'[v] : Receipted(b)
  BY <1>a, <1>b DEF CountedHasReceipt
<1>c. /\ \A b \in receipts[v] : Receipted(b)
      /\ \A h \in handlers[v] : h[2] # "ballot" => Receipted(h[1])
      /\ lockedRoot[v] # None => \A b \in lockedRoot[v] : Receipted(b)
  BY <1>0 DEF CountedHasReceipt
<1>2. CASE handlers' = handlers /\ receipts' = receipts /\ lockedRoot' = lockedRoot  BY <1>2, <1>c
<1>3. ASSUME NEW w \in Witnesses, NEW b \in Ballots, SubmitBallot(w, b) \/ GossipReceipt(w, b)
      PROVE  \A h \in handlers'[v] : h[2] # "ballot" => Receipted(h[1])
  <2>1. \A h \in handlers'[v] : h \in handlers[v] \/ h = <<b, "ballot">> \/ (h[1] = b /\ Receipted(b))
    BY <1>0, <1>3 DEF SubmitBallot, GossipReceipt, Serve, TypeOK
  <2>2. QED  BY <1>c, <2>1
<1>4. ASSUME NEW w \in Witnesses, NEW h \in handlers[w],
             RejectProof(w, h) \/ RefuseConflict(w, h) \/ StoreReceipt(w, h)
      PROVE  handlers'[v] \subseteq handlers[v]
  BY <1>0, <1>4 DEF RejectProof, RefuseConflict, StoreReceipt, Served, TypeOK
<1>5. ASSUME NEW w \in Witnesses, NEW h \in handlers[w], AcceptBallot(w, h)
      PROVE  \A k \in handlers'[v] : k[2] # "ballot" => Receipted(k[1])
  <2>1. h[2] = "gossip" => Receipted(h[1])  BY <1>0, <1>5 DEF CountedHasReceipt
  <2>2. \A k \in handlers'[v] : k \in handlers[v] \/ (h[2] = "gossip" /\ k[1] = h[1])
    BY <1>0, <1>5 DEF AcceptBallot, Served, TypeOK
  <2>3. QED  BY <1>c, <2>1, <2>2
<1>6. ASSUME NEW w \in Witnesses, NEW h \in handlers[w], StoreReceipt(w, h)
      PROVE  \A b \in receipts'[v] : Receipted(b)
  <2>1. Receipted(h[1])  BY <1>0, <1>6 DEF StoreReceipt, CountedHasReceipt
  <2>2. \A b \in receipts'[v] : b \in receipts[v] \/ b = h[1]  BY <1>0, <1>6 DEF StoreReceipt, TypeOK
  <2>3. QED  BY <1>c, <2>1, <2>2
<1>7. ASSUME NEW w \in Witnesses, SignCheckpoint(w)
      PROVE  lockedRoot'[v] # None => \A b \in lockedRoot'[v] : Receipted(b)
  <2>1. lockedRoot'[v] \in {lockedRoot[v], receipts[v]}  BY <1>0, <1>7 DEF SignCheckpoint, TypeOK
  <2>2. QED  BY <1>c, <2>1
<1>8. ASSUME NEW w \in Witnesses, Restart(w) PROVE handlers'[v] \subseteq handlers[v]
  BY <1>0, <1>8 DEF Restart, TypeOK
<1>9. CASE \E w \in Witnesses : \E b \in Ballots : SubmitBallot(w, b) \/ GossipReceipt(w, b)
  BY <1>3, <1>9, <1>c DEF SubmitBallot, GossipReceipt
<1>10. CASE \E w \in Witnesses : \E h \in handlers[w] : RejectProof(w, h) \/ RefuseConflict(w, h)
  BY <1>4, <1>10, <1>c DEF RejectProof, RefuseConflict
<1>11. CASE \E w \in Witnesses : \E h \in handlers[w] : AcceptBallot(w, h)
  BY <1>5, <1>11, <1>c DEF AcceptBallot
<1>12. CASE \E w \in Witnesses : \E h \in handlers[w] : StoreReceipt(w, h)
  BY <1>4, <1>6, <1>12, <1>c DEF StoreReceipt
<1>13. CASE \E w \in Witnesses : SignCheckpoint(w)  BY <1>7, <1>13, <1>c DEF SignCheckpoint
<1>14. CASE \E w \in Witnesses : Restart(w)  BY <1>8, <1>14, <1>c DEF Restart
<1>15. QED
  BY <1>2, <1>9, <1>10, <1>11, <1>12, <1>13, <1>14
     DEF Next, board, ClockMoves, CombineCheckpoints, AcquireAuthorization, OpenDecision

\* A second checkpoint that the relay combines is the first one again, so the
\* tally that was opened stays the tally of the sealed box.
LEMMA NextSealed == IInv /\ [Next]_board => SealedIsSealable' /\ OpenedIsTally'
<1> SUFFICES ASSUME IInv, [Next]_board PROVE SealedIsSealable' /\ OpenedIsTally'
  OBVIOUS
<1>0. TypeOK /\ TypeOK' /\ SealedIsSealable /\ OpenedIsTally  BY NextTypeOK DEF IInv
<1>a. \A r : Sealable(r) => Sealable(r)'  BY <1>0, NothingIsTakenBack, CheckpointStays
<1>1. ASSUME NEW s \in signed, CombineCheckpoints(s[2])
      PROVE  sealed' = s[2] /\ Sealable(s[2]) /\ (sealed # None => sealed' = sealed)
  <2>1. s[2] \in Roots  BY <1>0 DEF TypeOK
  <2>2. sealed' = s[2] /\ Sealable(s[2])  BY <1>1 DEF CombineCheckpoints
  <2>3. ASSUME sealed # None PROVE sealed = s[2]
    <3>1. sealed \in Roots /\ Sealable(sealed)  BY <1>0, <2>3 DEF TypeOK, SealedIsSealable
    <3>2. QED  BY <2>1, <2>2, <3>1, OneSealableRoot
  <2>4. QED  BY <2>2, <2>3
<1>2. CASE \E s \in signed : CombineCheckpoints(s[2])
  <2>1. PICK s \in signed : CombineCheckpoints(s[2])  BY <1>2
  <2>2. opened' = opened /\ sealed' = s[2] /\ Sealable(s[2]) /\ (sealed # None => sealed' = sealed)
    BY <1>1, <2>1 DEF CombineCheckpoints
  <2>3. s[2] # None  BY <1>0, BoardAssumption DEF TypeOK, Roots
  <2>4. SealedIsSealable'  BY <1>a, <2>2 DEF SealedIsSealable
  <2>5. OpenedIsTally'
    <3>1. CASE opened = None  BY <2>2, <3>1 DEF OpenedIsTally
    <3>2. CASE opened # None
      <4>1. sealed # None /\ opened = DecisionProof(sealed)  BY <1>0, <3>2 DEF OpenedIsTally
      <4>2. sealed' = sealed  BY <2>2, <4>1
      <4>3. DecisionProof(sealed)' = DecisionProof(sealed)  BY <4>2 DEF DecisionProof, Tally, Outcome
      <4>4. QED  BY <2>2, <4>1, <4>2, <4>3 DEF OpenedIsTally
    <3>3. QED  BY <3>1, <3>2
  <2>6. QED  BY <2>4, <2>5
<1>3. CASE OpenDecision(sealed)
  <2>1. sealed # None /\ opened' = DecisionProof(sealed) /\ sealed' = sealed  BY <1>3 DEF OpenDecision
  <2>2. DecisionProof(sealed)' = DecisionProof(sealed)  BY <2>1 DEF DecisionProof, Tally, Outcome
  <2>3. OpenedIsTally'  BY <2>1, <2>2 DEF OpenedIsTally
  <2>4. SealedIsSealable'  BY <1>0, <1>a, <2>1 DEF SealedIsSealable
  <2>5. QED  BY <2>3, <2>4
<1>4. CASE UNCHANGED <<sealed, opened>>
  <2>1. DecisionProof(sealed)' = DecisionProof(sealed)  BY <1>4 DEF DecisionProof, Tally, Outcome
  <2>2. OpenedIsTally'  BY <1>0, <1>4, <2>1 DEF OpenedIsTally
  <2>3. SealedIsSealable'  BY <1>0, <1>4, <1>a DEF SealedIsSealable
  <2>4. QED  BY <2>2, <2>3
<1>5. QED
  BY <1>2, <1>3, <1>4, ZenonT(60)
  DEF Next, board, ClockMoves, SubmitBallot, GossipReceipt, RejectProof, RefuseConflict,
     AcceptBallot, StoreReceipt, SignCheckpoint, Restart, AcquireAuthorization

LEMMA NextIInv == IInv /\ [Next]_board => IInv'
BY NextTypeOK, NextAcceptedIsLocked, NextSignedIsLocked, NextCountedHasReceipt, NextSealed DEF IInv

-----------------------------------------------------------------------------
(* The theorems *)

\* The inductive invariant holds in every reachable state of the board.
THEOREM Invariance == Spec => []IInv
BY InitIInv, NextIInv, PTL DEF Spec

\* Every variable of the board keeps its type, and every table its key.
THEOREM TypeCorrect == Spec => []TypeOK
<1>1. IInv => TypeOK  BY DEF IInv
<1>2. QED  BY <1>1, Invariance, PTL

\* A member who casts two ballots gets a receipt for one of them at most,
\* for every number of witnesses, faults, and orders in which the ballots
\* reached them (WitnessStore.submit, combine_acceptances).
THEOREM VotesOnce == Spec => []NoDoubleVote
BY Invariance, OneBallotPerNullifier, PTL

\* No two checkpoints with different roots ever get a quorum of signatures
\* (WitnessStore.checkpoint, combine_checkpoints).
THEOREM SealsOnce == Spec => []OneRoot
<1>1. IInv => OneRoot
  <2> SUFFICES ASSUME IInv, NEW s1 \in signed, NEW s2 \in signed, Sealable(s1[2]), Sealable(s2[2])
               PROVE  s1[2] = s2[2]
    BY DEF OneRoot
  <2>1. s1[2] \in Roots /\ s2[2] \in Roots  BY DEF IInv, TypeOK
  <2>2. QED  BY <2>1, OneSealableRoot
<1>2. QED  BY <1>1, Invariance, PTL

-----------------------------------------------------------------------------
(* The board implements the ballot box *)

\* The box counts as the board does.
LEMMA SameCount == \A A : Box!Cardinality(A) = Cardinality(A)
BY DEF Cardinality, Box!Cardinality

\* The plurality that is neither shared nor missing is the strict one: what the
\* verifiers compute is what the ballot box says (_tally_entries, _outcome).
LEMMA ProofIsResult == ASSUME NEW r \in Roots PROVE DecisionProof(r) = Box!Result(r)
<1> DEFINE T == Tally(r)
           W == {o \in Options : \A p \in Options : T[p] <= T[o]}
           S == {o \in Options : \A p \in Options \ {o} : T[p] < T[o]}
<1>1. T \in [Options -> Nat]  BY TallyType
<1>2. \A o \in Options : Box!Votes(r, o) = T[o]  BY SameCount DEF Tally, Box!Votes
<1> HIDE DEF T
<1>3. \A o \in S : W = {o}
  <2> SUFFICES ASSUME NEW o \in S PROVE W = {o}
    OBVIOUS
  <2>1. \A p \in Options : T[p] \in Nat  BY <1>1
  <2>2. o \in W
    <3> SUFFICES ASSUME NEW p \in Options PROVE T[p] <= T[o]
      OBVIOUS
    <3>1. CASE p = o  BY <2>1, <3>1
    <3>2. CASE p # o  BY <2>1, <3>2
    <3>3. QED  BY <3>1, <3>2
  <2>3. ASSUME NEW p \in W, p # o PROVE FALSE
    <3>1. T[p] < T[o] /\ T[o] <= T[p]  BY <2>3
    <3>2. QED  BY <2>1, <2>3, <3>1
  <2>4. QED  BY <2>2, <2>3
<1>4. \A o \in Options : W = {o} => o \in S
  <2> SUFFICES ASSUME NEW o \in Options, W = {o}, NEW p \in Options \ {o} PROVE T[p] < T[o]
    OBVIOUS
  <2>1. T[p] \in Nat /\ T[o] \in Nat /\ T[p] <= T[o]  BY <1>1
  <2>2. T[p] # T[o]
    <3> SUFFICES ASSUME T[p] = T[o] PROVE p \in W
      OBVIOUS
    <3>1. \A q \in Options : T[q] <= T[o]  OBVIOUS
    <3>2. QED  BY <3>1
  <2>3. QED  BY <2>1, <2>2
<1>5. IsFiniteSet(W)  BY BoardAssumption, FS_Subset
<1>6. S = IF Cardinality(W) = 1 THEN W ELSE {}
  <2>1. CASE Cardinality(W) = 1
    <3>1. PICK o : W = {o}  BY <1>5, <2>1, FS_Singleton
    <3>2. o \in Options  BY <3>1
    <3>3. S = {o}
      <4>1. o \in S  BY <1>4, <3>1, <3>2
      <4>2. \A q \in S : q = o  BY <1>3, <3>1
      <4>3. QED  BY <4>1, <4>2
    <3>4. QED  BY <2>1, <3>1, <3>3
  <2>2. CASE Cardinality(W) # 1
    <3>1. ASSUME NEW o \in S PROVE FALSE
      <4>1. W = {o}  BY <1>3
      <4>2. Cardinality(W) = 1  BY <4>1, FS_Singleton
      <4>3. QED  BY <2>2, <4>2
    <3>2. QED  BY <2>2, <3>1
  <2>3. QED  BY <2>1, <2>2
<1>7. Box!Result(r).outcome = S  BY <1>2 DEF Box!Result
<1>8. Outcome(T) = IF Cardinality(W) = 1 THEN W ELSE {}  BY DEF Outcome
<1>9. [o \in Options |-> Box!Votes(r, o)] = T  BY <1>1, <1>2
<1>10. Box!Result(r) = [tally |-> T, outcome |-> S]  BY <1>7, <1>9 DEF Box!Result
<1>11. DecisionProof(r) = [tally |-> T, outcome |-> Outcome(T)]  BY DEF DecisionProof, T
<1>12. QED  BY <1>6, <1>8, <1>10, <1>11

LEMMA InitIsBoxInit == Init => Box!Init
<1> SUFFICES ASSUME Init PROVE Box!Init
  OBVIOUS
<1>1. TypeOK  BY InitIInv DEF IInv
<1>2. \A b : ~Receipted(b)
  <2> SUFFICES ASSUME NEW b PROVE ~Receipted(b)
    OBVIOUS
  <2>1. {w \in Witnesses : <<w, b>> \in held} = {}  BY DEF Init
  <2>2. Cardinality({w \in Witnesses : <<w, b>> \in held}) = 0  BY <2>1, FS_EmptySet
  <2>3. final.quorum > 0  BY <1>1, QuorumIsMajority
  <2>4. QED  BY <1>1, <2>2, <2>3, QuorumIsMajority DEF Receipted, IsReceipt
<1>3. final.minimum \in Nat  BY <1>1, QuorumIsMajority
<1>4. QED  BY <1>2, <1>3 DEF Init, Box!Init

\* A step that gathers no acceptance, seals nothing and opens nothing is
\* invisible in the box.
LEMMA BoxStutters ==
    ASSUME UNCHANGED <<final, held, sealed, opened>>
    PROVE  UNCHANGED Box!box
BY DEF Box!box, Receipted, IsReceipt, Witnesses

LEMMA AcceptIsReceipt ==
    ASSUME IInv, IInv', NEW w \in Witnesses, NEW h \in handlers[w], AcceptBallot(w, h)
    PROVE  [Box!Next]_(Box!box)
<1> DEFINE R == {b \in Ballots : Receipted(b)}
           R2 == {b \in Ballots : Receipted(b)'}
<1>0. h[1] \in Ballots  BY DEF IInv, TypeOK
<1>1. /\ final' = final /\ sealed' = sealed /\ opened' = opened
      /\ held \subseteq held' /\ held' \subseteq held \union {<<w, h[1]>>}
  BY DEF AcceptBallot
<1>2. \A b \in Ballots : b # h[1] => (Receipted(b)' <=> Receipted(b))
  <2> SUFFICES ASSUME NEW b \in Ballots, b # h[1] PROVE Receipted(b)' <=> Receipted(b)
    OBVIOUS
  <2>1. \A v : <<v, b>> \in held' <=> <<v, b>> \in held  BY <1>1
  <2>2. {v \in Witnesses : <<v, b>> \in held'} = {v \in Witnesses : <<v, b>> \in held}  BY <2>1
  <2>3. Witnesses' = Witnesses  BY <1>1 DEF Witnesses
  <2>4. QED  BY <1>1, <2>2, <2>3 DEF Receipted, IsReceipt
<1>3. Receipted(h[1]) => Receipted(h[1])'  BY <1>1, ReceiptStays DEF IInv
<1>4. CASE Receipted(h[1])' => Receipted(h[1])
  <2>1. R2 = R  BY <1>2, <1>3, <1>4
  <2>2. UNCHANGED Box!box  BY <1>1, <2>1 DEF Box!box
  <2>3. QED  BY <2>2
<1>5. CASE Receipted(h[1])' /\ ~Receipted(h[1])
  <2>1. R2 = R \union {h[1]}  BY <1>0, <1>2, <1>5
  <2>2. \A c \in R : c.nullifier # h[1].nullifier
    <3> SUFFICES ASSUME NEW c \in R, c.nullifier = h[1].nullifier PROVE FALSE
      OBVIOUS
    <3>1. c \in Ballots /\ Receipted(c)  OBVIOUS
    <3>2. Receipted(c)'  BY <1>2, <1>5, <3>1
    <3>3. NoDoubleVote'  BY OneBallotPerNullifier, PTL
    <3>4. c = h[1]  BY <1>0, <1>5, <3>1, <3>2, <3>3 DEF NoDoubleVote
    <3>5. QED  BY <1>5, <3>1, <3>4
  <2>3. Box!Receipt(h[1])  BY <1>1, <2>1, <2>2 DEF Box!Receipt
  <2>4. QED  BY <1>0, <2>3 DEF Box!Next
<1>6. QED  BY <1>4, <1>5

LEMMA CombineIsSeal ==
    ASSUME IInv, NEW s \in signed, CombineCheckpoints(s[2])
    PROVE  [Box!Next]_(Box!box)
<1>1. s[2] \in Roots /\ s = <<s[1], s[2]>> /\ s[1] \in Witnesses  BY DEF IInv, TypeOK
<1>2. Sealable(s[2]) /\ sealed' = s[2] /\ UNCHANGED <<final, held, opened>>  BY DEF CombineCheckpoints
<1>3. \A b \in Ballots : Receipted(b)' <=> Receipted(b)  BY <1>2 DEF Receipted, IsReceipt, Witnesses
<1>4. CASE sealed # None
  <2>1. sealed \in Roots /\ Sealable(sealed)  BY <1>4 DEF IInv, TypeOK, SealedIsSealable
  <2>2. sealed' = sealed  BY <1>1, <1>2, <2>1, OneSealableRoot
  <2>3. QED  BY <1>2, <2>2, BoxStutters
<1>5. CASE sealed = None
  <2>1. lockedRoot[s[1]] = s[2]  BY <1>1 DEF IInv, SignedIsLocked
  <2>2. s[2] # None  BY <1>1, BoardAssumption DEF Roots
  <2>3. \A b \in s[2] : b \in Ballots /\ Receipted(b)
    BY <1>1, <2>1, <2>2 DEF IInv, CountedHasReceipt, Roots
  <2>4. Box!Seal(s[2])  BY <1>2, <1>3, <1>5, <2>3 DEF Box!Seal
  <2>5. QED  BY <1>1, <2>4 DEF Box!Next, Roots
<1>6. QED  BY <1>4, <1>5

LEMMA OpenIsOpen ==
    ASSUME IInv, OpenDecision(sealed)
    PROVE  [Box!Next]_(Box!box)
<1>1. sealed # None /\ Authorizes(sealed) /\ opened' = DecisionProof(sealed) /\ UNCHANGED <<final, held, sealed>>
  BY DEF OpenDecision
<1>2. sealed \in Roots  BY <1>1 DEF IInv, TypeOK
<1>3. \A b \in Ballots : Receipted(b)' <=> Receipted(b)  BY <1>1 DEF Receipted, IsReceipt, Witnesses
<1>4. CASE opened = None
  <2>1. opened' = Box!Result(sealed)  BY <1>1, <1>2, ProofIsResult
  <2>2. Cardinality(sealed) >= final.minimum  BY <1>1 DEF Authorizes
  <2>3. Box!Open  BY <1>1, <1>3, <1>4, <2>1, <2>2, SameCount DEF Box!Open
  <2>4. QED  BY <2>3 DEF Box!Next
<1>5. CASE opened # None
  <2>1. opened = DecisionProof(sealed)  BY <1>5 DEF IInv, OpenedIsTally
  <2>2. UNCHANGED <<final, held, sealed, opened>>  BY <1>1, <2>1
  <2>3. QED  BY <2>2, BoxStutters
<1>6. QED  BY <1>4, <1>5

LEMMA StepIsBoxStep == IInv /\ IInv' /\ [Next]_board => [Box!Next]_(Box!box)
<1> SUFFICES ASSUME IInv, IInv', [Next]_board PROVE [Box!Next]_(Box!box)
  OBVIOUS
<1>1. CASE \E w \in Witnesses : \E h \in handlers[w] : AcceptBallot(w, h)  BY <1>1, AcceptIsReceipt
<1>2. CASE \E s \in signed : CombineCheckpoints(s[2])  BY <1>2, CombineIsSeal
<1>3. CASE OpenDecision(sealed)  BY <1>3, OpenIsOpen
<1>4. CASE UNCHANGED <<final, held, sealed, opened>>  BY <1>4, BoxStutters
<1>5. QED
  BY <1>1, <1>2, <1>3, <1>4 DEF Next, board, ClockMoves, SubmitBallot, GossipReceipt, RejectProof,
     RefuseConflict, StoreReceipt, SignCheckpoint, Restart, AcquireAuthorization

\* The witnesses, the relay, the guardians and the verifiers of a ceremony
\* together implement the ballot box, for every number of each.
THEOREM ImplementsBallotBox == Spec => IsOneBallotBox
<1>1. Spec => Box!Init  BY InitIsBoxInit DEF Spec
<1>2. Spec => [][Box!Next]_(Box!box)  BY Invariance, StepIsBoxStep, PTL DEF Spec
<1>3. QED  BY <1>1, <1>2 DEF IsOneBallotBox

-----------------------------------------------------------------------------
(* The transport of the contributions                                        *)

\* What is delayed is of the type that its delivery needs.
DelayedTyped ==
    \A d \in delayed :
        /\ d.what \in {"direct", "contribution"} => d.role \in Roles
        /\ d.what = "contribution" => d.item \in Payloads
        /\ d.what = "public" => d.item \in Artifacts

\* The contributions that a collection would return now.
Contributed == {<<r, contributions[r]>> : r \in Bus!Selected}

\* What a collection returned is still there: nothing is replaced or taken back.
GotIsThere == \A c \in Collectors : collectors[c].got \subseteq Contributed

\* CollectorsAgree is not inductive: a collection returns what is there now, and
\* that has to contain what the earlier ones returned.
BusInv == Bus!TypeOK /\ DelayedTyped /\ Bus!CollectorsAgree /\ GotIsThere

\* The places of a collection and what it may return.
Collections ==
    [at : {"idle", "waiting", "got", "timeout", "aborted"}, got : SUBSET (Roles \X Payloads)]

\* Steps that touch neither the contributions nor the collections.
LEMMA BusStays ==
    ASSUME BusInv, Bus!TypeOK', DelayedTyped', UNCHANGED <<contributions, collectors>>
    PROVE  BusInv'
BY DEF BusInv, Bus!CollectorsAgree, GotIsThere, Contributed, Bus!Selected

\* A new ceremony.
LEMMA BusStarts == Bus!Init => BusInv
<1> SUFFICES ASSUME Bus!Init PROVE BusInv  OBVIOUS
<1>1. Bus!TypeOK
  <2>1. public = <<>> /\ <<>> \in Seq(Artifacts) /\ Len(<<>>) = 0  BY DEF Bus!Init
  <2>2. \A r \in Roles : <<>> \in Seq(1..MaxDeliveries)  OBVIOUS
  <2>3. direct \in [Roles -> Seq(1..MaxDeliveries)]  BY <2>2 DEF Bus!Init
  <2>4. collectors \in [Collectors -> Collections]  BY DEF Bus!Init, Collections
  <2>5. contributions \in [Roles -> {None} \union Payloads]  BY DEF Bus!Init
  <2>6. roles \subseteq Roles /\ delayed = {} /\ abort \in BOOLEAN  BY DEF Bus!Init
  <2>7. deliveries \in 0..MaxDeliveries  BY BusAssumption DEF Bus!Init
  <2>8. public \in Seq(Artifacts) /\ read \in 0..Len(public)
    <3>1. read = 0  BY DEF Bus!Init
    <3>2. QED  BY <2>1, <3>1
  <2>9. QED  BY <2>3, <2>4, <2>5, <2>6, <2>7, <2>8 DEF Bus!TypeOK, Collections
<1>2. \A c \in Collectors : collectors[c].got = {}  BY DEF Bus!Init
<1>3. DelayedTyped  BY DEF Bus!Init, DelayedTyped
<1>4. QED  BY <1>1, <1>2, <1>3 DEF BusInv, Bus!CollectorsAgree, GotIsThere

\* A delivery that begins is delayed under the next number, or dropped.
LEMMA BusBegins ==
    ASSUME BusInv, NEW what, NEW r, NEW item, Bus!Begin(what, r, item),
           what \in {"direct", "contribution"} => r \in Roles,
           what = "contribution" => item \in Payloads,
           what = "public" => item \in Artifacts
    PROVE  BusInv'
<1> DEFINE n == deliveries + 1
           d == [number |-> n, what |-> what, role |-> r, item |-> item]
<1>1. /\ deliveries < MaxDeliveries /\ deliveries' = n
      /\ delayed' \subseteq delayed \union {d}
      /\ UNCHANGED <<roles, contributions, public, direct, abort, collectors, read>>
  BY DEF Bus!Begin
<1>2. deliveries \in 0..MaxDeliveries /\ \A e \in delayed : e.number \in 1..deliveries
  BY DEF BusInv, Bus!TypeOK
<1>3. n \in 0..MaxDeliveries /\ \A e \in delayed' : e.number \in 1..n
  <2>1. n \in 0..MaxDeliveries /\ n \in 1..n /\ \A k \in 1..deliveries : k \in 1..n
    BY <1>1, <1>2, BusAssumption
  <2>2. d.number = n  OBVIOUS
  <2>3. QED  BY <1>1, <1>2, <2>1, <2>2
<1>4. Bus!TypeOK'  BY <1>1, <1>3 DEF BusInv, Bus!TypeOK
<1>5. d.what = what /\ d.role = r /\ d.item = item  OBVIOUS
<1> HIDE DEF d
<1>6. DelayedTyped'  BY <1>1, <1>5 DEF BusInv, DelayedTyped
<1>7. QED  BY <1>1, <1>4, <1>6, BusStays

\* A delivery under the lock: an artifact once, a message to its role, a
\* contribution where there is none yet; nothing after an abort.
LEMMA BusDelivers ==
    ASSUME BusInv, NEW d \in delayed, Bus!Deliver(d)
    PROVE  BusInv'
<1>t. Bus!TypeOK /\ DelayedTyped  BY DEF BusInv
<1>1. /\ delayed' \subseteq delayed /\ UNCHANGED <<roles, deliveries, abort, collectors, read>>
  BY DEF Bus!Deliver
<1>2. DelayedTyped'  BY <1>t, <1>1 DEF DelayedTyped
<1>3. CASE UNCHANGED <<contributions, public, direct>>
  <2>1. Bus!TypeOK'  BY <1>t, <1>1, <1>3 DEF Bus!TypeOK
  <2>2. QED  BY <1>1, <1>2, <1>3, <2>1, BusStays
<1>4. CASE Bus!DeliverPublic(d)
  <2>1. /\ d.item \in Artifacts /\ UNCHANGED <<contributions, direct>>
        /\ public' = public \/ public' = Append(public, d.item)
    BY <1>t, <1>4 DEF Bus!DeliverPublic, DelayedTyped
  <2>2. public \in Seq(Artifacts) /\ read \in 0..Len(public)  BY <1>t DEF Bus!TypeOK
  <2>3. public' \in Seq(Artifacts) /\ read \in 0..Len(public')
    <3>1. Append(public, d.item) \in Seq(Artifacts)
          /\ Len(Append(public, d.item)) = Len(public) + 1 /\ Len(public) \in Nat
      BY <2>1, <2>2, AppendProperties, LenProperties
    <3>2. read \in 0..(Len(public) + 1)  BY <2>2, <3>1
    <3>3. QED  BY <2>1, <2>2, <3>1, <3>2
  <2>4. Bus!TypeOK'  BY <1>t, <1>1, <2>1, <2>3 DEF Bus!TypeOK
  <2>5. QED  BY <1>1, <1>2, <2>1, <2>4, BusStays
<1>5. CASE Bus!DeliverDirect(d)
  <2>1. /\ d.role \in Roles /\ d.number \in 1..MaxDeliveries
        /\ UNCHANGED <<contributions, public>>
    BY <1>t, <1>5, BusAssumption DEF Bus!DeliverDirect, DelayedTyped, Bus!TypeOK
  <2>2. direct \in [Roles -> Seq(1..MaxDeliveries)]  BY <1>t DEF Bus!TypeOK
  <2>3. \A q \in Seq(1..MaxDeliveries) : /\ Append(q, d.number) \in Seq(1..MaxDeliveries)
                                         /\ Append(Append(q, d.number), d.number) \in Seq(1..MaxDeliveries)
    BY <2>1, AppendProperties
  <2>4. \E q \in Seq(1..MaxDeliveries) : direct' = [direct EXCEPT ![d.role] = q]
    BY <1>5, <2>1, <2>2, <2>3 DEF Bus!DeliverDirect
  <2>5. direct' \in [Roles -> Seq(1..MaxDeliveries)]  BY <2>2, <2>4
  <2>6. Bus!TypeOK'  BY <1>t, <1>1, <2>1, <2>5 DEF Bus!TypeOK
  <2>7. QED  BY <1>1, <1>2, <2>1, <2>6, BusStays
<1>6. CASE Bus!DeliverContribution(d)
  <2>1. /\ d.role \in Roles /\ d.item \in Payloads /\ UNCHANGED <<public, direct>>
        /\ contributions \in [Roles -> {None} \union Payloads]
        /\ contributions' = [contributions EXCEPT
                               ![d.role] = IF contributions[d.role] = None THEN d.item
                                           ELSE contributions[d.role]]
    BY <1>t, <1>6 DEF Bus!DeliverContribution, DelayedTyped, Bus!TypeOK
  <2>2. /\ contributions' \in [Roles -> {None} \union Payloads]
        /\ \A r \in Roles : contributions[r] # None => contributions'[r] = contributions[r]
    BY <2>1
  <2>3. Contributed \subseteq Contributed'
    <3>1. \A r \in Bus!Selected : r \in Bus!Selected' /\ contributions'[r] = contributions[r]
      BY <2>2, BusAssumption DEF Bus!Selected
    <3>2. QED  BY <3>1 DEF Contributed
  <2>4. Bus!TypeOK'  BY <1>t, <1>1, <2>1, <2>2 DEF Bus!TypeOK
  <2>5. Bus!CollectorsAgree' /\ GotIsThere'
    BY <1>1, <2>3 DEF BusInv, Bus!CollectorsAgree, GotIsThere
  <2>6. QED  BY <1>2, <2>4, <2>5 DEF BusInv
<1>7. QED  BY <1>3, <1>4, <1>5, <1>6 DEF Bus!Deliver

\* A collection returns everything that is there, or nothing.
LEMMA BusCollects ==
    ASSUME BusInv, NEW c \in Collectors, NEW e \in Collections,
           e.got \in {{}, Contributed, collectors[c].got},
           collectors' = [collectors EXCEPT ![c] = e], abort' \in BOOLEAN,
           UNCHANGED <<roles, deliveries, delayed, contributions, public, direct, read>>
    PROVE  BusInv'
<1>t. Bus!TypeOK /\ GotIsThere /\ Bus!CollectorsAgree /\ DelayedTyped  BY DEF BusInv
<1>1. collectors \in [Collectors -> Collections]  BY <1>t DEF Bus!TypeOK, Collections
<1>2. /\ collectors' \in [Collectors -> Collections] /\ collectors'[c] = e
      /\ \A b \in Collectors \ {c} : collectors'[b] = collectors[b]
  BY <1>1
<1>3. Bus!TypeOK'  BY <1>t, <1>2 DEF Bus!TypeOK, Collections
<1>4. Contributed' = Contributed  BY DEF Contributed, Bus!Selected
<1>5. DelayedTyped'  BY <1>t DEF DelayedTyped
<1>6. GotIsThere'  BY <1>t, <1>2, <1>4 DEF GotIsThere
<1>7. \A b \in Collectors : e.got \subseteq collectors[b].got \/ collectors[b].got \subseteq e.got
  BY <1>t DEF GotIsThere, Bus!CollectorsAgree
<1>8. Bus!CollectorsAgree'  BY <1>t, <1>2, <1>7 DEF Bus!CollectorsAgree
<1>9. QED  BY <1>3, <1>5, <1>6, <1>8 DEF BusInv

\* One look at the contributions.
LEMMA RoundType ==
    ASSUME Bus!TypeOK, NEW late \in BOOLEAN
    PROVE  /\ Bus!Round(late) \in Collections
           /\ Bus!Round(late).got \in {{}, Contributed}
           /\ abort => Bus!Round(late).at = "aborted"
<1>1. Contributed \in SUBSET (Roles \X Payloads)
  BY BusAssumption DEF Bus!TypeOK, Contributed, Bus!Selected
<1>2. QED  BY <1>1 DEF Bus!Round, Collections, Contributed

\* Every step of the transport keeps its invariant.
LEMMA BusKeeps == BusInv /\ Bus!Next => BusInv'
<1> SUFFICES ASSUME BusInv, Bus!Next PROVE BusInv'  OBVIOUS
<1>t. Bus!TypeOK /\ DelayedTyped  BY DEF BusInv
<1>c. collectors \in [Collectors -> Collections]  BY <1>t DEF Bus!TypeOK, Collections
<1>1. CASE \E r \in Roles : Bus!RegisterRole(r)
  <2>1. Bus!TypeOK'  BY <1>t, <1>1 DEF Bus!RegisterRole, Bus!TypeOK
  <2>2. UNCHANGED <<delayed, contributions, collectors>>  BY <1>1 DEF Bus!RegisterRole
  <2>3. QED  BY <1>t, <2>1, <2>2, BusStays DEF DelayedTyped
<1>2. CASE \E r \in Roles : Bus!SendToRole(r)
  BY <1>2, BusBegins DEF Bus!SendToRole
<1>3. CASE \E r \in Roles, p \in Payloads : Bus!SubmitContribution(r, p)
  BY <1>3, BusBegins DEF Bus!SubmitContribution
<1>4. CASE \E a \in Artifacts : Bus!Broadcast(a)
  BY <1>4, BusBegins DEF Bus!Broadcast
<1>5. CASE \E d \in delayed : Bus!Deliver(d)  BY <1>5, BusDelivers
<1>6. CASE \E r \in Roles : Bus!ReceiveDirect(r)
  <2>1. PICK r \in Roles : Bus!ReceiveDirect(r)  BY <1>6
  <2>2. /\ direct' = [direct EXCEPT ![r] = <<>>] /\ <<>> \in Seq(1..MaxDeliveries)
        /\ UNCHANGED <<roles, deliveries, delayed, contributions, public, abort, collectors, read>>
    BY <2>1 DEF Bus!ReceiveDirect
  <2>3. Bus!TypeOK'  BY <1>t, <2>2 DEF Bus!TypeOK
  <2>4. QED  BY <1>t, <2>2, <2>3, BusStays DEF DelayedTyped
<1>7. CASE \E c \in Collectors : Bus!Collect(c) \/ Bus!Wake(c)
  <2>1. PICK c \in Collectors, late \in BOOLEAN :
           /\ collectors' = [collectors EXCEPT ![c] = Bus!Round(late)]
           /\ UNCHANGED <<roles, deliveries, delayed, contributions, public, direct, abort, read>>
    BY <1>7 DEF Bus!Collect, Bus!Wake
  <2>2. abort' \in BOOLEAN  BY <1>t, <2>1 DEF Bus!TypeOK
  <2>3. QED  BY <1>t, <2>1, <2>2, RoundType, BusCollects
<1>8. CASE \E c \in Collectors : Bus!Deadline(c) \/ Bus!Cancel(c)
  <2>1. PICK c \in Collectors, at \in {"timeout", "aborted"} :
           /\ collectors' = [collectors EXCEPT ![c].at = at] /\ abort' \in BOOLEAN
           /\ UNCHANGED <<roles, deliveries, delayed, contributions, public, direct, read>>
    BY <1>t, <1>8 DEF Bus!Deadline, Bus!Cancel, Bus!TypeOK
  <2> DEFINE e == [collectors[c] EXCEPT !.at = at]
  <2>2. e \in Collections /\ e.got = collectors[c].got  BY <1>c DEF Collections
  <2>3. collectors' = [collectors EXCEPT ![c] = e]  BY <1>c, <2>1
  <2>4. QED  BY <2>1, <2>2, <2>3, BusCollects
<1>9. CASE Bus!Abort
  <2>1. Bus!TypeOK'  BY <1>t, <1>9 DEF Bus!Abort, Bus!TypeOK
  <2>2. UNCHANGED <<delayed, contributions, collectors>>  BY <1>9 DEF Bus!Abort
  <2>3. QED  BY <1>t, <2>1, <2>2, BusStays DEF DelayedTyped
<1>10. CASE Bus!Subscribe
  <2>1. Bus!TypeOK'
    <3>1. Len(public) \in 0..Len(public)  BY <1>t, LenProperties DEF Bus!TypeOK
    <3>2. QED  BY <1>t, <1>10, <3>1 DEF Bus!Subscribe, Bus!TypeOK
  <2>2. UNCHANGED <<delayed, contributions, collectors>>  BY <1>10 DEF Bus!Subscribe
  <2>3. QED  BY <1>t, <2>1, <2>2, BusStays DEF DelayedTyped
<1>11. QED
  BY <1>1, <1>2, <1>3, <1>4, <1>5, <1>6, <1>7, <1>8, <1>9, <1>10 DEF Bus!Next

\* What a step may do once the ceremony is aborted.
Ended ==
    /\ contributions' = contributions /\ public' = public /\ direct' = direct
    /\ \A c \in Collectors :
         collectors'[c] # collectors[c] => collectors'[c].at \in {"aborted", "timeout"}

\* After an abort a delivery is discarded, and a collection ends without a quorum.
LEMMA NothingIsDelivered ==
    ASSUME BusInv, Bus!Next, abort
    PROVE  Ended
<1>t. Bus!TypeOK  BY DEF BusInv
<1>c. collectors \in [Collectors -> Collections]  BY <1>t DEF Bus!TypeOK, Collections
<1>1. CASE \E d \in delayed : Bus!Deliver(d)
  BY <1>1 DEF Bus!Deliver, Ended
<1>2. CASE \E c \in Collectors : Bus!Collect(c) \/ Bus!Wake(c)
  <2>1. PICK c \in Collectors, late \in BOOLEAN :
           /\ collectors' = [collectors EXCEPT ![c] = Bus!Round(late)]
           /\ UNCHANGED <<contributions, public, direct>>
    BY <1>2 DEF Bus!Collect, Bus!Wake
  <2>2. Bus!Round(late).at = "aborted"  BY <1>t, RoundType
  <2>3. collectors'[c] = Bus!Round(late) /\ \A b \in Collectors \ {c} : collectors'[b] = collectors[b]
    BY <1>c, <2>1
  <2>4. QED  BY <2>1, <2>2, <2>3 DEF Ended
<1>3. CASE \E c \in Collectors : Bus!Deadline(c) \/ Bus!Cancel(c)
  <2>1. PICK c \in Collectors, at \in {"timeout", "aborted"} :
           /\ collectors' = [collectors EXCEPT ![c].at = at]
           /\ UNCHANGED <<contributions, public, direct>>
    BY <1>3 DEF Bus!Deadline, Bus!Cancel
  <2>2. collectors'[c].at = at /\ \A b \in Collectors \ {c} : collectors'[b] = collectors[b]
    BY <1>c, <2>1 DEF Collections
  <2>3. QED  BY <2>1, <2>2 DEF Ended
<1>4. CASE Bus!Subscribe  BY <1>4 DEF Bus!Subscribe, Ended
<1>5. QED
  BY <1>1, <1>2, <1>3, <1>4
     DEF Bus!Next, Bus!RegisterRole, Bus!SendToRole, Bus!ReceiveDirect, Bus!SubmitContribution,
         Bus!Broadcast, Bus!Begin, Bus!Abort

\* The collections of a ceremony never disagree, whatever was delayed, dropped or
\* doubled, and after an abort nothing is delivered and no collection finds a quorum
\* (InMemoryCeremonyBus), for any number of roles, deliveries and collections.
THEOREM ContributionsHold == MCSpec => ContributionsSettle
<1>1. MCInit => BusInv  BY BusStarts DEF MCInit
<1>2. BusInv /\ UNCHANGED bus => BusInv'
  <2> SUFFICES ASSUME BusInv, UNCHANGED bus PROVE BusInv'  OBVIOUS
  <2>1. UNCHANGED <<roles, deliveries, delayed, contributions, public, direct, abort,
                    collectors, read>>
    BY DEF bus
  <2>2. Bus!TypeOK' /\ DelayedTyped'  BY <2>1 DEF BusInv, Bus!TypeOK, DelayedTyped
  <2>3. QED  BY <2>1, <2>2, BusStays
<1>3. MCNext => UNCHANGED bus \/ Bus!Next  BY DEF MCNext
<1>4. BusInv /\ [MCNext]_vars => BusInv'
  BY <1>2, <1>3, BusKeeps DEF vars
<1>5. BusInv /\ [MCNext]_vars => [abort => Ended]_(Bus!bus)
  <2> SUFFICES ASSUME BusInv, [MCNext]_vars PROVE [abort => Ended]_(Bus!bus)  OBVIOUS
  <2>1. CASE UNCHANGED bus  BY <2>1 DEF bus, Bus!bus
  <2>2. CASE Bus!Next  BY <2>2, NothingIsDelivered
  <2>3. QED  BY <1>3, <2>1, <2>2 DEF vars
<1>6. BusInv => Bus!TypeOK /\ Bus!CollectorsAgree  BY DEF BusInv
<1>7. MCSpec => [](Bus!TypeOK /\ Bus!CollectorsAgree)
  BY <1>1, <1>4, <1>6, PTL DEF MCSpec
<1>8. MCSpec => [][abort => Ended]_(Bus!bus)
  BY <1>1, <1>4, <1>5, PTL DEF MCSpec
<1>9. QED  BY <1>7, <1>8 DEF ContributionsSettle, Bus!NothingAfterAbort, Ended
=============================================================================
